--------------------------- MODULE VstrHttpdProofs ---------------------------
(***************************************************************************)
(* What is proved about the HTTP server: whatever is asked and whatever    *)
(* fails, the descriptor of a file is open exactly while sections of it    *)
(* are left, nothing of an answer is left for the next, and a connection   *)
(* that is open waits for something.                                       *)
(***************************************************************************)
EXTENDS VstrHttpd, VstrFacts

-----------------------------------------------------------------------------
(* Connections *)

Requests == Asks \cup Nexts

ConFields ==
  {"fs", "fd", "off", "num", "sz", "mpbr", "ct", "total", "mmap", "sendfile", "keep", "got",
   "in", "out", "pollin", "queued", "sr", "shut", "policy", "open", "head", "code", "enc",
   "page", "cut"}

IsCon(c) == c = [f \in ConFields |-> c[f]]

Sect == [off : Int, len : Int]

Slot == [file : DOMAIN Disk \cup {NoFile}, pos : Int]

(* q are the requests that are in io_r. *)
Typed(c, q) ==
  /\ IsCon(c) /\ c.in = q /\ q \in Seq(Requests)
  /\ c.fs \in Seq(Sect) /\ Len(c.fs) >= 1 /\ c.open \in [Fds -> Slot]
  /\ c.fd \in Nat /\ c.off \in Nat /\ c.num \in Nat /\ c.sz \in Nat /\ c.sz >= 1

(* No file is being sent, and nothing is left of one that was. *)
Closed(c, q) ==
  /\ Typed(c, q)
  /\ c.num = 0 /\ c.fd = NoFd /\ c.off = 0 /\ c.mpbr = FALSE /\ c.ct = 0
  /\ Len(c.fs) = 1 /\ c.fs[1].len = 0
  /\ \A f \in Fds : c.open[f].file = NoFile

(* A file is open, in one descriptor; what is to be sent of it is known    *)
(* once there are sections.                                                *)
HasFile(c, q) ==
  /\ Typed(c, q)
  /\ c.fd \in Fds /\ \A f \in Fds : c.open[f].file # NoFile <=> f = c.fd
  /\ c.num = 0 => c.off = 0
  /\ c.num > 0 => c.num = Len(c.fs) /\ c.off < c.num /\ c.num <= c.sz

Sending(c, q) == HasFile(c, q) /\ c.num > 0

(* d differs from c in nothing that concerns the file. *)
Alike(d, c) ==
  /\ IsCon(d) /\ d.in = c.in /\ d.fs = c.fs /\ d.fd = c.fd /\ d.off = c.off /\ d.num = c.num
  /\ d.sz = c.sz /\ d.mpbr = c.mpbr /\ d.ct = c.ct /\ d.open = c.open

LEMMA AlikeIs ==
  ASSUME NEW c, NEW d, NEW q, Alike(d, c)
  PROVE  (Closed(c, q) => Closed(d, q)) /\ (HasFile(c, q) => HasFile(d, q))
BY DEF Alike, Closed, HasFile, Typed

(* A field that has nothing to do with the file. *)
LEMMA SetOther ==
  ASSUME NEW c, IsCon(c), NEW v
  PROVE  /\ Alike([c EXCEPT !.out = v], c) /\ Alike([c EXCEPT !.code = v], c)
         /\ Alike([c EXCEPT !.mmap = v], c) /\ Alike([c EXCEPT !.total = v], c)
         /\ Alike([c EXCEPT !.pollin = v], c) /\ Alike([c EXCEPT !.head = v], c)
         /\ Alike([c EXCEPT !.queued = v], c) /\ Alike([c EXCEPT !.sr = v], c)
         /\ Alike([c EXCEPT !.keep = v], c) /\ Alike([c EXCEPT !.enc = v], c)
         /\ Alike([c EXCEPT !.got = v], c) /\ Alike([c EXCEPT !.page = v], c)
         /\ Alike([c EXCEPT !.cut = v], c) /\ Alike([c EXCEPT !.shut = v], c)
         /\ Alike([c EXCEPT !.sendfile = v], c)
<1>1. Alike([c EXCEPT !.out = v], c) /\ Alike([c EXCEPT !.code = v], c)
  BY DEF Alike, IsCon, ConFields
<1>2. Alike([c EXCEPT !.mmap = v], c) /\ Alike([c EXCEPT !.total = v], c)
  BY DEF Alike, IsCon, ConFields
<1>3. Alike([c EXCEPT !.pollin = v], c) /\ Alike([c EXCEPT !.head = v], c)
  BY DEF Alike, IsCon, ConFields
<1>4. Alike([c EXCEPT !.queued = v], c) /\ Alike([c EXCEPT !.sr = v], c)
  BY DEF Alike, IsCon, ConFields
<1>5. Alike([c EXCEPT !.keep = v], c) /\ Alike([c EXCEPT !.enc = v], c)
  BY DEF Alike, IsCon, ConFields
<1>6. Alike([c EXCEPT !.got = v], c) /\ Alike([c EXCEPT !.page = v], c)
  BY DEF Alike, IsCon, ConFields
<1>7. Alike([c EXCEPT !.cut = v], c) /\ Alike([c EXCEPT !.shut = v], c)
  BY DEF Alike, IsCon, ConFields
<1>8. Alike([c EXCEPT !.sendfile = v], c)
  BY DEF Alike, IsCon, ConFields
<1> QED BY ONLY <1>1, <1>2, <1>3, <1>4, <1>5, <1>6, <1>7, <1>8

LEMMA AlikeTwice ==
  ASSUME NEW c, NEW d, NEW e, Alike(d, c), Alike(e, d)
  PROVE  Alike(e, c)
BY DEF Alike

-----------------------------------------------------------------------------
(* Descriptors *)

LEMMA FdsNat ==
  /\ NFds \in Nat /\ NFds >= 1 /\ NoFd \notin Fds /\ Fds \in SUBSET Nat /\ 1 \in Fds
BY HttpdAssumption DEF Fds, NoFd

(* io_open_nonblock() uses a descriptor that is free. *)
FdFor(c) == CHOOSE f \in FreeFds(c) : \A g \in FreeFds(c) : f <= g

LEMMA FdForFree ==
  ASSUME NEW c, FreeFds(c) # {}
  PROVE  FdFor(c) \in Fds /\ c.open[FdFor(c)].file = NoFile
<1>1. FreeFds(c) \in SUBSET Nat
  BY FdsNat DEF FreeFds
<1>2. \E f \in FreeFds(c) : \A g \in FreeFds(c) : f <= g
  BY <1>1, LeastNat
<1>3. FdFor(c) \in FreeFds(c)
  BY <1>2 DEF FdFor
<1> QED BY <1>3 DEF FreeFds, IsOpen

(* The fields that opening a file sets. *)
LEMMA OpenFileIs ==
  ASSUME NEW c, NEW q, Typed(c, q), NEW file \in DOMAIN Disk, NEW fd, fd = FdFor(c), fd \in Fds,
         NEW d, d = OpenFile(c, file)
  PROVE  /\ Typed(d, q) /\ d.fd = fd /\ d.fs = c.fs /\ d.off = c.off /\ d.num = c.num /\ d.sz = c.sz
         /\ d.mpbr = c.mpbr /\ d.ct = c.ct /\ d.open[fd].file = file
         /\ \A f \in Fds : f # fd => d.open[f] = c.open[f]
<1>1. d = [c EXCEPT !.fd = fd, !.open[fd] = [file |-> file, pos |-> 0]]
  BY DEF OpenFile, FdFor
<1>2. [file |-> file, pos |-> 0] \in Slot
  BY DEF Slot
<1>3. fd \in Nat
  BY FdsNat
<1>4. PICK o : o = [c.open EXCEPT ![fd] = [file |-> file, pos |-> 0]]
  OBVIOUS
<1>5. o \in [Fds -> Slot] /\ o[fd].file = file /\ \A f \in Fds : f # fd => o[f] = c.open[f]
  BY <1>2, <1>4 DEF Typed
<1>6. d = [c EXCEPT !.fd = fd, !.open = o]
  BY <1>1, <1>4 DEF Typed, IsCon, ConFields
<1>7. /\ IsCon(d) /\ d.in = c.in /\ d.fs = c.fs /\ d.off = c.off /\ d.num = c.num /\ d.sz = c.sz
      /\ d.fd = fd /\ d.mpbr = c.mpbr /\ d.ct = c.ct /\ d.open = o
  BY <1>6 DEF Typed, IsCon, ConFields
<1> QED BY <1>3, <1>5, <1>7 DEF Typed

LEMMA OpenFileOK ==
  ASSUME NEW c, NEW q, Closed(c, q), NEW file \in DOMAIN Disk
  PROVE  /\ HasFile(OpenFile(c, file), q) /\ OpenFile(c, file).num = 0
         /\ FileOf(OpenFile(c, file)) = file
<1>1. PICK fd, d : fd = FdFor(c) /\ d = OpenFile(c, file)
  OBVIOUS
<1>2. FreeFds(c) # {}
  BY FdsNat DEF FreeFds, IsOpen, Closed
<1>3. fd \in Fds
  BY <1>1, <1>2, FdForFree
<1>4. /\ Typed(d, q) /\ d.fd = fd /\ d.off = c.off /\ d.num = c.num /\ d.open[fd].file = file
      /\ \A f \in Fds : f # fd => d.open[f] = c.open[f]
  BY <1>1, <1>3, OpenFileIs DEF Closed
<1>5. file # NoFile
  BY HttpdAssumption
<1>6. HasFile(d, q) /\ d.num = 0
  BY <1>3, <1>4, <1>5 DEF Closed, HasFile
<1> QED BY <1>1, <1>4, <1>6 DEF FileOf

(* The file of a connection is a file. *)
LEMMA FileOfIs ==
  ASSUME NEW c, NEW q, HasFile(c, q)
  PROVE  FileOf(c) \in DOMAIN Disk
<1>1. c.open[c.fd] \in Slot /\ c.open[c.fd].file # NoFile
  BY DEF HasFile, Typed
<1> QED BY <1>1 DEF FileOf, Slot

(* httpd_fin_fd_close(), whatever is left to be sent. *)
LEMMA FinFdCloseOK ==
  ASSUME NEW c, NEW q, Closed(c, q) \/ HasFile(c, q)
  PROVE  Closed(FinFdClose(c), q)
<1>1. PICK b, d, z : /\ z = (IF c.num = 0 THEN 0 ELSE c.num - 1) /\ b = [c EXCEPT !.off = z]
                     /\ d = FdNext(b)
  OBVIOUS
<1>2. Typed(c, q) /\ c.num \in Nat
  BY DEF Closed, HasFile, Typed
<1>3. z \in Nat /\ z + 1 >= c.num
  BY <1>1, <1>2
<1>4. /\ IsCon(b) /\ b.in = c.in /\ b.fs = c.fs /\ b.off = z /\ b.num = c.num /\ b.sz = c.sz
      /\ b.fd = c.fd /\ b.mpbr = c.mpbr /\ b.ct = c.ct /\ b.open = c.open
  BY <1>1, <1>2 DEF Typed, IsCon, ConFields
<1>5. PICK x : x = CloseFd(b, b.fd)
  OBVIOUS
<1>6. /\ IsCon(x) /\ x.in = b.in /\ x.fs = b.fs /\ x.sz = b.sz /\ x.open \in [Fds -> Slot]
      /\ \A f \in Fds : x.open[f].file = NoFile
  <2>1. CASE Closed(c, q)
    <3>1. b.fd = NoFd
      BY <1>4, <2>1 DEF Closed
    <3>2. x = b
      BY <1>5, <3>1 DEF CloseFd
    <3> QED BY <1>4, <2>1, <3>2 DEF Closed, Typed
  <2>2. CASE HasFile(c, q)
    <3>1. b.fd \in Fds /\ b.fd # NoFd
      BY <1>4, <2>2, FdsNat DEF HasFile
    <3>2. x = [b EXCEPT !.open[b.fd] = Shut1]
      BY <1>5, <3>1 DEF CloseFd
    <3>3. PICK o : o = [b.open EXCEPT ![b.fd] = Shut1]
      OBVIOUS
    <3>4. Shut1 \in Slot /\ Shut1.file = NoFile
      BY DEF Shut1, Slot
    <3>5. c.open \in [Fds -> Slot] /\ \A f \in Fds : f # c.fd => c.open[f].file = NoFile
      BY <2>2 DEF HasFile, Typed
    <3>6. o \in [Fds -> Slot] /\ \A f \in Fds : o[f].file = NoFile
      BY <1>4, <3>1, <3>3, <3>4, <3>5
    <3>7. x = [b EXCEPT !.open = o]
      BY <1>4, <3>2, <3>3 DEF IsCon, ConFields
    <3>8. IsCon(x) /\ x.in = b.in /\ x.fs = b.fs /\ x.sz = b.sz /\ x.open = o
      BY <1>4, <3>7 DEF IsCon, ConFields
    <3> QED BY <3>6, <3>8
  <2> QED BY <2>1, <2>2
<1>7. d = [x EXCEPT !.fd = NoFd, !.off = 0, !.num = 0, !.mpbr = FALSE, !.ct = 0,
                    !.fs = <<[off |-> @[1].off, len |-> 0]>>]
  BY <1>1, <1>3, <1>4, <1>5 DEF FdNext
<1>8. PICK s : s = <<[off |-> x.fs[1].off, len |-> 0]>>
  OBVIOUS
<1>9. s \in Seq(Sect) /\ Len(s) = 1 /\ Len(s) >= 1 /\ s[1].len = 0
  <2>1. 1 \in 1 .. Len(x.fs) /\ x.fs \in Seq(Sect)
    BY <1>2, <1>4, <1>6 DEF Typed
  <2>2. x.fs[1] \in Sect
    BY <2>1
  <2>3. [off |-> x.fs[1].off, len |-> 0] \in Sect
    BY <2>2 DEF Sect
  <2> QED BY <1>8, <2>3
<1>10. d = [x EXCEPT !.fd = NoFd, !.off = 0, !.num = 0, !.mpbr = FALSE, !.ct = 0, !.fs = s]
  BY <1>6, <1>7, <1>8 DEF IsCon, ConFields
<1>11. /\ IsCon(d) /\ d.in = x.in /\ d.fs = s /\ d.off = 0 /\ d.num = 0 /\ d.sz = x.sz
       /\ d.fd = NoFd /\ d.mpbr = FALSE /\ d.ct = 0 /\ d.open = x.open
  BY <1>6, <1>10 DEF IsCon, ConFields
<1>12. Closed(d, q)
  <2>1. d.in = q /\ q \in Seq(Requests) /\ d.sz \in Nat /\ d.sz >= 1
    BY <1>2, <1>4, <1>6, <1>11 DEF Typed
  <2>2. d.fs \in Seq(Sect) /\ Len(d.fs) = 1 /\ Len(d.fs) >= 1 /\ d.fs[1].len = 0
    BY ONLY <1>9, <1>11
  <2>3. d.fd \in Nat /\ d.off \in Nat /\ d.num \in Nat
    BY ONLY <1>11 DEF NoFd
  <2> QED BY ONLY <1>6, <1>11, <2>1, <2>2, <2>3 DEF Closed, Typed
<1> QED BY <1>1, <1>12 DEF FinFdClose

-----------------------------------------------------------------------------
(* Answers *)

(* An answer is either complete or there are sections to be sent. *)
After(d) == \E q \in Seq(Requests) : Closed(d, q) \/ Sending(d, q)

(* The requests that are left do not matter to the file. *)
LEMMA SetIn ==
  ASSUME NEW c, NEW q, NEW d, NEW p \in Seq(Requests), IsCon(d), d.in = p,
         d.fs = c.fs, d.fd = c.fd, d.off = c.off, d.num = c.num, d.sz = c.sz,
         d.mpbr = c.mpbr, d.ct = c.ct, d.open = c.open
  PROVE  (Closed(c, q) => Closed(d, p)) /\ (HasFile(c, q) => HasFile(d, p))
BY DEF Closed, HasFile, Typed

LEMMA FinReqOK ==
  ASSUME NEW c, NEW q, Closed(c, q) \/ Sending(c, q), q # <<>>
  PROVE  After(FinReq(c))
<1>1. IsCon(c) /\ c.in = q /\ q \in Seq(Requests)
  BY DEF Closed, Sending, HasFile, Typed
<1>2. PICK d, p : d = FinReq(c) /\ p = d.in
  OBVIOUS
<1>3. /\ IsCon(d) /\ p \in Seq(Requests) /\ d.fs = c.fs /\ d.fd = c.fd /\ d.off = c.off
      /\ d.num = c.num /\ d.sz = c.sz /\ d.mpbr = c.mpbr /\ d.ct = c.ct /\ d.open = c.open
  <2>1. CASE c.keep
    <3>1. d = [c EXCEPT !.in = Tail(c.in)]
      BY <1>1, <1>2, <2>1 DEF FinReq, IsCon, ConFields
    <3>2. Tail(q) \in Seq(Requests)
      BY <1>1
    <3> QED BY <1>1, <1>2, <3>1, <3>2 DEF IsCon, ConFields
  <2>2. CASE ~c.keep
    <3>1. d = [c EXCEPT !.in = <<>>, !.pollin = FALSE]
      BY <1>2, <2>2 DEF FinReq
    <3>2. <<>> \in Seq(Requests)
      OBVIOUS
    <3> QED BY <1>1, <1>2, <3>1, <3>2 DEF IsCon, ConFields
  <2> QED BY <2>1, <2>2
<1>4. Closed(d, p) \/ Sending(d, p)
  BY <1>2, <1>3, SetIn DEF Sending
<1> QED BY <1>2, <1>3, <1>4 DEF After

LEMMA AddAlike ==
  ASSUME NEW c, IsCon(c), NEW items
  PROVE  Alike(Add(c, items), c)
<1>1. Add(c, items) = [c EXCEPT !.out = c.out \o items]
  BY DEF Add, IsCon, ConFields
<1> QED BY <1>1, SetOther

LEMMA AddHeadAlike ==
  ASSUME NEW c, IsCon(c), NEW r, NEW code, NEW clen, NEW beg
  PROVE  Alike(AddHead(c, r, code, clen, beg), c)
<1>1. PICK d, x : /\ d = [c EXCEPT !.code = code]
                  /\ x = IF r.ver = "0.9" THEN <<>> ELSE <<HeadItem(code, c.keep, clen, beg)>>
  OBVIOUS
<1>2. Alike(d, c)
  BY <1>1, SetOther
<1>a. IsCon(d)
  BY <1>2 DEF Alike
<1>3. AddHead(c, r, code, clen, beg) = Add(d, x)
  BY <1>1 DEF AddHead
<1> QED BY <1>2, <1>a, <1>3, AddAlike, AlikeTwice

LEMMA AddMappedAlike ==
  ASSUME NEW c, IsCon(c)
  PROVE  Alike(AddMapped(c), c)
<1>1. Alike(c, c)
  BY DEF Alike
<1> QED BY <1>1, AddAlike DEF AddMapped

LEMMA FinFdReqOK ==
  ASSUME NEW c, NEW q, Sending(c, q), q # <<>>
  PROVE  After(FinFdReq(c))
<1>1. PICK d : d = IF c.head \/ c.mmap \/ c.fs[1].len = 0 THEN FinFdClose(c) ELSE c
  OBVIOUS
<1>2. Closed(d, q) \/ Sending(d, q)
  BY <1>1, FinFdCloseOK DEF Sending
<1>3. FinFdReq(c) = FinReq(d)
  BY <1>1 DEF FinFdReq
<1> QED BY <1>2, <1>3, FinReqOK

(* httpd_serv_file_sects_none() *)
LEMMA SectsNoneOK ==
  ASSUME NEW c, NEW q, HasFile(c, q), c.off = 0, NEW size \in Int
  PROVE  Sending(SectsNone(c, size), q) /\ SectsNone(c, size).off = 0
<1>1. PICK d, s : d = SectsNone(c, size) /\ s = <<[off |-> 0, len |-> size]>>
  OBVIOUS
<1>2. s \in Seq(Sect) /\ Len(s) = 1
  <2>1. [off |-> 0, len |-> size] \in Sect
    BY DEF Sect
  <2> QED BY <1>1, <2>1
<1>3. d = [c EXCEPT !.mpbr = FALSE, !.num = 1, !.fs = s]
  BY <1>1 DEF SectsNone
<1>4. /\ IsCon(d) /\ d.in = c.in /\ d.fs = s /\ d.off = 0 /\ d.num = 1 /\ d.sz = c.sz
      /\ d.fd = c.fd /\ d.open = c.open
  BY <1>3 DEF HasFile, Typed, IsCon, ConFields
<1>5. HasFile(d, q)
  <2>1. Typed(c, q) /\ c.sz \in Nat /\ c.sz >= 1
    BY DEF HasFile, Typed
  <2>2. /\ Len(s) >= 1 /\ d.num = Len(d.fs) /\ d.off < d.num /\ d.num <= d.sz /\ d.off \in Nat
        /\ d.num \in Nat
    BY ONLY <1>2, <1>4, <2>1
  <2>3. Typed(d, q)
    BY ONLY <1>2, <1>4, <2>1, <2>2 DEF Typed
  <2> QED BY <1>4, <2>2, <2>3 DEF HasFile
<1> QED BY <1>1, <1>4, <1>5 DEF Sending

LEMMA FinErrMsgOK ==
  ASSUME NEW c, NEW q, Closed(c, q), q # <<>>, NEW r, NEW code
  PROVE  After(FinErrMsg(c, r, code))
<1>1. PICK t, d : /\ t = AddHead(c, r, code, 1, -1)
                  /\ d = IF c.head THEN t ELSE Add(t, <<Message(code)>>)
  OBVIOUS
<1>2. IsCon(c)
  BY DEF Closed, Typed
<1>3. Alike(t, c)
  BY <1>1, <1>2, AddHeadAlike
<1>a. IsCon(t)
  BY <1>3 DEF Alike
<1>4. Alike(d, c)
  BY <1>1, <1>3, <1>a, AddAlike, AlikeTwice
<1>5. Closed(d, q)
  BY <1>4, AlikeIs
<1>6. FinErrMsg(c, r, code) = FinReq(d)
  BY <1>1 DEF FinErrMsg
<1> QED BY <1>5, <1>6, FinReqOK

LEMMA CallMmapAlike ==
  ASSUME NEW c, IsCon(c), NEW fault
  PROVE  Alike(CallMmap(c, fault), c)
<1>1. Alike(c, c)
  BY DEF Alike
<1> QED BY <1>1, SetOther DEF CallMmap

(* http__try_encoded_content(): of the two descriptors one stays, also     *)
(* with a section to be sent.                                              *)
LEMMA TryEncodingOK ==
  ASSUME NEW c, NEW q, HasFile(c, q), c.num \in {0, 1}, NEW r, disk \in [DOMAIN Disk -> Int]
  PROVE  HasFile(TryEncoding(c, r), q) /\ TryEncoding(c, r).num = c.num
<1>1. CASE TryEncoding(c, r) = c
  BY <1>1
<1>2. CASE TryEncoding(c, r) # c
  <2>1. PICK zip, fd, o, x, d, s : /\ zip = Gzip[FileOf(c)] /\ fd = FdFor(c) /\ o = OpenFile(c, zip)
                                   /\ x = CloseFd(o, c.fd) /\ d = TryEncoding(c, r)
                                   /\ s = <<[off |-> 0, len |-> disk[zip]]>>
    OBVIOUS
  <2>2. /\ zip # NoFile /\ FreeFds(c) # {}
        /\ d = [x EXCEPT !.enc = TRUE, !.fs = s]
    BY <1>2, <2>1 DEF TryEncoding
  <2>3. zip \in DOMAIN Disk
    BY <2>1, <2>2, FileOfIs, HttpdAssumption
  <2>4. fd \in Fds /\ c.open[fd].file = NoFile
    BY <2>1, <2>2, FdForFree
  <2>5. fd # c.fd /\ c.fd \in Fds /\ c.fd # NoFd /\ Typed(c, q) /\ c.off = 0
    <3>1. Typed(c, q) /\ c.off \in Nat
      BY DEF HasFile, Typed
    <3>2. c.off = 0
      BY <3>1 DEF HasFile
    <3> QED BY <2>4, <3>1, <3>2, FdsNat DEF HasFile
  <2>6. /\ Typed(o, q) /\ o.fd = fd /\ o.off = 0 /\ o.num = c.num /\ o.sz = c.sz
        /\ o.open[fd].file = zip /\ \A f \in Fds : f # fd => o.open[f] = c.open[f]
    BY <2>1, <2>3, <2>4, <2>5, OpenFileIs
  <2>7. PICK w : w = [o.open EXCEPT ![c.fd] = Shut1]
    OBVIOUS
  <2>8. x = [o EXCEPT !.open = w]
    BY <2>1, <2>5, <2>6, <2>7 DEF CloseFd, Typed, IsCon, ConFields
  <2>9. w \in [Fds -> Slot] /\ \A f \in Fds : w[f].file # NoFile <=> f = fd
    <3>1. Shut1 \in Slot /\ Shut1.file = NoFile
      BY DEF Shut1, Slot
    <3>2. o.open \in [Fds -> Slot] /\ \A f \in Fds : c.open[f].file # NoFile <=> f = c.fd
      BY <2>6 DEF HasFile, Typed
    <3>3. \A f \in Fds : w[f] = IF f = c.fd THEN Shut1 ELSE o.open[f]
      BY ONLY <2>5, <2>7, <3>1, <3>2
    <3>4. w \in [Fds -> Slot]
      BY ONLY <2>5, <2>7, <3>1, <3>2
    <3> QED BY ONLY <2>2, <2>4, <2>5, <2>6, <3>1, <3>2, <3>3, <3>4
  <2>10. s \in Seq(Sect) /\ Len(s) = 1 /\ Len(s) >= 1
    <3>1. [off |-> 0, len |-> disk[zip]] \in Sect
      BY <2>3 DEF Sect
    <3> QED BY <2>1, <3>1
  <2>11. /\ IsCon(d) /\ d.in = o.in /\ d.fs = s /\ d.fd = o.fd /\ d.off = o.off
         /\ d.num = o.num /\ d.sz = o.sz /\ d.open = w
    BY <2>2, <2>6, <2>8 DEF Typed, IsCon, ConFields
  <2>12. Typed(d, q)
    BY <2>6, <2>9, <2>10, <2>11 DEF Typed
  <2>13. d.num > 0 => d.num = Len(d.fs) /\ d.off < d.num /\ d.num <= d.sz
    <3>1. c.sz \in Nat /\ c.sz >= 1
      BY <2>5 DEF Typed
    <3> QED BY ONLY <2>6, <2>10, <2>11, <3>1, c.num \in {0, 1}
  <2>14. d.num = c.num /\ d.off = 0 /\ d.fd = fd /\ d.open = w
    BY <2>6, <2>11
  <2>15. HasFile(d, q)
    BY <2>4, <2>9, <2>12, <2>13, <2>14 DEF HasFile
  <2> QED BY <2>1, <2>14, <2>15
<1> QED BY <1>1, <1>2

(* http_fin_err_req() with a page of the site, which is open *)
LEMMA FinErrPageOK ==
  ASSUME NEW c, NEW q, HasFile(c, q), c.num = 0, q # <<>>, NEW r, NEW code, NEW fault,
         disk \in [DOMAIN Disk -> Int]
  PROVE  After(FinErrPage(c, r, code, fault))
<1>1. disk[FileOf(c)] \in Int /\ c.off = 0
  <2>1. FileOf(c) \in DOMAIN Disk
    BY FileOfIs
  <2> QED BY <2>1 DEF HasFile
<1>2. PICK o, p, m, n, t : /\ o = SectsNone(c, disk[FileOf(c)])
                           /\ p = (IF r.ver = "0.9" THEN o ELSE TryEncoding(o, r))
                           /\ m = [p EXCEPT !.mmap = FALSE, !.page = TRUE]
                           /\ n = (IF c.head THEN m ELSE CallMmap(m, fault))
                           /\ t = AddHead(n, r, code, p.fs[1].len, -1)
  OBVIOUS
<1>3. HasFile(o, q) /\ o.num = 1
  <2>1. HasFile(o, q)
    BY <1>1, <1>2, SectsNoneOK DEF Sending
  <2>2. o.num = 1
    BY <1>2 DEF SectsNone, HasFile, Typed, IsCon, ConFields
  <2> QED BY <2>1, <2>2
<1>4. Sending(p, q) /\ IsCon(p)
  <2>1. HasFile(p, q) /\ p.num = 1
    BY <1>2, <1>3, TryEncodingOK
  <2> QED BY ONLY <2>1 DEF Sending, HasFile, Typed
<1>5. Alike(m, p)
  BY <1>2, <1>4 DEF Alike, IsCon, ConFields
<1>6. Alike(n, m)
  <2>1. Alike(m, m) /\ IsCon(m)
    BY <1>5 DEF Alike
  <2> QED BY <1>2, <2>1, CallMmapAlike
<1>7. Alike(t, n) /\ IsCon(t)
  <2>1. IsCon(n)
    BY <1>6 DEF Alike
  <2>2. Alike(t, n)
    BY <1>2, <2>1, AddHeadAlike
  <2> QED BY <2>2 DEF Alike
<1>8. Alike(t, p)
  BY <1>5, <1>6, <1>7, AlikeTwice
<1>9. Alike(AddMapped(t), p)
  BY <1>7, <1>8, AddMappedAlike, AlikeTwice
<1>10. Sending(t, q) /\ Sending(AddMapped(t), q)
  BY <1>4, <1>8, <1>9, AlikeIs DEF Sending, Alike
<1>11. FinErrPage(c, r, code, fault) = IF c.head THEN FinReq(t) ELSE FinFdReq(AddMapped(t))
  BY <1>2 DEF FinErrPage
<1>12. After(FinReq(t)) /\ After(FinFdReq(AddMapped(t)))
  BY <1>10, FinReqOK, FinFdReqOK
<1> QED BY <1>11, <1>12

(* http_fin_err_req(): with a page, without one, and with one that was     *)
(* opened and closed again.                                                *)
LEMMA FinErrOK ==
  ASSUME NEW c, NEW q, Closed(c, q), q # <<>>, NEW r, NEW code, NEW fault,
         disk \in [DOMAIN Disk -> Int]
  PROVE  After(FinErr(c, r, code, fault))
<1>1. PICK k, p : /\ k = [c EXCEPT !.keep = @ /\ ~IsFatal(code), !.enc = FALSE]
                  /\ p = OpenFile(k, c.policy.errpage)
  OBVIOUS
<1>2. Alike(k, c)
  BY <1>1 DEF Closed, Typed, Alike, IsCon, ConFields
<1>3. Closed(k, q)
  BY <1>2, AlikeIs
<1>4. FinErr(c, r, code, fault)
        = IF ~HasPage(c, code) \/ ~PageOpens(c, fault) THEN FinErrMsg(k, r, code)
          ELSE IF PageGiven(c, fault) THEN FinErrPage(p, r, code, fault)
          ELSE FinErrMsg(FinFdClose(p), r, code)
  BY <1>1 DEF FinErr
<1>5. CASE ~HasPage(c, code) \/ ~PageOpens(c, fault)
  BY <1>3, <1>4, <1>5, FinErrMsgOK
<1>6. CASE HasPage(c, code) /\ PageOpens(c, fault)
  <2>1. c.policy.errpage \in DOMAIN Disk
    BY <1>6, HttpdAssumption DEF HasPage, PageOpens
  <2>2. HasFile(p, q) /\ p.num = 0
    BY <1>1, <1>3, <2>1, OpenFileOK
  <2>3. After(FinErrPage(p, r, code, fault))
    BY <2>2, FinErrPageOK
  <2>4. Closed(FinFdClose(p), q)
    BY <2>2, FinFdCloseOK
  <2>5. After(FinErrMsg(FinFdClose(p), r, code))
    BY <2>4, FinErrMsgOK
  <2> QED BY <1>4, <1>6, <2>3, <2>5
<1> QED BY <1>5, <1>6

LEMMA FinErrCloseOK ==
  ASSUME NEW c, NEW q, HasFile(c, q), q # <<>>, NEW r, NEW code, NEW fault,
         disk \in [DOMAIN Disk -> Int]
  PROVE  After(FinErrClose(c, r, code, fault))
BY FinFdCloseOK, FinErrOK DEF FinErrClose

LEMMA FinErrMemOK ==
  ASSUME NEW c, NEW q, Closed(c, q), q # <<>>, NEW r, NEW was
  PROVE  After(FinErrMem(c, r, was))
<1>1. PICK k : k = [c EXCEPT !.out = was, !.keep = FALSE, !.enc = FALSE]
  OBVIOUS
<1>2. Alike(k, c)
  BY <1>1 DEF Closed, Typed, Alike, IsCon, ConFields
<1>3. Closed(k, q)
  BY <1>2, AlikeIs
<1> QED BY <1>1, <1>3, FinErrMsgOK DEF FinErrMem

-----------------------------------------------------------------------------
(* Ranges *)

(* What http_parse_range() may make of a connection, *)
Variants(c) ==
  [fs : Seq(Sect), num : Nat, sz : Nat, mpbr : BOOLEAN \cup {c.mpbr},
   fd : {c.fd}, off : {c.off}, ct : {c.ct}, total : {c.total}, mmap : {c.mmap},
   sendfile : {c.sendfile}, keep : {c.keep}, got : {c.got}, in : {c.in}, out : {c.out},
   pollin : {c.pollin}, queued : {c.queued}, sr : {c.sr}, shut : {c.shut}, policy : {c.policy},
   open : {c.open}, head : {c.head}, code : {c.code}, enc : {c.enc}, page : {c.page},
   cut : {c.cut}]

(* and where its loop may be: when it says 200 there are sections. *)
Ranging(c, q) ==
  {p \in [c : Variants(c), ret : {-1, 0, 200, 416}] :
     HasFile(p.c, q) /\ p.c.off = 0 /\ (p.ret = 200 => p.c.num > 0)}

LEMMA VariantIs ==
  ASSUME NEW c, NEW d \in Variants(c), NEW f \in Seq(Sect), NEW n \in Nat, NEW z \in Nat,
         NEW m \in BOOLEAN
  PROVE  [d EXCEPT !.fs = f, !.num = n, !.sz = z, !.mpbr = m] \in Variants(c)
BY DEF Variants

LEMMA VariantSelf ==
  ASSUME NEW c, NEW q, Typed(c, q)
  PROVE  c \in Variants(c)
<1>1. c.fs \in Seq(Sect) /\ c.num \in Nat /\ c.sz \in Nat
  BY DEF Typed
<1>2. c = [f \in ConFields |-> c[f]]
  BY DEF Typed, IsCon
<1> QED BY ONLY <1>1, <1>2 DEF Variants, ConFields

(* httpd__file_sect_add(): the arrays have room. *)
LEMMA SectAddOK ==
  ASSUME NEW c, NEW q, NEW p \in Ranging(c, q), Typed(c, q), NEW beg \in Int, NEW end \in Int,
         NEW more, NEW fault
  PROVE  SectAdd(p.c, beg, end, more, fault) \in Ranging(c, q)
<1>1. PICK b, n, s, z, f, m, v :
        /\ b = p.c /\ n = b.num /\ s = [off |-> beg, len |-> end - beg + 1]
        /\ f = (IF b.num = 0 THEN <<s>> ELSE Append(b.fs, s)) /\ m = (b.num > 0)
        /\ z = (IF ~(b.num > 0 /\ (b.sz = 1 \/ b.num >= b.sz)) THEN b.sz
                ELSE IF b.sz = 1 THEN FsSz ELSE 2 * b.sz + 1)
        /\ v = [b EXCEPT !.mpbr = m]
  OBVIOUS
<1>2. /\ b \in Variants(c) /\ HasFile(b, q) /\ b.off = 0 /\ Typed(b, q) /\ IsCon(b)
  BY <1>1 DEF Ranging, HasFile, Typed
<1>3. /\ n \in Nat /\ b.sz \in Nat /\ b.sz >= 1 /\ b.fs \in Seq(Sect) /\ Len(b.fs) \in Nat
      /\ Len(b.fs) >= 1 /\ (n > 0 => n = Len(b.fs) /\ n <= b.sz)
  BY <1>1, <1>2 DEF HasFile, Typed
<1>4. m \in BOOLEAN
  BY <1>1
<1>5. s \in Sect
  BY <1>1 DEF Sect
<1>6. f \in Seq(Sect) /\ Len(f) = n + 1
  <2>1. CASE n = 0
    BY <1>1, <1>5, <2>1
  <2>2. CASE n # 0
    <3>1. f = Append(b.fs, s) /\ n = Len(b.fs)
      BY <1>1, <1>3, <2>2
    <3> QED BY ONLY <1>3, <1>5, <3>1
  <2> QED BY <2>1, <2>2
<1>7. z \in Nat /\ z >= 1 /\ n + 1 <= z
  <2>1. FsSz \in Nat /\ FsSz >= 2
    BY HttpdAssumption
  <2>2. z = IF ~(n > 0 /\ (b.sz = 1 \/ n >= b.sz)) THEN b.sz
            ELSE IF b.sz = 1 THEN FsSz ELSE 2 * b.sz + 1
    BY <1>1
  <2> QED BY ONLY <1>3, <2>1, <2>2
<1>8. PICK x : x = [v EXCEPT !.sz = z, !.fs = f, !.num = @ + 1]
  OBVIOUS
<1>9. /\ v = [b EXCEPT !.fs = b.fs, !.num = n, !.sz = b.sz, !.mpbr = m]
      /\ x = [b EXCEPT !.fs = f, !.num = n + 1, !.sz = z, !.mpbr = m]
  <2>1. v = [b EXCEPT !.mpbr = m] /\ n = b.num
    BY <1>1
  <2>2. v = [b EXCEPT !.fs = b.fs, !.num = n, !.sz = b.sz, !.mpbr = m]
    BY ONLY <1>2, <2>1 DEF IsCon, ConFields
  <2>3. x = [b EXCEPT !.fs = f, !.num = n + 1, !.sz = z, !.mpbr = m]
    BY ONLY <1>2, <1>8, <2>1 DEF IsCon, ConFields
  <2> QED BY ONLY <2>2, <2>3
<1>10. v \in Variants(c) /\ x \in Variants(c)
  <2>1. n + 1 \in Nat
    BY <1>3
  <2> QED BY <1>2, <1>3, <1>4, <1>6, <1>7, <1>9, <2>1, VariantIs
<1>11. /\ IsCon(v) /\ v.in = b.in /\ v.fs = b.fs /\ v.fd = b.fd /\ v.off = b.off /\ v.num = n
       /\ v.sz = b.sz /\ v.open = b.open
       /\ IsCon(x) /\ x.in = b.in /\ x.fs = f /\ x.fd = b.fd /\ x.off = b.off /\ x.num = n + 1
       /\ x.sz = z /\ x.open = b.open
  <2>1. IsCon(b)
    BY <1>2
  <2>2. /\ IsCon(v) /\ v.in = b.in /\ v.fs = b.fs /\ v.fd = b.fd /\ v.off = b.off /\ v.num = n
        /\ v.sz = b.sz /\ v.open = b.open
    BY ONLY <1>9, <2>1 DEF IsCon, ConFields
  <2>3. /\ IsCon(x) /\ x.in = b.in /\ x.fs = f /\ x.fd = b.fd /\ x.off = b.off /\ x.num = n + 1
        /\ x.sz = z /\ x.open = b.open
    BY ONLY <1>9, <2>1 DEF IsCon, ConFields
  <2> QED BY ONLY <2>2, <2>3
<1>12. HasFile(v, q) /\ v.off = 0
  <2>1. HasFile(b, q) /\ b.off = 0 /\ n = b.num
    BY <1>1, <1>2
  <2> QED BY ONLY <1>11, <2>1 DEF HasFile, Typed
<1>13. HasFile(x, q) /\ x.off = 0 /\ x.num > 0
  <2>1. /\ x.num \in Nat /\ x.num > 0 /\ x.num = Len(x.fs) /\ x.off < x.num /\ x.num <= x.sz
        /\ x.sz \in Nat /\ x.sz >= 1 /\ Len(x.fs) >= 1 /\ x.off = 0 /\ x.off \in Nat
    BY ONLY <1>2, <1>3, <1>6, <1>7, <1>11
  <2>2. Typed(x, q)
    BY <1>2, <1>6, <1>11, <2>1 DEF Typed
  <2>3. x.fd \in Fds /\ \A g \in Fds : x.open[g].file # NoFile <=> g = x.fd
    BY <1>2, <1>11 DEF HasFile
  <2> QED BY <2>1, <2>2, <2>3 DEF HasFile
<1>14. PICK e : e = SectAdd(p.c, beg, end, more, fault)
  OBVIOUS
<1>15. \/ e = [c |-> v, ret |-> 0]
       \/ \E t \in {-1, 0, 200} : e = [c |-> x, ret |-> t]
  BY <1>1, <1>8, <1>14 DEF SectAdd
<1>16. CASE e = [c |-> v, ret |-> 0]
  BY <1>10, <1>12, <1>14, <1>16 DEF Ranging
<1>17. CASE \E t \in {-1, 0, 200} : e = [c |-> x, ret |-> t]
  BY <1>10, <1>13, <1>14, <1>17 DEF Ranging
<1> QED BY <1>15, <1>16, <1>17

RangeRec == [k : {"upto", "from", "last", "bad"}, n : Nat, end : Nat]

LEMMA Range1Is ==
  ASSUME NEW s \in RangeRec, NEW size \in Int
  PROVE  /\ Range1(s, size).ret \in {0, 200, 416}
         /\ Range1(s, size).beg \in Int /\ Range1(s, size).end \in Int
BY DEF Range1, RangeRec

LEMMA RangeTurnOK ==
  ASSUME NEW c, NEW q, NEW p \in Ranging(c, q), Typed(c, q), NEW one, one.ret \in {0, 200, 416},
         one.beg \in Int, one.end \in Int, NEW more, NEW fault
  PROVE  RangeTurn(p, one, more, fault) \in Ranging(c, q)
<1>1. CASE p.ret # -1
  BY <1>1 DEF RangeTurn
<1>2. CASE p.ret = -1 /\ one.ret = 200
  <2>1. RangeTurn(p, one, more, fault) = SectAdd(p.c, one.beg, one.end, more, fault)
    BY <1>2 DEF RangeTurn
  <2> QED BY <2>1, SectAddOK
<1>3. CASE p.ret = -1 /\ one.ret # 200
  <2>1. RangeTurn(p, one, more, fault) = [p EXCEPT !.ret = one.ret]
    BY <1>3 DEF RangeTurn
  <2>2. one.ret \in {0, 416}
    BY <1>3
  <2> QED BY <2>1, <2>2 DEF Ranging
<1> QED BY <1>1, <1>2, <1>3

(* http_parse_range(): a loop over the ranges. *)
LEMMA ParseRangeOK ==
  ASSUME NEW c, NEW q, HasFile(c, q), c.off = 0, NEW ranges, ranges # <<>>,
         ranges \in Seq(RangeRec),
         NEW size \in Int, NEW fault
  PROVE  ParseRange(c, ranges, size, fault) \in Ranging(c, q)
<1> DEFINE N == Len(ranges)
           t == [c |-> c, ret |-> -1]
           Turn(k, p) == RangeTurn(p, Range1(ranges[k], size), k < Len(ranges), fault)
           Q(f) == f = [k \in 0 .. N |-> IF k = 0 THEN t ELSE Turn(k, f[k - 1])]
           U == Ranging(c, q)
           S == [k \in 0 .. N |-> U]
           g == [x \in (1 .. N) \X U |-> Turn(x[1], x[2])]
           h == CHOOSE f : Q(f)
<1>1. N \in Nat /\ Typed(c, q)
  BY DEF HasFile
<1>2. t \in U
  <2>1. c \in Variants(c)
    BY <1>1, VariantSelf
  <2> QED BY <2>1 DEF Ranging
<1>3. ParseRange(c, ranges, size, fault) = h[N]
  BY DEF ParseRange
<1>5. ASSUME NEW k \in 1 .. N, NEW u \in U
      PROVE  Turn(k, u) \in U /\ g[<<k, u>>] = Turn(k, u)
  <2>1. ranges[k] \in RangeRec
    BY <1>1
  <2>2. PICK one : one = Range1(ranges[k], size)
    OBVIOUS
  <2>3. one.ret \in {0, 200, 416} /\ one.beg \in Int /\ one.end \in Int
    BY <2>1, <2>2, Range1Is
  <2>4. Turn(k, u) \in U
    BY <1>1, <2>2, <2>3, RangeTurnOK
  <2> HIDE DEF Turn, U
  <2> QED BY <2>4
<1> HIDE DEF N, t, Turn
<1>6. \A k \in 0 .. N : S[k] = U
  OBVIOUS
<1>7. \A k \in 1 .. N : k \in 0 .. N /\ k - 1 \in 0 .. N /\ k # 0
  BY <1>1
<1> HIDE DEF S, g, U
<1>8. PICK f : IsRec(f, N, t, g)
  BY ONLY <1>1, RecExists
<1>9. f = [k \in 0 .. N |-> IF k = 0 THEN t ELSE g[<<k, f[k - 1]>>]]
  BY ONLY <1>8 DEF IsRec
<1>10. \A k \in 0 .. N : f[k] \in S[k]
  <2>1. f[0] \in S[0]
    BY <1>1, <1>2, <1>6, <1>9
  <2>2. ASSUME NEW k \in 1 .. N, f[k - 1] \in S[k - 1] PROVE f[k] \in S[k]
    <3>1. f[k] = g[<<k, f[k - 1]>>]
      BY <1>7, <1>9
    <3> QED BY <1>5, <1>6, <1>7, <2>2, <3>1
  <2> QED BY <1>1, <2>1, <2>2, RecKeeps
<1>11. Q(f)
  <2>1. \A k \in 0 .. N : f[k] = IF k = 0 THEN t ELSE Turn(k, f[k - 1])
    <3> TAKE k \in 0 .. N
    <3>1. f[k] = IF k = 0 THEN t ELSE g[<<k, f[k - 1]>>]
      BY <1>9
    <3>2. k # 0 => k \in 1 .. N /\ k - 1 \in 0 .. N
      BY <1>1
    <3>3. k # 0 => f[k - 1] \in U
      BY <1>6, <1>10, <3>2
    <3> QED BY <1>5, <3>1, <3>2, <3>3
  <2>2. f = [k \in 0 .. N |-> f[k]]
    BY <1>9
  <2> QED BY <2>1, <2>2
<1>12. Q(h)
  <2> HIDE DEF Q
  <2> QED BY <1>11
<1> HIDE DEF h
<1>13. h[0] = t /\ \A k \in 1 .. N : h[k] = Turn(k, h[k - 1])
  BY <1>1, <1>12
<1>14. \A k \in 0 .. N : h[k] \in S[k]
  <2>1. h[0] \in S[0]
    BY <1>1, <1>2, <1>6, <1>13
  <2>2. ASSUME NEW k \in 1 .. N, h[k - 1] \in S[k - 1] PROVE h[k] \in S[k]
    <3>1. h[k - 1] \in U /\ S[k] = U
      BY <1>6, <1>7, <2>2
    <3>2. h[k] = Turn(k, h[k - 1])
      BY <1>13
    <3> QED BY <1>5, <3>1, <3>2
  <2> QED BY <1>1, <2>1, <2>2, RecKeeps
<1>15. N \in 0 .. N /\ h[N] \in U
  BY <1>1, <1>6, <1>14
<1> QED BY <1>3, <1>15 DEF U

-----------------------------------------------------------------------------
(* http_parse_req() *)

(* Where in the file reading begins does not matter. *)
LEMMA CallSeekOK ==
  ASSUME NEW c, NEW q, HasFile(c, q), NEW sect \in Sect
  PROVE  /\ HasFile(CallSeek(c, sect), q) /\ CallSeek(c, sect).num = c.num
         /\ CallSeek(c, sect).off = c.off /\ CallSeek(c, sect).fs = c.fs
<1>1. CASE CallSeek(c, sect) = c
  BY <1>1
<1>2. CASE CallSeek(c, sect) # c
  <2>1. PICK d, o : /\ d = CallSeek(c, sect) /\ o = [c.open EXCEPT ![c.fd].pos = sect.off]
    OBVIOUS
  <2>2. d = [c EXCEPT !.open[c.fd].pos = sect.off]
    BY <1>2, <2>1 DEF CallSeek
  <2>3. c.open \in [Fds -> Slot] /\ c.fd \in Fds /\ sect.off \in Int /\ IsCon(c)
    BY DEF HasFile, Typed, Sect
  <2>4. o \in [Fds -> Slot] /\ \A f \in Fds : o[f].file = c.open[f].file
    BY ONLY <2>1, <2>3 DEF Slot
  <2>5. d = [c EXCEPT !.open = o]
    BY <2>1, <2>2, <2>3 DEF IsCon, ConFields
  <2>6. /\ IsCon(d) /\ d.in = c.in /\ d.fs = c.fs /\ d.fd = c.fd /\ d.off = c.off
        /\ d.num = c.num /\ d.sz = c.sz /\ d.open = o
    BY <2>3, <2>5 DEF IsCon, ConFields
  <2>7. HasFile(d, q)
    BY <2>4, <2>6 DEF HasFile, Typed
  <2> QED BY <2>1, <2>6, <2>7
<1> QED BY <1>1, <1>2

(* httpd_serv_call_file_init() *)
LEMMA FileInitOK ==
  ASSUME NEW c, NEW q, Sending(c, q), NEW fault
  PROVE  Sending(FileInit(c, fault), q)
<1>1. PICK z, m, d : /\ z = [c EXCEPT !.mmap = FALSE] /\ m = CallMmap(z, fault)
                     /\ d = FileInit(c, fault)
  OBVIOUS
<1>2. HasFile(c, q) /\ IsCon(c) /\ c.num > 0
  BY DEF Sending, HasFile, Typed
<1>3. Alike(z, c)
  BY <1>1, <1>2, SetOther
<1>4. Alike(m, z)
  <2>1. IsCon(z)
    BY <1>3 DEF Alike
  <2> QED BY <1>1, <2>1, CallMmapAlike
<1>5. HasFile(z, q) /\ HasFile(m, q)
  BY <1>2, <1>3, <1>4, AlikeIs
<1>6. z.num = c.num /\ m.num = c.num
  BY <1>3, <1>4 DEF Alike
<1>7. m.fs[1] \in Sect
  <2>1. m.fs \in Seq(Sect) /\ Len(m.fs) >= 1
    BY <1>5 DEF HasFile, Typed
  <2>2. 1 \in 1 .. Len(m.fs)
    BY <2>1
  <2> QED BY <2>1, <2>2
<1>8. d = z \/ d = CallSeek(m, m.fs[1])
  BY <1>1 DEF FileInit
<1>9. HasFile(d, q) /\ d.num = c.num
  BY <1>5, <1>6, <1>7, <1>8, CallSeekOK
<1> QED BY <1>1, <1>2, <1>9 DEF Sending

LEMMA OpGetEndOK ==
  ASSUME NEW c, NEW q, Sending(c, q), q # <<>>, NEW r, NEW was, NEW fault
  PROVE  After(OpGetEnd(c, r, was, fault))
<1>1. HasFile(c, q) /\ IsCon(c)
  BY DEF Sending, HasFile, Typed
<1>2. After(FinErrMem(FinFdClose(c), r, was))
  BY <1>1, FinFdCloseOK, FinErrMemOK
<1>3. Alike(AddMapped(c), c)
  BY <1>1, AddMappedAlike
<1>4. Sending(AddMapped(c), q)
  BY <1>1, <1>3, AlikeIs DEF Sending, Alike
<1>5. After(FinFdReq(AddMapped(c)))
  BY <1>4, FinFdReqOK
<1> QED BY <1>2, <1>5 DEF OpGetEnd

LEMMA ReplyOK ==
  ASSUME NEW c, NEW q, Sending(c, q), q # <<>>, NEW r, NEW code, NEW ranged, NEW was, NEW fault
  PROVE  After(Reply(c, r, code, ranged, was, fault))
<1>1. PICK y, t, clen, beg, h, p, x, z :
        /\ y = FileInit(c, fault) /\ t = [y EXCEPT !.ct = IF c.mpbr THEN @ + 1 ELSE @]
        /\ clen = (IF c.mpbr THEN -1 ELSE c.fs[1].len)
        /\ beg = (IF ranged /\ ~c.mpbr THEN c.fs[1].off ELSE -1)
        /\ h = AddHead(t, r, code, clen, beg)
        /\ p = [h EXCEPT !.total = disk[FileOf(c)]]
        /\ x = Add(p, <<PartHead(c.fs[1], t.ct, disk[FileOf(c)])>>)
        /\ z = [h EXCEPT !.mpbr = FALSE]
  OBVIOUS
<1>2. Sending(y, q)
  BY <1>1, FileInitOK
<1>3. Sending(t, q) /\ IsCon(t)
  <2>1. IsCon(y)
    BY <1>2 DEF Sending, HasFile, Typed
  <2>2. /\ IsCon(t) /\ t.in = y.in /\ t.fs = y.fs /\ t.fd = y.fd /\ t.off = y.off
        /\ t.num = y.num /\ t.sz = y.sz /\ t.open = y.open
    BY <1>1, <2>1 DEF IsCon, ConFields
  <2> QED BY <1>2, <2>2 DEF Sending, HasFile, Typed
<1>4. Alike(h, t)
  BY <1>1, <1>3, AddHeadAlike
<1>5. Sending(h, q) /\ IsCon(h)
  BY <1>3, <1>4, AlikeIs DEF Sending, Alike
<1>6. Sending(x, q)
  <2>1. Alike(p, h)
    BY <1>1, <1>5, SetOther
  <2>2. IsCon(p)
    BY <2>1 DEF Alike
  <2>3. Alike(x, p)
    BY <1>1, <2>2, AddAlike
  <2>4. Alike(x, h)
    BY <2>1, <2>3, AlikeTwice
  <2> QED BY <1>5, <2>4, AlikeIs DEF Sending, Alike
<1>7. Sending(z, q)
  <2>1. /\ IsCon(z) /\ z.in = h.in /\ z.fs = h.fs /\ z.fd = h.fd /\ z.off = h.off
        /\ z.num = h.num /\ z.sz = h.sz /\ z.open = h.open
    BY <1>1, <1>5 DEF IsCon, ConFields
  <2> QED BY <1>5, <2>1 DEF Sending, HasFile, Typed
<1>8. PICK e : e = IF c.head THEN z ELSE IF ranged /\ c.mpbr THEN x ELSE h
  OBVIOUS
<1>9. Sending(e, q)
  BY <1>5, <1>6, <1>7, <1>8
<1>10. Reply(c, r, code, ranged, was, fault) = OpGetEnd(e, r, was, fault)
  BY <1>1, <1>8 DEF Reply
<1> QED BY <1>9, <1>10, OpGetEndOK

(* http_response_ok(): sections are found, or all of the file is one. *)
LEMMA ResponseOkOK ==
  ASSUME NEW c, NEW q, HasFile(c, q), c.off = 0, q # <<>>, NEW r, NEW parsed \in BOOLEAN,
         parsed => c.num > 0, NEW was, NEW fault, disk \in [DOMAIN Disk -> Int]
  PROVE  After(ResponseOk(c, r, parsed, was, fault))
<1> DEFINE new == IF r.ver = "1.1" THEN r.conds ELSE r.conds \cap {"ims=", "ims#"}
           ranged == parsed /\ "ir#" \notin new
           same == new \cap {"ims=", "inm="} # {}
           code == IF same THEN 304 ELSE IF ranged THEN 206 ELSE 200
           s == IF ranged THEN c ELSE SectsNone(c, disk[FileOf(c)])
           x == [s EXCEPT !.head = @ \/ same]
<1>1. ResponseOk(c, r, parsed, was, fault)
        = IF new \cap {"iums=", "im#"} # {} THEN FinErrClose(c, r, 412, fault)
          ELSE Reply(x, r, code, ranged, was, fault)
  BY DEF ResponseOk
<1>2. disk[FileOf(c)] \in Int
  BY FileOfIs
<1> HIDE DEF new
<1>3. Sending(s, q)
  <2>1. CASE ranged
    BY <2>1 DEF Sending
  <2>2. CASE ~ranged
    BY <1>2, <2>2, SectsNoneOK
  <2> QED BY <2>1, <2>2
<1> HIDE DEF same, ranged, code, s
<1>4. Alike(x, s)
  <2>1. IsCon(s)
    BY <1>3 DEF Sending, HasFile, Typed
  <2> QED BY <2>1 DEF Alike, IsCon, ConFields
<1> HIDE DEF x
<1>5. Sending(x, q)
  BY <1>3, <1>4, AlikeIs DEF Sending, Alike
<1>7. After(FinErrClose(c, r, 412, fault))
  BY FinErrCloseOK
<1>8. After(Reply(x, r, code, ranged, was, fault))
  BY <1>5, ReplyOK
<1> QED BY <1>1, <1>7, <1>8

LEMMA RangedOK ==
  ASSUME NEW p, NEW q, HasFile(p.c, q), p.c.off = 0, q # <<>>, p.ret = 200 => p.c.num > 0, NEW r,
         NEW was, NEW fault, disk \in [DOMAIN Disk -> Int]
  PROVE  After(Ranged(p, r, was, fault))
<1>1. After(FinErrClose(p.c, r, 416, fault))
  BY FinErrCloseOK
<1>2. PICK parsed : parsed = (p.ret = 200)
  OBVIOUS
<1>3. parsed \in BOOLEAN /\ (parsed => p.c.num > 0)
  BY <1>2
<1>4. After(ResponseOk(p.c, r, parsed, was, fault))
  BY <1>3, ResponseOkOK
<1> QED BY <1>1, <1>2, <1>4 DEF Ranged

(* http_req_1_x() *)
LEMMA Req1xOK ==
  ASSUME NEW c, NEW q, HasFile(c, q), c.num = 0, q # <<>>, NEW r \in Requests,
         r.hasr => r.ranges # <<>>, NEW was, NEW fault, disk \in [DOMAIN Disk -> Int]
  PROVE  After(Req1x(c, r, was, fault))
<1>1. CASE r.ver = "1.1" /\ r.expect
  <2>1. Req1x(c, r, was, fault) = FinErrClose(c, r, 417, fault)
    BY <1>1 DEF Req1x
  <2> QED BY <2>1, FinErrCloseOK
<1>2. CASE ~(r.ver = "1.1" /\ r.expect)
  <2>1. PICK x, p : /\ x = TryEncoding(c, r)
                    /\ p = IF r.hasr THEN ParseRange(x, r.ranges, disk[FileOf(x)], fault)
                           ELSE [c |-> x, ret |-> 0]
    OBVIOUS
  <2>2. Req1x(c, r, was, fault) = Ranged(p, r, was, fault)
    BY <1>2, <2>1 DEF Req1x
  <2>3. HasFile(x, q) /\ x.num = 0 /\ x.off = 0
    BY <2>1, TryEncodingOK DEF HasFile
  <2>4. HasFile(p.c, q) /\ p.c.off = 0 /\ (p.ret = 200 => p.c.num > 0)
    <3>1. CASE r.hasr
      <4>1. r.ranges \in Seq(RangeRec) /\ r.ranges # <<>>
        BY <3>1, AsksAssumption DEF Requests, RangeRec
      <4>2. disk[FileOf(x)] \in Int
        BY <2>3, FileOfIs
      <4>3. p \in Ranging(x, q)
        <5>1. p = ParseRange(x, r.ranges, disk[FileOf(x)], fault)
          BY <2>1, <3>1
        <5> QED BY ONLY <2>3, <4>1, <4>2, <5>1, ParseRangeOK
      <4> QED BY <4>3 DEF Ranging
    <3>2. CASE ~r.hasr
      <4>1. p = [c |-> x, ret |-> 0]
        BY <2>1, <3>2
      <4> QED BY <2>3, <4>1
    <3> QED BY <3>1, <3>2
  <2> QED BY <2>2, <2>4, RangedOK
<1> QED BY <1>1, <1>2

LEMMA OpenedOK ==
  ASSUME NEW c, NEW q, Closed(c, q), NEW r, r.doc \in DOMAIN Disk, disk \in [DOMAIN Disk -> Int]
  PROVE  HasFile(Opened(c, r), q) /\ Opened(c, r).num = 0
<1>1. PICK o, s, d : /\ o = OpenFile(c, r.doc) /\ s = <<[off |-> 0, len |-> disk[r.doc]]>>
                     /\ d = Opened(c, r)
  OBVIOUS
<1>2. HasFile(o, q) /\ o.num = 0
  BY <1>1, OpenFileOK
<1>3. s \in Seq(Sect) /\ Len(s) >= 1
  <2>1. [off |-> 0, len |-> disk[r.doc]] \in Sect
    BY DEF Sect
  <2>2. s \in Seq(Sect) /\ Len(s) = 1
    BY <1>1, <2>1
  <2> QED BY <2>2
<1>4. d = [o EXCEPT !.fs = s]
  BY <1>1 DEF Opened
<1>5. /\ IsCon(d) /\ d.in = o.in /\ d.fs = s /\ d.fd = o.fd /\ d.off = o.off
      /\ d.num = o.num /\ d.sz = o.sz /\ d.open = o.open
  BY <1>2, <1>4 DEF HasFile, Typed, IsCon, ConFields
<1>6. HasFile(d, q) /\ d.num = 0
  <2>1. Typed(d, q)
    BY <1>2, <1>3, <1>5 DEF HasFile, Typed
  <2> QED BY <1>2, <1>5, <2>1 DEF HasFile
<1> QED BY <1>1, <1>6

(* http_req_op_get() *)
LEMMA OpGetOK ==
  ASSUME NEW c, NEW q, Closed(c, q), q # <<>>, NEW r \in Requests, r.op \in {"GET", "HEAD"},
         r.hasr => r.ranges # <<>>, NEW was, NEW fault, disk \in [DOMAIN Disk -> Int]
  PROVE  After(OpGet(c, r, was, fault))
<1>1. r.doc \in DOMAIN Kind
  BY AsksAssumption DEF Requests
<1>2. /\ Kind[r.doc] \in {"reg", "none", "dir", "private"}
      /\ Kind[r.doc] # "none" => r.doc \in DOMAIN Disk
  BY <1>1, HttpdAssumption
<1>3. \A code : After(FinErr(c, r, code, fault))
  BY FinErrOK
<1>4. CASE fault \in {"fd", "fds"}
  <2>1. OpGet(c, r, was, fault) = FinErr(c, r, 500, fault)
    BY <1>4 DEF OpGet
  <2> QED BY <1>3, <2>1
<1>5. CASE fault \notin {"fd", "fds"} /\ Kind[r.doc] = "none"
  <2>1. OpGet(c, r, was, fault) = FinErr(c, r, 404, fault)
    BY <1>5 DEF OpGet
  <2> QED BY <1>3, <2>1
<1>6. CASE /\ fault \notin {"fd", "fds"} /\ Kind[r.doc] # "none"
           /\ fault = "stat" \/ Kind[r.doc] \in {"private", "dir"}
  <2>1. PICK code : OpGet(c, r, was, fault) = FinErrClose(OpenFile(c, r.doc), r, code, fault)
    <3>1. CASE fault = "stat"
      BY <1>6, <3>1 DEF OpGet
    <3>2. CASE fault # "stat" /\ Kind[r.doc] = "private"
      BY <1>6, <3>2 DEF OpGet
    <3>3. CASE fault # "stat" /\ Kind[r.doc] = "dir"
      BY <1>6, <3>3 DEF OpGet
    <3> QED BY <1>6, <3>1, <3>2, <3>3
  <2>2. HasFile(OpenFile(c, r.doc), q)
    BY <1>2, <1>6, OpenFileOK
  <2> QED BY <2>1, <2>2, FinErrCloseOK
<1>7. CASE fault \notin {"fd", "fds", "stat"} /\ Kind[r.doc] = "reg"
  <2>1. PICK o, s, i : o = Opened(c, r) /\ s = SectsNone(o, disk[r.doc]) /\ i = FileInit(s, fault)
    OBVIOUS
  <2>2. OpGet(c, r, was, fault) = IF r.ver = "0.9" THEN OpGetEnd(i, r, was, fault)
                                  ELSE Req1x(o, r, was, fault)
    BY <1>7, <2>1 DEF OpGet
  <2>3. HasFile(o, q) /\ o.num = 0
    BY <1>2, <1>7, <2>1, OpenedOK
  <2>4. o.off = 0 /\ disk[r.doc] \in Int
    BY <1>2, <1>7, <2>3 DEF HasFile
  <2>5. Sending(i, q)
    BY <2>1, <2>3, <2>4, SectsNoneOK, FileInitOK
  <2>6. After(OpGetEnd(i, r, was, fault))
    BY <2>5, OpGetEndOK
  <2>7. After(Req1x(o, r, was, fault))
    BY <2>3, Req1xOK
  <2> QED BY <2>2, <2>6, <2>7
<1> QED BY <1>2, <1>4, <1>5, <1>6, <1>7

LEMMA OpSimpleOK ==
  ASSUME NEW c, NEW q, Closed(c, q), q # <<>>, NEW r, NEW was, NEW clen, NEW body, NEW fault
  PROVE  After(OpSimple(c, r, was, clen, body, fault))
<1>1. PICK h, t : h = AddHead(c, r, 200, clen, -1) /\ t = Add(h, body)
  OBVIOUS
<1>2. Alike(h, c)
  BY <1>1, AddHeadAlike DEF Closed, Typed
<1>3. Alike(t, h)
  <2>1. IsCon(h)
    BY <1>2 DEF Alike
  <2> QED BY <1>1, <2>1, AddAlike
<1>4. Closed(t, q)
  BY <1>2, <1>3, AlikeTwice, AlikeIs
<1>5. After(FinErrMem(c, r, was)) /\ After(FinReq(t))
  BY <1>4, FinErrMemOK, FinReqOK
<1>6. OpSimple(c, r, was, clen, body, fault) = IF fault = "mem" THEN FinErrMem(c, r, was)
                                               ELSE FinReq(t)
  BY <1>1 DEF OpSimple
<1> QED BY <1>5, <1>6

(* Whatever is asked, and whatever fails. *)
LEMMA AnsweredOK ==
  ASSUME NEW c, NEW q, Closed(c, q), q # <<>>, NEW r \in Requests,
         r.hasr => r.ranges # <<>>, NEW fault, disk \in [DOMAIN Disk -> Int]
  PROVE  After(Answered(c, r, fault))
<1>1. PICK g, k : /\ g = [c EXCEPT !.got = @ + 1, !.code = 200]
                  /\ k = [g EXCEPT !.keep = KeepAlive(g, r)]
  OBVIOUS
<1>2. Alike(g, c)
  <2>1. IsCon(c)
    BY DEF Closed, Typed
  <2>2. PICK n : n = c.got + 1
    OBVIOUS
  <2>3. PICK h : h = [c EXCEPT !.got = n]
    OBVIOUS
  <2>4. g = [h EXCEPT !.code = 200]
    BY ONLY <1>1, <2>2, <2>3
  <2>5. Alike(h, c)
    BY ONLY <2>1, <2>3, SetOther
  <2>6. Alike(g, h)
    <3>1. IsCon(h)
      BY ONLY <2>5 DEF Alike
    <3> QED BY ONLY <2>4, <3>1, SetOther
  <2> QED BY ONLY <2>5, <2>6, AlikeTwice
<1>3. Alike(k, g)
  <2>1. IsCon(g)
    BY <1>2 DEF Alike
  <2>2. PICK b : b = KeepAlive(g, r)
    OBVIOUS
  <2>3. k = [g EXCEPT !.keep = b]
    BY ONLY <1>1, <2>2
  <2> QED BY ONLY <2>1, <2>3, SetOther
<1>4. Closed(k, q)
  BY <1>2, <1>3, AlikeTwice, AlikeIs
<1>5. r.op \in {"GET", "HEAD", "OPTIONS", "TRACE", "POST", "BAD"}
  BY AsksAssumption DEF Requests
<1>6. CASE r.op = "BAD"
  <2>1. Answered(c, r, fault) = FinErr(c, r, 400, fault)
    BY <1>6 DEF Answered
  <2> QED BY <2>1, FinErrOK
<1>7. CASE r.op \in {"GET", "HEAD"}
  <2>1. Answered(c, r, fault) = OpGet(k, r, c.out, fault)
    BY <1>1, <1>7 DEF Answered
  <2> QED BY <1>4, <1>7, <2>1, OpGetOK
<1>8. CASE r.op = "OPTIONS"
  <2>1. Answered(c, r, fault) = OpSimple(k, r, c.out, 0, <<>>, fault)
    BY <1>1, <1>8 DEF Answered
  <2> QED BY <1>4, <2>1, OpSimpleOK
<1>9. CASE r.op = "TRACE"
  <2>1. Answered(c, r, fault) = OpSimple(k, r, c.out, 1, <<Echo(r)>>, fault)
    BY <1>1, <1>9 DEF Answered
  <2> QED BY <1>4, <2>1, OpSimpleOK
<1>10. CASE r.op = "POST"
  <2>1. Answered(c, r, fault) = FinErr(k, r, 405, fault)
    BY <1>1, <1>10 DEF Answered
  <2> QED BY <1>4, <2>1, FinErrOK
<1> QED BY <1>5, <1>6, <1>7, <1>8, <1>9, <1>10

-----------------------------------------------------------------------------
(* The invariant.  A connection that has something to send waits for its   *)
(* turn or for the peer also while a request is parsed: otherwise it could *)
(* go back to the event loop without POLLIN and wait for nothing.          *)

Conn(c) == Closed(c, c.in) \/ Sending(c, c.in)

InvOf(c, p, d) ==
  /\ Conn(c) /\ d \in [DOMAIN Disk -> Int]
  /\ c.num > 0 => p \in {"idle", "send"}
  /\ p \in {"idle", "parse"} /\ (c.num > 0 \/ c.out # <<>>) => c.queued \/ c.sr
  /\ p = "idle" => c.pollin \/ c.queued \/ c.sr

HttpdIInv == InvOf(con, pc, disk)

LEMMA ConnIs ==
  ASSUME NEW c
  PROVE  /\ Conn(c) <=> After(c)
         /\ \A q : Closed(c, q) \/ Sending(c, q) => Conn(c)
         /\ Conn(c) => IsCon(c) /\ c.num \in Nat /\ c.in \in Seq(Requests)
         /\ Conn(c) /\ c.num = 0 => Closed(c, c.in)
         /\ Conn(c) /\ c.num > 0 => Sending(c, c.in) /\ HasFile(c, c.in)
<1>1. \A q : Closed(c, q) \/ Sending(c, q) => c.in = q /\ q \in Seq(Requests)
  BY DEF Closed, Sending, HasFile, Typed
<1>2. Conn(c) => IsCon(c) /\ c.num \in Nat /\ c.in \in Seq(Requests)
  BY DEF Conn, Closed, Sending, HasFile, Typed
<1>3. Closed(c, c.in) => c.num = 0
  BY DEF Closed
<1>4. Sending(c, c.in) => c.num > 0 /\ HasFile(c, c.in)
  BY DEF Sending
<1> QED BY <1>1, <1>2, <1>3, <1>4 DEF Conn, After

LEMMA AlikeConn ==
  ASSUME NEW c, NEW d, Conn(c), Alike(d, c)
  PROVE  Conn(d) /\ d.num = c.num
<1>1. d.in = c.in /\ d.num = c.num
  BY DEF Alike
<1> QED BY <1>1, AlikeIs DEF Conn, Sending

(* In the middle of sending only the file matters. *)
LEMMA InSend ==
  ASSUME NEW c, NEW d, Conn(c), d \in [DOMAIN Disk -> Int]
  PROVE  InvOf(c, "send", d) /\ (c.num = 0 => InvOf(c, "closed", d) /\ InvOf(c, "done", d))
<1>1. c.num \in Nat
  BY ConnIs
<1> QED BY <1>1 DEF InvOf

LEMMA ConInitOK ==
  ASSUME NEW p
  PROVE  InvOf(ConInit(p), "idle", Disk)
<1>1. PICK c, s : c = ConInit(p) /\ s = <<[off |-> 0, len |-> 0]>>
  OBVIOUS
<1>2. s \in Seq(Sect) /\ Len(s) = 1 /\ Len(s) >= 1 /\ s[1].len = 0
  <2>1. [off |-> 0, len |-> 0] \in Sect
    BY DEF Sect
  <2> QED BY <1>1, <2>1
<1>3. /\ c.in = <<>> /\ c.fs = s /\ c.fd = NoFd /\ c.off = 0 /\ c.num = 0 /\ c.sz = 1
      /\ c.mpbr = FALSE /\ c.ct = 0 /\ c.open = [f \in Fds |-> Shut1] /\ c.pollin = TRUE
      /\ c.out = <<>>
  BY <1>1 DEF ConInit
<1>4. IsCon(c)
  BY <1>1 DEF ConInit, IsCon, ConFields
<1>5. c.open \in [Fds -> Slot] /\ \A f \in Fds : c.open[f].file = NoFile
  BY <1>3 DEF Shut1, Slot
<1>6. <<>> \in Seq(Requests) /\ NoFd \in Nat
  BY DEF NoFd
<1>7. Closed(c, c.in)
  <2>1. c.sz \in Nat /\ c.sz >= 1 /\ c.off \in Nat /\ c.num \in Nat
    BY ONLY <1>3
  <2>2. c.fs \in Seq(Sect) /\ Len(c.fs) = 1 /\ Len(c.fs) >= 1 /\ c.fs[1].len = 0
    BY ONLY <1>2, <1>3
  <2>3. c.in \in Seq(Requests) /\ c.fd \in Nat
    BY ONLY <1>3, <1>6
  <2> QED BY ONLY <1>3, <1>4, <1>5, <2>1, <2>2, <2>3 DEF Closed, Typed
<1>8. Disk \in [DOMAIN Disk -> Int]
  BY HttpdAssumption
<1> QED BY <1>1, <1>3, <1>7, <1>8 DEF InvOf, Conn

LEMMA InitInv ==
  HttpdInit => HttpdIInv
BY ConInitOK DEF HttpdInit, HttpdIInv

(* serv_cb_func_free() *)
LEMMA FreeInv ==
  ASSUME HttpdIInv, HttpFree
  PROVE  HttpdIInv'
<1>1. PICK d, c : c = FinFdClose(con) /\ d = Freed(con)
  OBVIOUS
<1>2. Closed(c, con.in)
  BY <1>1, FinFdCloseOK DEF HttpdIInv, InvOf, Conn, Sending
<1>3. IsCon(c)
  BY <1>2 DEF Closed, Typed
<1>4. d = [c EXCEPT !.out = <<>>, !.in = <<>>, !.pollin = FALSE, !.queued = FALSE, !.sr = FALSE]
  BY <1>1 DEF Freed
<1>5. /\ IsCon(d) /\ d.in = <<>> /\ d.fs = c.fs /\ d.fd = c.fd /\ d.off = c.off
      /\ d.num = c.num /\ d.sz = c.sz /\ d.mpbr = c.mpbr /\ d.ct = c.ct /\ d.open = c.open
  BY <1>3, <1>4 DEF IsCon, ConFields
<1>6. Closed(d, d.in) /\ d.num = 0
  <2>1. <<>> \in Seq(Requests)
    OBVIOUS
  <2>2. Closed(d, <<>>)
    BY <1>2, <1>5, <2>1, SetIn
  <2> QED BY <1>5, <2>2 DEF Closed
<1>7. InvOf(d, "closed", disk)
  BY <1>6, InSend DEF Conn, HttpdIInv, InvOf
<1> QED BY <1>1, <1>7 DEF HttpFree, HttpdIInv

(* httpd_serv_recv() *)
LEMMA RecvInv ==
  ASSUME HttpdIInv, NEW rs \in Seq(Requests), HttpRecv(rs)
  PROVE  HttpdIInv'
<1>1. PICK d : d = con'
  OBVIOUS
<1>2. Conn(con) /\ IsCon(con) /\ con.in \in Seq(Requests) /\ con.num \in Nat
  BY ConnIs DEF HttpdIInv, InvOf
<1>3. d = [con EXCEPT !.in = con.in \o rs, !.pollin = con.num = 0 \/ Len(con.in \o rs) <= MaxIn]
  BY <1>1, <1>2 DEF HttpRecv, IsCon, ConFields
<1>4. /\ IsCon(d) /\ d.in = con.in \o rs /\ d.fs = con.fs /\ d.fd = con.fd /\ d.off = con.off
      /\ d.num = con.num /\ d.sz = con.sz /\ d.mpbr = con.mpbr /\ d.ct = con.ct
      /\ d.open = con.open /\ d.out = con.out /\ d.queued = con.queued /\ d.sr = con.sr
  BY <1>2, <1>3 DEF IsCon, ConFields
<1>5. d.in \in Seq(Requests)
  BY <1>2, <1>4
<1>6. Conn(d)
  BY <1>2, <1>4, <1>5, SetIn DEF Conn, Sending
<1>7. pc = "idle" /\ disk' = disk /\ pc' = IF con.num > 0 THEN "idle" ELSE "parse"
  BY DEF HttpRecv
<1> QED BY <1>1, <1>2, <1>4, <1>6, <1>7 DEF HttpdIInv, InvOf

LEMMA RecvEofInv ==
  ASSUME HttpdIInv, HttpRecvEof
  PROVE  HttpdIInv'
<1>1. PICK d : d = con'
  OBVIOUS
<1>2. Conn(con) /\ IsCon(con) /\ con.num \in Nat
  BY ConnIs DEF HttpdIInv, InvOf
<1>3. d = [con EXCEPT !.shut = TRUE, !.pollin = FALSE]
  BY <1>1 DEF HttpRecvEof
<1>4. Alike(d, con) /\ d.num = con.num /\ d.out = con.out /\ d.queued = con.queued /\ d.sr = con.sr
  BY <1>2, <1>3 DEF Alike, IsCon, ConFields
<1>5. Conn(d)
  BY <1>2, <1>4, AlikeConn
<1>6. pc = "idle" /\ disk' = disk /\ pc' = IF con.num > 0 THEN "idle" ELSE "parse"
  BY DEF HttpRecvEof
<1> QED BY <1>1, <1>2, <1>4, <1>5, <1>6 DEF HttpdIInv, InvOf

LEMMA SendCbInv ==
  ASSUME HttpdIInv, HttpSendCb
  PROVE  HttpdIInv'
<1>1. PICK b \in BOOLEAN : con' = [con EXCEPT !.queued = IF b THEN FALSE ELSE @]
  BY DEF HttpSendCb
<1>2. Conn(con) /\ IsCon(con)
  BY ConnIs DEF HttpdIInv, InvOf
<1>3. Alike(con', con)
  BY <1>1, <1>2 DEF Alike, IsCon, ConFields
<1>4. Conn(con')
  BY <1>2, <1>3, AlikeConn
<1>5. pc' = "send" /\ disk' = disk /\ disk \in [DOMAIN Disk -> Int]
  BY DEF HttpSendCb, HttpdIInv, InvOf
<1> QED BY <1>4, <1>5, InSend DEF HttpdIInv

(* http_parse_wait_io_r() *)
LEMMA WaitInv ==
  ASSUME HttpdIInv, HttpWait
  PROVE  HttpdIInv'
<1>1. CASE con.shut /\ con.out = <<>>
  BY <1>1, FreeInv DEF HttpWait
<1>2. CASE ~(con.shut /\ con.out = <<>>)
  <2>1. /\ con' = [con EXCEPT !.pollin = @ \/ ~con.shut] /\ pc' = "idle" /\ disk' = disk
        /\ pc = "parse"
    BY <1>2 DEF HttpWait
  <2>2. Conn(con) /\ IsCon(con) /\ con.num \in Nat
    BY ConnIs DEF HttpdIInv, InvOf
  <2>3. PICK d : d = con'
    OBVIOUS
  <2>4. /\ Alike(d, con) /\ d.out = con.out /\ d.queued = con.queued /\ d.sr = con.sr
        /\ d.pollin = (con.pollin \/ ~con.shut)
    BY <2>1, <2>2, <2>3 DEF Alike, IsCon, ConFields
  <2>5. Conn(d) /\ d.num = con.num
    BY <2>2, <2>4, AlikeConn
  <2>6. con.num = 0
    BY <2>1, <2>2 DEF HttpdIInv, InvOf
  <2>7. con.out # <<>> => con.queued \/ con.sr
    BY <2>1 DEF HttpdIInv, InvOf
  <2>8. con.shut => con.out # <<>>
    BY <1>2
  <2>9. d.pollin \/ d.queued \/ d.sr
    <3>1. CASE con.shut
      BY ONLY <2>4, <2>7, <2>8, <3>1
    <3>2. CASE ~con.shut
      <4>1. d.pollin = TRUE
        BY ONLY <2>4, <3>2
      <4> QED BY <4>1
    <3> QED BY <3>1, <3>2
  <2>10. d.num > 0 \/ d.out # <<>> => d.queued \/ d.sr
    BY ONLY <2>4, <2>5, <2>6, <2>7
  <2>11. InvOf(d, "idle", disk)
    BY <2>5, <2>9, <2>10 DEF InvOf, HttpdIInv
  <2> QED BY <2>1, <2>3, <2>11 DEF HttpdIInv
<1> QED BY <1>1, <1>2

(* A list of ranges is not empty. *)
RangesGiven == AnyAsk => \A r \in Asks \cup Nexts : r.hasr => r.ranges # <<>>

(* http_parse_req() *)
LEMMA ParseInv ==
  ASSUME RangesGiven, HttpdIInv, NEW fault, HttpParse(fault)
  PROVE  HttpdIInv'
<1>1. PICK r, b : /\ r = Head(con.in)
                  /\ b = [con EXCEPT !.keep = FALSE, !.head = r.op = "HEAD", !.enc = FALSE,
                                     !.page = FALSE]
  OBVIOUS
<1>2. Conn(con) /\ IsCon(con) /\ con.in \in Seq(Requests) /\ con.in # <<>> /\ con.num \in Nat
  BY ConnIs DEF HttpdIInv, InvOf, HttpParse
<1>3. con.num = 0
  <2>1. pc = "parse"
    BY DEF HttpParse
  <2> QED BY <1>2, <2>1 DEF HttpdIInv, InvOf
<1>4. Closed(con, con.in)
  BY <1>2, <1>3, ConnIs
<1>5. Alike(b, con)
  BY <1>1, <1>2 DEF Alike, IsCon, ConFields
<1>6. Closed(b, con.in)
  BY <1>4, <1>5, AlikeIs
<1>7. r \in Requests
  BY <1>1, <1>2
<1>8. PlainAsk(r, fault) /\ con' = Answered(b, r, fault) /\ pc' = "send" /\ disk' = disk
  BY <1>1 DEF HttpParse
<1>9. r.hasr => r.ranges # <<>>
  BY <1>7, <1>8 DEF PlainAsk, RangesGiven, Requests
<1>10. disk \in [DOMAIN Disk -> Int]
  BY DEF HttpdIInv, InvOf
<1>11. After(Answered(b, r, fault))
  BY <1>2, <1>6, <1>7, <1>9, <1>10, AnsweredOK
<1>12. Conn(con')
  BY <1>8, <1>11, ConnIs
<1> QED BY <1>8, <1>10, <1>12, InSend DEF HttpdIInv

LEMMA SentFinAlike ==
  ASSUME NEW c, IsCon(c)
  PROVE  Alike(SentFin(c), c)
BY DEF SentFin, Alike, IsCon, ConFields

LEMMA OutInv ==
  ASSUME HttpdIInv, NEW k, HttpOut(k)
  PROVE  HttpdIInv'
<1>1. PICK b : b = [con EXCEPT !.out = SubSeq(@, k + 1, Len(@))]
  OBVIOUS
<1>2. Conn(con) /\ IsCon(con) /\ disk \in [DOMAIN Disk -> Int]
  BY ConnIs DEF HttpdIInv, InvOf
<1>3. Alike(b, con)
  BY <1>1, <1>2 DEF Alike, IsCon, ConFields
<1>4. IsCon(b)
  BY <1>3 DEF Alike
<1>5. con' = SentFin(b) /\ pc' = "send" /\ disk' = disk
  BY <1>1 DEF HttpOut
<1>6. Alike(con', con)
  BY <1>3, <1>4, <1>5, SentFinAlike, AlikeTwice
<1>7. Conn(con')
  BY <1>2, <1>6, AlikeConn
<1> QED BY <1>2, <1>5, <1>7, InSend DEF HttpdIInv

LEMMA QueueInv ==
  ASSUME HttpdIInv, NEW k, HttpQueue(k)
  PROVE  HttpdIInv'
<1>1. PICK d : d = con'
  OBVIOUS
<1>2. Conn(con) /\ IsCon(con) /\ disk \in [DOMAIN Disk -> Int]
  BY ConnIs DEF HttpdIInv, InvOf
<1>3. /\ d = [con EXCEPT !.out = SubSeq(@, k + 1, Len(@)), !.queued = TRUE]
      /\ pc' = "idle" /\ disk' = disk
  BY <1>1 DEF HttpQueue
<1>4. Alike(d, con) /\ d.queued = TRUE
  BY <1>2, <1>3 DEF Alike, IsCon, ConFields
<1>5. Conn(d)
  BY <1>2, <1>4, AlikeConn
<1>6. InvOf(d, "idle", disk)
  BY <1>2, <1>4, <1>5 DEF InvOf
<1> QED BY <1>1, <1>3, <1>6 DEF HttpdIInv

(* httpd__serv_fin_send() *)
LEMMA FinSendInv ==
  ASSUME HttpdIInv, HttpFinSend
  PROVE  HttpdIInv'
<1>1. /\ Conn(con) /\ IsCon(con) /\ disk \in [DOMAIN Disk -> Int]
      /\ con.num = 0 /\ con.out = <<>>
  BY ConnIs DEF HttpdIInv, InvOf, HttpFinSend
<1>2. CASE con.keep
  <2>1. PICK d : d = con'
    OBVIOUS
  <2>2. d = [con EXCEPT !.pollin = @ \/ ~con.shut] /\ pc' = "parse" /\ disk' = disk
    BY <1>2, <2>1 DEF HttpFinSend
  <2>3. Alike(d, con) /\ d.out = con.out
    BY <1>1, <2>2 DEF Alike, IsCon, ConFields
  <2>4. Conn(d) /\ d.num = 0
    BY <1>1, <2>3, AlikeConn
  <2>5. InvOf(d, "parse", disk)
    BY <1>1, <2>3, <2>4 DEF InvOf
  <2> QED BY <2>1, <2>2, <2>5 DEF HttpdIInv
<1>3. CASE ~con.keep /\ con.shut
  <2>1. HttpFree
    BY <1>3 DEF HttpFinSend
  <2> QED BY <2>1, FreeInv
<1>4. CASE ~con.keep /\ ~con.shut
  <2>1. pc' = "done" /\ con' = con /\ disk' = disk
    BY <1>4 DEF HttpFinSend
  <2>2. InvOf(con, "done", disk)
    BY <1>1, InSend
  <2> QED BY <2>1, <2>2 DEF HttpdIInv
<1> QED BY <1>2, <1>3, <1>4

-----------------------------------------------------------------------------
(* Sending a file *)

(* Its sections and its place change, and what is not about the file. *)
LEMMA StillSending ==
  ASSUME NEW c, NEW q, Sending(c, q), NEW d, IsCon(d), d.in = c.in, d.fd = c.fd, d.off = c.off,
         d.num = c.num, d.sz = c.sz, d.fs \in Seq(Sect), Len(d.fs) = Len(c.fs),
         d.open \in [Fds -> Slot], \A f \in Fds : d.open[f].file = c.open[f].file
  PROVE  Sending(d, q)
BY DEF Sending, HasFile, Typed

(* What is known while it is being sent. *)
LEMMA InFileIs ==
  ASSUME HttpdIInv, InFile
  PROVE  /\ Sending(con, con.in) /\ HasFile(con, con.in) /\ IsCon(con) /\ Conn(con)
         /\ disk \in [DOMAIN Disk -> Int] /\ pc = "send" /\ con.num > 0 /\ con.num \in Nat
         /\ con.off \in Nat /\ con.off + 1 \in 1 .. Len(con.fs) /\ con.fs \in Seq(Sect)
         /\ Cur(con) \in Sect /\ con.open \in [Fds -> Slot] /\ con.fd \in Fds
<1>1. /\ Sending(con, con.in) /\ HasFile(con, con.in) /\ IsCon(con) /\ Conn(con)
      /\ disk \in [DOMAIN Disk -> Int] /\ pc = "send" /\ con.num > 0 /\ con.num \in Nat
  BY ConnIs DEF HttpdIInv, InvOf, InFile
<1>2. /\ con.off \in Nat /\ con.fs \in Seq(Sect) /\ con.open \in [Fds -> Slot] /\ con.fd \in Fds
      /\ con.off < con.num /\ con.num = Len(con.fs)
  BY <1>1 DEF HasFile, Typed
<1>3. con.off + 1 \in 1 .. Len(con.fs)
  BY ONLY <1>1, <1>2
<1>4. Cur(con) \in Sect
  BY <1>2, <1>3 DEF Cur
<1> QED BY <1>1, <1>2, <1>3, <1>4

LEMMA SendFileInv ==
  ASSUME HttpdIInv, NEW k \in Int, HttpSendFile(k)
  PROVE  HttpdIInv'
<1>1. InFile
  BY DEF HttpSendFile
<1>2. PICK i, s, x, d : /\ i = con.off + 1
                        /\ s = [con.fs EXCEPT ![i].len = @ - k]
                        /\ x = [s EXCEPT ![i].off = @ + k] /\ d = con'
  OBVIOUS
<1>3. /\ Sending(con, con.in) /\ IsCon(con) /\ con.fs \in Seq(Sect) /\ i \in 1 .. Len(con.fs)
      /\ con.open \in [Fds -> Slot] /\ disk \in [DOMAIN Disk -> Int]
  BY <1>1, <1>2, InFileIs
<1>4. s \in Seq(Sect) /\ Len(s) = Len(con.fs)
  <2>1. con.fs[i] \in Sect
    BY <1>3
  <2>2. PICK e : e = [con.fs[i] EXCEPT !.len = @ - k]
    OBVIOUS
  <2>3. e \in Sect
    BY <2>1, <2>2 DEF Sect
  <2>4. s = [con.fs EXCEPT ![i] = e]
    BY <1>2, <2>2
  <2> QED BY ONLY <1>3, <2>3, <2>4
<1>5. x \in Seq(Sect) /\ Len(x) = Len(con.fs)
  <2>1. s[i] \in Sect
    BY <1>3, <1>4
  <2>2. PICK e : e = [s[i] EXCEPT !.off = @ + k]
    OBVIOUS
  <2>3. e \in Sect
    BY <2>1, <2>2 DEF Sect
  <2>4. x = [s EXCEPT ![i] = e]
    BY <1>2, <2>2
  <2> QED BY ONLY <1>3, <1>4, <2>3, <2>4
<1>6. d = [con EXCEPT !.fs = x]
  <2>1. d = [Left(con, k) EXCEPT !.fs[con.off + 1].off = @ + k]
    BY <1>2 DEF HttpSendFile
  <2>2. Left(con, k) = [con EXCEPT !.fs = s]
    BY <1>2, <1>3 DEF Left, IsCon, ConFields
  <2>3. PICK l : l = [con EXCEPT !.fs = s]
    OBVIOUS
  <2>4. IsCon(con) /\ i = con.off + 1 /\ x = [s EXCEPT ![i].off = @ + k]
    BY <1>2, <1>3
  <2>5. l.fs = s /\ l = [con EXCEPT !.fs = l.fs]
    BY ONLY <2>3, <2>4 DEF IsCon, ConFields
  <2>6. [l EXCEPT !.fs[i].off = @ + k] = [l EXCEPT !.fs = [l.fs EXCEPT ![i].off = @ + k]]
    OBVIOUS
  <2>7. d = [l EXCEPT !.fs = x]
    BY ONLY <2>1, <2>2, <2>3, <2>4, <2>5, <2>6
  <2> QED BY ONLY <2>3, <2>4, <2>7 DEF IsCon, ConFields
<1>7. /\ IsCon(d) /\ d.in = con.in /\ d.fd = con.fd /\ d.off = con.off /\ d.num = con.num
      /\ d.sz = con.sz /\ d.fs = x /\ d.open = con.open
  BY <1>3, <1>6 DEF IsCon, ConFields
<1>8. Sending(d, con.in)
  BY <1>3, <1>5, <1>7, StillSending
<1>9. pc' = "send" /\ disk' = disk
  BY DEF HttpSendFile, InFile
<1> QED BY <1>2, <1>3, <1>8, <1>9, ConnIs, InSend DEF HttpdIInv

LEMMA SendFileErrInv ==
  ASSUME HttpdIInv, HttpSendFileErr
  PROVE  HttpdIInv'
<1>1. InFile
  BY DEF HttpSendFileErr
<1>2. PICK o, d : o = [con.open EXCEPT ![con.fd].pos = Cur(con).off] /\ d = con'
  OBVIOUS
<1>3. /\ Sending(con, con.in) /\ IsCon(con) /\ con.fs \in Seq(Sect) /\ Cur(con) \in Sect
      /\ con.open \in [Fds -> Slot] /\ con.fd \in Fds /\ disk \in [DOMAIN Disk -> Int]
  BY <1>1, InFileIs
<1>4. o \in [Fds -> Slot] /\ \A f \in Fds : o[f].file = con.open[f].file
  <2>1. Cur(con).off \in Int
    BY <1>3 DEF Sect
  <2> QED BY ONLY <1>2, <1>3, <2>1 DEF Slot
<1>5. d = [con EXCEPT !.open = o, !.sendfile = FALSE]
  BY <1>2, <1>3 DEF HttpSendFileErr, IsCon, ConFields
<1>6. /\ IsCon(d) /\ d.in = con.in /\ d.fd = con.fd /\ d.off = con.off /\ d.num = con.num
      /\ d.sz = con.sz /\ d.fs = con.fs /\ d.open = o
  BY <1>3, <1>5 DEF IsCon, ConFields
<1>7. Sending(d, con.in)
  BY <1>3, <1>4, <1>6, StillSending
<1>8. pc' = "send" /\ disk' = disk
  BY DEF HttpSendFileErr, InFile
<1> QED BY <1>2, <1>3, <1>7, <1>8, ConnIs, InSend DEF HttpdIInv

LEMMA ReadInv ==
  ASSUME HttpdIInv, NEW k \in Int, NEW j, HttpRead(k, j)
  PROVE  HttpdIInv'
<1>1. InFile
  BY DEF HttpRead
<1>2. PICK i, n, s, o, v, g, d :
        /\ i = con.off + 1 /\ n = (IF k < Cur(con).len THEN k ELSE Cur(con).len)
        /\ s = [con.fs EXCEPT ![i].len = @ - n]
        /\ o = [con.open EXCEPT ![con.fd].pos = @ + k]
        /\ v = con.out \o BytesAt(FileOf(con), con.open[con.fd].pos, n)
        /\ g = [con EXCEPT !.fs = s, !.open = o, !.out = v] /\ d = con'
  OBVIOUS
<1>a. PICK y, b : y = SubSeq(g.out, j + 1, Len(g.out)) /\ b = [g EXCEPT !.out = y]
  OBVIOUS
<1>3. /\ Sending(con, con.in) /\ IsCon(con) /\ con.fs \in Seq(Sect) /\ i \in 1 .. Len(con.fs)
      /\ Cur(con) \in Sect /\ con.open \in [Fds -> Slot] /\ con.fd \in Fds
      /\ disk \in [DOMAIN Disk -> Int]
  BY <1>1, <1>2, InFileIs
<1>4. n \in Int
  BY <1>2, <1>3 DEF Sect
<1>5. s \in Seq(Sect) /\ Len(s) = Len(con.fs)
  <2>1. con.fs[i] \in Sect
    BY <1>3
  <2>2. PICK e : e = [con.fs[i] EXCEPT !.len = @ - n]
    OBVIOUS
  <2>3. e \in Sect
    BY <1>4, <2>1, <2>2 DEF Sect
  <2>4. s = [con.fs EXCEPT ![i] = e]
    BY <1>2, <2>2
  <2> QED BY ONLY <1>3, <2>3, <2>4
<1>6. o \in [Fds -> Slot] /\ \A f \in Fds : o[f].file = con.open[f].file
  <2>1. con.open[con.fd] \in Slot
    BY <1>3
  <2>2. PICK e : e = [con.open[con.fd] EXCEPT !.pos = @ + k]
    OBVIOUS
  <2>3. e \in Slot /\ e.file = con.open[con.fd].file
    BY <2>1, <2>2 DEF Slot
  <2>4. o = [con.open EXCEPT ![con.fd] = e]
    BY <1>2, <2>2
  <2> QED BY ONLY <1>3, <2>3, <2>4
<1>7. /\ IsCon(g) /\ g.in = con.in /\ g.fd = con.fd /\ g.off = con.off /\ g.num = con.num
      /\ g.sz = con.sz /\ g.fs = s /\ g.open = o /\ g.out = v
  BY <1>2, <1>3 DEF IsCon, ConFields
<1>8. Sending(g, con.in)
  BY <1>3, <1>5, <1>6, <1>7, StillSending
<1>9. Alike(SentFin(b), g)
  <2>1. Alike(b, g)
    BY ONLY <1>a, <1>7, SetOther
  <2>2. IsCon(b)
    BY <2>1 DEF Alike
  <2> QED BY <2>1, <2>2, SentFinAlike, AlikeTwice
<1>10. d = g \/ d = SentFin(b)
  <2>1. Left(con, n) = [con EXCEPT !.fs = s]
    BY <1>2, <1>3 DEF Left, IsCon, ConFields
  <2>2. [Left(con, n) EXCEPT !.open[con.fd].pos = @ + k,
           !.out = @ \o BytesAt(FileOf(con), con.open[con.fd].pos, n)] = g
    BY <1>2, <1>3, <2>1 DEF IsCon, ConFields
  <2>3. [g EXCEPT !.out = SubSeq(@, j + 1, Len(@))] = b
    BY ONLY <1>a, <1>7 DEF IsCon, ConFields
  <2> QED BY <1>2, <2>2, <2>3 DEF HttpRead
<1>11. Sending(d, con.in)
  BY <1>8, <1>9, <1>10, AlikeIs DEF Sending, Alike
<1>12. pc' = "send" /\ disk' = disk
  BY DEF HttpRead, InFile
<1> QED BY <1>2, <1>3, <1>11, <1>12, ConnIs, InSend DEF HttpdIInv

(* What is left of a file that became shorter is not sent. *)
LEMMA CutOK ==
  ASSUME NEW c, NEW q, HasFile(c, q)
  PROVE  Conn([FinFdClose(c) EXCEPT !.keep = FALSE, !.cut = TRUE])
<1>1. PICK x, d : x = FinFdClose(c) /\ d = [x EXCEPT !.keep = FALSE, !.cut = TRUE]
  OBVIOUS
<1>2. Closed(x, q)
  BY <1>1, FinFdCloseOK
<1>3. Alike(d, x)
  BY <1>1, <1>2 DEF Closed, Typed, Alike, IsCon, ConFields
<1>4. Closed(d, q)
  BY <1>2, <1>3, AlikeIs
<1> QED BY <1>1, <1>4, ConnIs

LEMMA FileEofInv ==
  ASSUME HttpdIInv, HttpFileEof
  PROVE  HttpdIInv'
<1>1. InFile
  BY DEF HttpFileEof
<1>2. HasFile(con, con.in) /\ disk \in [DOMAIN Disk -> Int]
  BY <1>1, InFileIs
<1>3. /\ con' = [FinFdClose(con) EXCEPT !.keep = FALSE, !.cut = TRUE]
      /\ pc' = "send" /\ disk' = disk
  BY <1>1 DEF HttpFileEof, InFile
<1>4. Conn(con')
  BY <1>2, <1>3, CutOK
<1> QED BY <1>2, <1>3, <1>4, InSend DEF HttpdIInv

(* file_end: the next section, or none. *)
LEMMA FileEndOK ==
  ASSUME NEW c, NEW q, Sending(c, q)
  PROVE  Conn(FileEnd(c))
<1>1. /\ HasFile(c, q) /\ Typed(c, q) /\ IsCon(c) /\ c.num \in Nat /\ c.num > 0 /\ c.off \in Nat
      /\ c.off < c.num /\ c.num = Len(c.fs) /\ c.fs \in Seq(Sect)
  BY DEF Sending, HasFile, Typed
<1>2. CASE ~c.mpbr
  <2>1. FileEnd(c) = FinFdClose(c)
    BY <1>2 DEF FileEnd
  <2> QED BY <1>1, <2>1, FinFdCloseOK, ConnIs
<1>3. CASE c.mpbr /\ c.off + 1 >= c.num
  <2>1. c = [c EXCEPT !.off = IF c.num = 0 THEN 0 ELSE c.num - 1]
    <3>1. c.off = IF c.num = 0 THEN 0 ELSE c.num - 1
      BY <1>1, <1>3
    <3> QED BY <1>1, <3>1 DEF IsCon, ConFields
  <2>2. FdNext(c) = FinFdClose(c)
    BY <2>1 DEF FinFdClose
  <2>3. Closed(FdNext(c), q)
    BY <1>1, <2>2, FinFdCloseOK
  <2>4. FileEnd(c) = Add(FdNext(c), <<PartsEnd>>)
    BY <1>3, <2>3 DEF FileEnd, Closed
  <2>5. Alike(FileEnd(c), FdNext(c))
    BY <2>3, <2>4, AddAlike DEF Closed, Typed
  <2> QED BY <2>3, <2>5, AlikeIs, ConnIs
<1>4. CASE c.mpbr /\ ~(c.off + 1 >= c.num)
  <2>1. PICK n, m, t, d : /\ n = FdNext(c) /\ m = [n EXCEPT !.mmap = FALSE]
                          /\ t = CallSeek(m, Cur(n)) /\ d = FileEnd(c)
    OBVIOUS
  <2>2. n = [c EXCEPT !.off = c.off + 1]
    BY <1>1, <1>4, <2>1 DEF FdNext, IsCon, ConFields
  <2>3. /\ IsCon(n) /\ n.in = c.in /\ n.fs = c.fs /\ n.fd = c.fd /\ n.off = c.off + 1
        /\ n.num = c.num /\ n.sz = c.sz /\ n.open = c.open
    BY <1>1, <2>2 DEF IsCon, ConFields
  <2>4. HasFile(n, q)
    <3>1. n.off \in Nat /\ n.off < n.num /\ n.num = Len(n.fs) /\ n.num > 0 /\ n.num # 0
      BY ONLY <1>1, <1>4, <2>3
    <3>2. Typed(n, q)
      BY <1>1, <2>3, <3>1 DEF Typed
    <3>3. c.num <= c.sz /\ c.fd \in Fds /\ \A f \in Fds : c.open[f].file # NoFile <=> f = c.fd
      BY <1>1 DEF HasFile
    <3> QED BY ONLY <2>3, <3>1, <3>2, <3>3 DEF HasFile
  <2>5. HasFile(m, q) /\ m.num = c.num
    <3>1. Alike(m, n)
      BY <2>1, <2>3, SetOther
    <3> QED BY <2>3, <2>4, <3>1, AlikeIs DEF Alike
  <2>6. Cur(n) \in Sect
    <3>1. n.off + 1 \in 1 .. Len(n.fs) /\ n.fs \in Seq(Sect)
      BY ONLY <1>1, <1>4, <2>3
    <3> QED BY <3>1 DEF Cur
  <2>7. HasFile(t, q) /\ t.num = c.num
    BY <2>1, <2>5, <2>6, CallSeekOK
  <2>8. PICK x : x = <<PartHead(Cur(t), c.ct, c.total)>>
    OBVIOUS
  <2>9. n.num # 0
    BY <1>1, <2>3
  <2>10. d = Add(t, x)
    BY <1>4, <2>1, <2>8, <2>9 DEF FileEnd
  <2>11. Alike(d, t)
    BY <2>7, <2>10, AddAlike DEF HasFile, Typed
  <2>12. Sending(d, q)
    BY <1>1, <2>7, <2>11, AlikeIs DEF Sending, Alike
  <2> QED BY <2>1, <2>12, ConnIs
<1> QED BY <1>2, <1>3, <1>4

LEMMA ReadErrInv ==
  ASSUME HttpdIInv, HttpReadErr
  PROVE  HttpdIInv'
<1>1. InFile
  BY DEF HttpReadErr
<1>2. /\ Sending(con, con.in) /\ HasFile(con, con.in) /\ disk \in [DOMAIN Disk -> Int]
  BY <1>1, InFileIs
<1>3. Conn([FinFdClose(con) EXCEPT !.keep = FALSE, !.cut = TRUE]) /\ Conn(FileEnd(con))
  BY <1>2, CutOK, FileEndOK
<1>4. Conn(con') /\ pc' = "send" /\ disk' = disk
  BY <1>1, <1>3 DEF HttpReadErr, InFile
<1> QED BY <1>2, <1>4, InSend DEF HttpdIInv

LEMMA FileEndInv ==
  ASSUME HttpdIInv, HttpFileEnd
  PROVE  HttpdIInv'
<1>1. InFile
  BY DEF HttpFileEnd
<1>2. Sending(con, con.in) /\ disk \in [DOMAIN Disk -> Int]
  BY <1>1, InFileIs
<1>3. con' = FileEnd(con) /\ pc' = "send" /\ disk' = disk
  BY <1>1 DEF HttpFileEnd, InFile
<1>4. Conn(con')
  BY <1>2, <1>3, FileEndOK
<1> QED BY <1>2, <1>3, <1>4, InSend DEF HttpdIInv

LEMMA TruncateInv ==
  ASSUME HttpdIInv, Truncate
  PROVE  HttpdIInv'
<1>1. HasFile(con, con.in)
  BY ConnIs DEF HttpdIInv, InvOf, Truncate
<1>2. FileOf(con) \in DOMAIN Disk
  BY <1>1, FileOfIs
<1>3. disk' \in [DOMAIN Disk -> Int]
  BY <1>2 DEF Truncate, HttpdIInv, InvOf
<1>4. con' = con /\ pc' = pc
  BY DEF Truncate
<1> QED BY <1>3, <1>4 DEF HttpdIInv, InvOf

-----------------------------------------------------------------------------
(* All steps *)

LEMMA NextInv ==
  ASSUME RangesGiven, HttpdIInv, [HttpdNext]_httpVars
  PROVE  HttpdIInv'
<1>1. CASE UNCHANGED httpVars
  BY <1>1 DEF httpVars, HttpdIInv, InvOf
<1>2. CASE \E r \in IF sent = 0 THEN Asks ELSE Nexts : HttpRecv(<<r>>)
  <2>1. PICK r \in Requests : HttpRecv(<<r>>)
    BY <1>2 DEF Requests
  <2>2. <<r>> \in Seq(Requests)
    OBVIOUS
  <2> QED BY <2>1, <2>2, RecvInv
<1>3. CASE \E r \in Asks, n \in Nexts : sent = 0 /\ HttpRecv(<<r, n>>)
  <2>1. PICK r \in Requests, n \in Requests : HttpRecv(<<r, n>>)
    BY <1>3 DEF Requests
  <2>2. <<r, n>> \in Seq(Requests)
    OBVIOUS
  <2> QED BY <2>1, <2>2, RecvInv
<1>4. CASE HttpAccept
  <2>1. PICK p \in Policies : con' = ConInit(p)
    BY <1>4 DEF HttpAccept
  <2>2. disk' = Disk /\ pc' = "idle"
    BY <1>4 DEF HttpAccept
  <2> QED BY <2>1, <2>2, ConInitOK DEF HttpdIInv
<1>5. CASE HttpClose \/ HttpParseFail
  BY <1>5, FreeInv DEF HttpClose, HttpParseFail
<1>6. CASE \E fault \in Faults : HttpParse(fault)
  BY <1>6, ParseInv
<1>7. CASE \E k \in 0 .. Len(con.out) : HttpOut(k) \/ HttpQueue(k)
  BY <1>7, OutInv, QueueInv
<1>8. CASE \E k \in 1 .. Cur(con).len : HttpSendFile(k)
  BY <1>8, SendFileInv
<1>9. CASE \E k \in 1 .. ReadSz, j \in 0 .. Len(con.out) + ReadSz : HttpRead(k, j)
  BY <1>9, ReadInv
<1>10. CASE HttpRecvEof \/ HttpSendCb \/ HttpWait \/ HttpFinSend
  BY <1>10, RecvEofInv, SendCbInv, WaitInv, FinSendInv
<1>11. CASE HttpSendFileErr \/ HttpFileEof \/ HttpReadErr \/ HttpFileEnd \/ Truncate
  BY <1>11, SendFileErrInv, FileEofInv, ReadErrInv, FileEndInv, TruncateInv
<1> QED BY <1>1, <1>2, <1>3, <1>4, <1>5, <1>6, <1>7, <1>8, <1>9, <1>10, <1>11 DEF HttpdNext

LEMMA CleanFollows ==
  HttpdIInv => HttpdClean
<1> SUFFICES ASSUME HttpdIInv PROVE HttpdClean
  OBVIOUS
<1>1. Conn(con) /\ con.num \in Nat
  BY ConnIs DEF HttpdIInv, InvOf
<1>2. ASSUME con.num = 0
      PROVE  /\ \A f \in Fds : ~IsOpen(con, f)
             /\ con.fd = NoFd /\ con.off = 0 /\ ~con.mpbr /\ con.ct = 0 /\ con.fs[1].len = 0
  <2>1. Closed(con, con.in)
    BY <1>1, <1>2, ConnIs
  <2> QED BY <2>1 DEF Closed, IsOpen
<1>3. ASSUME con.num > 0
      PROVE  /\ pc \in {"idle", "send"}
             /\ con.off < con.num /\ con.num = Len(con.fs) /\ con.num <= con.sz
             /\ {f \in Fds : IsOpen(con, f)} = {con.fd}
  <2>1. HasFile(con, con.in)
    BY <1>1, <1>3, ConnIs
  <2>2. pc \in {"idle", "send"}
    BY <1>3 DEF HttpdIInv, InvOf
  <2> QED BY <1>3, <2>1, <2>2 DEF HasFile, IsOpen
<1>4. pc = "idle" => con.pollin \/ con.queued \/ con.sr
  BY DEF HttpdIInv, InvOf
<1> QED BY <1>2, <1>3, <1>4 DEF HttpdClean

(* The file of an answer is open, in one descriptor, exactly while         *)
(* sections of it are left, whatever is asked, pipelined, refused or fails *)
(* (httpd__fd_next(), httpd_fin_fd_close() and the callers that must not   *)
(* forget them); sections are only looked at inside their array; nothing   *)
(* is left for the next answer; and no connection waits for nothing.  For  *)
(* any files, descriptors, policies and requests, but requests with an     *)
(* empty list of ranges.                                                   *)
THEOREM HttpdStaysClean ==
  ASSUME RangesGiven
  PROVE  HttpdSpec => []HttpdClean
<1>1. HttpdInit => HttpdIInv
  BY InitInv
<1>2. HttpdIInv /\ [HttpdNext]_httpVars => HttpdIInv'
  BY RangesGiven, NextInv
<1>3. HttpdIInv => HttpdClean
  BY CleanFollows
<1> QED BY <1>1, <1>2, <1>3, PTL DEF HttpdSpec

=============================================================================
