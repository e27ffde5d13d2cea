------------------------------ MODULE VstrHttpd ------------------------------
(***************************************************************************)
(* What the HTTP server of examples/httpd.c answers on one connection:     *)
(* requests that are pipelined, ranges and their parts, conditions, error  *)
(* pages, the descriptor of the file that is sent, and the three ways of   *)
(* sending it (sendfile(), mmap(), read()).  When the callbacks are called *)
(* is the business of VstrEvntLoop; here they come at any time that POLLIN *)
(* or the send queue allow.                                                *)
(*                                                                         *)
(* Output is a sequence of items: the head of an answer, the head of a     *)
(* part, the end of the parts, a message, and the bytes of files, each     *)
(* [file, i].                                                              *)
(***************************************************************************)
EXTENDS Integers, Sequences, SequencesExt, FiniteSets, FiniteSetsExt

CONSTANTS
  Kind,       \* what each name of the document root is; a private file may
              \* not be read by all, or is not a regular file
  Disk,       \* the sizes of the files and directories, at the beginning
  Gzip,       \* the file that is the encoded version of each file, or NoFile
  Asks,       \* the requests that clients make
  Nexts,      \* the requests that they make after another
  Policies,   \* [sendfile, mmap, errpage, max, ranges]: how a server is set
              \* up; errpage is the name that is looked for after an error,
              \* or NoFile
  NFds,       \* descriptors there are for files
  FsSz,       \* the sections the first array has room for (16)
  WaitSend,   \* HTTPD_CONF_MAX_WAIT_SEND
  MaxIn,      \* the requests that max_header_sz allows in io_r
  InCoreSz,   \* EX_MAX_W_DATA_INCORE
  ReadSz,     \* what io_get() reads at once
  MaxAsks,    \* bound: requests on a connection
  AnyAsk      \* are requests made that are answered wrongly?

NoFile == "no file"

Fds == 1 .. NFds

NoFd == 0

ASSUME HttpdAssumption ==
  /\ \A n \in DOMAIN Kind : Kind[n] \in {"reg", "none", "dir", "private"}
  /\ \A n \in DOMAIN Kind : Kind[n] # "none" => n \in DOMAIN Disk
  /\ Disk \in [DOMAIN Disk -> Nat]
  /\ NoFile \notin DOMAIN Disk \cup DOMAIN Kind
  /\ Gzip \in [DOMAIN Disk -> DOMAIN Disk \cup {NoFile}]
  /\ {NFds, FsSz, InCoreSz, ReadSz, MaxIn, MaxAsks} \subseteq Nat \ {0}
  /\ FsSz # 1 /\ WaitSend \in Nat
  /\ AnyAsk \in BOOLEAN

(* What a request is: a range is a-b, a-, -n, or none of these. *)
ASSUME AsksAssumption ==
  \A r \in Asks \cup Nexts :
    /\ r.op \in {"GET", "HEAD", "OPTIONS", "TRACE", "POST", "BAD"}
    /\ r.op \in {"GET", "HEAD"} => r.doc \in DOMAIN Kind
    /\ r.ranges \in Seq([k : {"upto", "from", "last", "bad"}, n : Nat, end : Nat])

VARIABLES
  con,      \* struct Con, with its io_r and io_w, and the descriptors
  disk,     \* the sizes of the files
  sent,     \* how many requests the client made
  wire,     \* what was sent
  asked,    \* history: the requests that were parsed, what each was about
            \* and which answer was chosen
  pc        \* where the server is: idle (in the event loop), parse, send,
            \* done (it shut its side), closed

httpVars == <<con, disk, sent, wire, asked, pc>>

-----------------------------------------------------------------------------
(* Items. *)

(* http_app_def_hdrs(), with the Content-Range of a single range; -1 is no *)
(* header.  The lengths that a 304 announces are left out.                 *)
HeadItem(code, keep, clen, beg) ==
  [code |-> code, keep |-> keep, clen |-> IF code = 304 THEN -1 ELSE clen,
   beg |-> IF code = 304 THEN -1 ELSE beg]

(* http_app_hdrs_mpbr(); types is how often mpbr_ct has the content type. *)
PartHead(sect, types, total) ==
  [beg |-> sect.off, end |-> sect.off + sect.len - 1, types |-> types, total |-> total]

PartsEnd == [parts |-> "--SEP--"]

Message(code) == [msg |-> code]

Echo(r) == [req |-> r]

BytesAt(file, off, len) == [k \in 1 .. len |-> [file |-> file, i |-> off + k - 1]]

-----------------------------------------------------------------------------
(* Descriptors, and the sections of the file that is sent. *)

Shut1 == [file |-> NoFile, pos |-> 0]

IsOpen(c, fd) == c.open[fd].file # NoFile

FreeFds(c) == {fd \in Fds : ~IsOpen(c, fd)}

(* io_open_nonblock() *)
OpenFile(c, file) ==
  LET fd == CHOOSE f \in FreeFds(c) : \A g \in FreeFds(c) : f <= g
  IN  [c EXCEPT !.fd = fd, !.open[fd] = [file |-> file, pos |-> 0]]

FileOf(c) == c.open[c.fd].file

Cur(c) == c.fs[c.off + 1]

CloseFd(c, fd) == IF fd = NoFd THEN c ELSE [c EXCEPT !.open[fd] = Shut1]

(* Mutant: the type of the parts is left for the next answer. *)
FdNextMutant(c) ==
  IF c.off + 1 >= c.num
  THEN [CloseFd(c, c.fd) EXCEPT !.fd = NoFd, !.off = 0, !.num = 0, !.mpbr = FALSE,
                                !.fs = <<[off |-> @[1].off, len |-> 0]>>]
  ELSE [c EXCEPT !.off = @ + 1]

(* httpd__fd_next() *)
FdNext(c) ==
  IF c.off + 1 >= c.num
  THEN [CloseFd(c, c.fd) EXCEPT !.fd = NoFd, !.off = 0, !.num = 0, !.mpbr = FALSE,
                                !.ct = 0, !.fs = <<[off |-> @[1].off, len |-> 0]>>]
  ELSE [c EXCEPT !.off = @ + 1]

(* httpd_fin_fd_close() *)
FinFdClose(c) == FdNext([c EXCEPT !.off = IF c.num = 0 THEN 0 ELSE c.num - 1])

(* httpd_serv_file_sects_none() *)
SectsNone(c, size) ==
  [c EXCEPT !.mpbr = FALSE, !.num = 1, !.fs = <<[off |-> 0, len |-> size]>>]

(* httpd_serv_call_mmap(); fault says that it fails. *)
CallMmap(c, fault) ==
  IF c.sendfile \/ c.num > 1 \/ ~c.policy.mmap \/ c.fs[1].len = 0 \/ fault = "mmap" THEN c
  ELSE [c EXCEPT !.mmap = TRUE]

(* httpd__serv_call_seek() *)
CallSeek(c, sect) ==
  IF c.mmap \/ c.sendfile \/ sect.off = 0 \/ sect.len = 0 THEN c
  ELSE [c EXCEPT !.open[c.fd].pos = sect.off]

(* httpd_serv_call_file_init() *)
FileInit(c, fault) ==
  LET map == CallMmap([c EXCEPT !.mmap = FALSE], fault)
  IN  IF c.head THEN [c EXCEPT !.mmap = FALSE] ELSE CallSeek(map, map.fs[1])

-----------------------------------------------------------------------------
(* Finishing a request.  c.head is head_op. *)

(* http_fin_req(), without the call of httpd_serv_send() that ends it *)
FinReq(c) ==
  IF c.keep THEN [c EXCEPT !.in = Tail(@)] ELSE [c EXCEPT !.in = <<>>, !.pollin = FALSE]

(* http_fin_fd_req() *)
FinFdReq(c) ==
  FinReq(IF c.head \/ c.mmap \/ c.fs[1].len = 0 THEN FinFdClose(c) ELSE c)

Add(c, items) == [c EXCEPT !.out = @ \o items]

AddHead(c, r, code, clen, beg) ==
  Add([c EXCEPT !.code = code],
      IF r.ver = "0.9" THEN <<>> ELSE <<HeadItem(code, c.keep, clen, beg)>>)

(* The file that was mapped, which is moved into the output. *)
AddMapped(c) ==
  IF c.mmap THEN Add(c, BytesAt(FileOf(c), c.fs[1].off, c.fs[1].len)) ELSE c

(* Mutant: the descriptor of the plain file is not closed. *)
TryEncodingMutant(c, r) ==
  LET zip == Gzip[FileOf(c)]
  IN  IF r.gz /\ zip # NoFile /\ FreeFds(c) # {} /\ disk[zip] \in 1 .. disk[FileOf(c)] - 1
      THEN [OpenFile(c, zip) EXCEPT !.enc = TRUE, !.fs = <<[off |-> 0, len |-> disk[zip]]>>]
      ELSE c

(* httpd__try_fd_encoding(), http__try_encoded_content(): the descriptors  *)
(* are swapped and the one that is not used is closed.                     *)
TryEncoding(c, r) ==
  LET zip == Gzip[FileOf(c)]
  IN  IF r.gz /\ zip # NoFile /\ FreeFds(c) # {} /\ disk[zip] \in 1 .. disk[FileOf(c)] - 1
      THEN [CloseFd(OpenFile(c, zip), c.fd)
              EXCEPT !.enc = TRUE, !.fs = <<[off |-> 0, len |-> disk[zip]]>>]
      ELSE c

(* http_fin_err_req() ends the connection after these, *)
IsFatal(code) == code \in {400, 405, 413, 500, 501}

(* and looks for a page of the site, if one is configured, for these. *)
HasPage(c, code) ==
  c.policy.errpage \in DOMAIN Kind /\ code \in {400, 403, 404, 410, 500, 503}

(* The page can be opened, and turns out to be a file that all may read. *)
PageOpens(c, fault) == Kind[c.policy.errpage] # "none" /\ fault # "fds"
PageGiven(c, fault) ==
  Kind[c.policy.errpage] = "reg" /\ fault \notin {"fds", "stat"}

FinErrMsg(c, r, code) ==
  LET told == AddHead(c, r, code, 1, -1)
  IN  FinReq(IF c.head THEN told ELSE Add(told, <<Message(code)>>))

(* The page is open.  It may have an encoded version too, which is looked  *)
(* for with fs_num set already.                                            *)
FinErrPage(c, r, code, fault) ==
  LET page == SectsNone(c, disk[FileOf(c)])
      coded == IF r.ver = "0.9" THEN page ELSE TryEncoding(page, r)
      map == [coded EXCEPT !.mmap = FALSE, !.page = TRUE]
      told == AddHead(IF c.head THEN map ELSE CallMmap(map, fault), r, code,
                      coded.fs[1].len, -1)
  IN  IF c.head THEN FinReq(told) ELSE FinFdReq(AddMapped(told))

(* Mutant: a page that cannot be used is not closed. *)
FinErrMutant(c, r, code, fault) ==
  LET kept == [c EXCEPT !.keep = @ /\ ~IsFatal(code), !.enc = FALSE]
      page == OpenFile(kept, c.policy.errpage)
  IN  IF ~HasPage(c, code) \/ ~PageOpens(c, fault) THEN FinErrMsg(kept, r, code)
      ELSE IF PageGiven(c, fault) THEN FinErrPage(page, r, code, fault)
      ELSE FinErrMsg(page, r, code)

(* http_fin_err_req(): the page, or the message of the server where there  *)
(* is none, it cannot be opened, or it was opened and cannot be used.      *)
FinErr(c, r, code, fault) ==
  LET kept == [c EXCEPT !.keep = @ /\ ~IsFatal(code), !.enc = FALSE]
      page == OpenFile(kept, c.policy.errpage)
  IN  IF ~HasPage(c, code) \/ ~PageOpens(c, fault) THEN FinErrMsg(kept, r, code)
      ELSE IF PageGiven(c, fault) THEN FinErrPage(page, r, code, fault)
      ELSE FinErrMsg(FinFdClose(page), r, code)

(* http_fin_err_close_req() *)
FinErrClose(c, r, code, fault) == FinErr(FinFdClose(c), r, code, fault)

(* http_fin_errmem_req(), was being the output before the request *)
FinErrMem(c, r, was) ==
  FinErrMsg([c EXCEPT !.out = was, !.keep = FALSE, !.enc = FALSE], r, 500)

-----------------------------------------------------------------------------
(* Ranges. *)

(* httpd__file_sect_add(): the sections with one more, and whether to go   *)
(* on.  The section is in the connection first, in the first array with    *)
(* the second one, and the arrays then grow.                               *)
SectAdd(c, beg, end, more, fault) ==
  LET full == c.num > 0 /\ (c.sz = 1 \/ c.num >= c.sz)
      sect == [off |-> beg, len |-> end - beg + 1]
      size == IF ~full THEN c.sz ELSE IF c.sz = 1 THEN FsSz ELSE 2 * c.sz + 1
      sects == IF c.num = 0 THEN <<sect>> ELSE Append(c.fs, sect)
      many == [c EXCEPT !.mpbr = c.num > 0]
  IN  IF full /\ fault = "sect" THEN [c |-> many, ret |-> 0]
      ELSE [c |-> [many EXCEPT !.sz = size, !.fs = sects, !.num = @ + 1],
            ret |-> IF ~more THEN 200
                    ELSE IF c.policy.ranges > c.num + 1 THEN -1 ELSE 0]

(* What one range of a file of that size is: 416, 0 to send all of the     *)
(* file instead, or 200 and where it is.                                   *)
Range1(s, size) ==
  LET beg == IF s.k = "last" THEN size - s.n ELSE s.n
      end == IF s.k = "upto" /\ s.end < size THEN s.end ELSE size - 1
      ret == CASE s.k = "bad" -> 0
               [] s.k = "last" -> IF s.n = 0 THEN 416 ELSE IF s.n >= size THEN 0 ELSE 200
               [] OTHER -> IF beg >= size \/ beg > end THEN 416
                           ELSE IF beg = 0 /\ end = size - 1 THEN 0 ELSE 200
  IN  [ret |-> ret, beg |-> beg, end |-> end]

(* One turn of the loop: p is the connection and the result, or -1. *)
RangeTurn(p, one, more, fault) ==
  IF p.ret # -1 THEN p
  ELSE IF one.ret = 200 THEN SectAdd(p.c, one.beg, one.end, more, fault)
  ELSE [p EXCEPT !.ret = one.ret]

(* http_parse_range() *)
ParseRange(c, ranges, size, fault) ==
  LET turn[i \in 0 .. Len(ranges)] ==
        IF i = 0 THEN [c |-> c, ret |-> -1]
        ELSE RangeTurn(turn[i - 1], Range1(ranges[i], size), i < Len(ranges), fault)
  IN  IF ranges = <<>> THEN [c |-> c, ret |-> 200] ELSE turn[Len(ranges)]

-----------------------------------------------------------------------------
(* Answering GET and HEAD. *)

(* The end of http_req_op_get() *)
OpGetEnd(c, r, was, fault) ==
  IF fault = "mem" THEN FinErrMem(FinFdClose(c), r, was) ELSE FinFdReq(AddMapped(c))

(* The end of http_req_1_x(): the head, and that of the first part. *)
Reply(c, r, code, ranged, was, fault) ==
  LET ready == FileInit(c, fault)
      typed == [ready EXCEPT !.ct = IF c.mpbr THEN @ + 1 ELSE @]
      told == AddHead(typed, r, code, IF c.mpbr THEN -1 ELSE c.fs[1].len,
                      IF ranged /\ ~c.mpbr THEN c.fs[1].off ELSE -1)
      size == disk[FileOf(c)]
      part == [told EXCEPT !.total = size]
  IN  OpGetEnd(IF c.head THEN [told EXCEPT !.mpbr = FALSE]
               ELSE IF ranged /\ c.mpbr
                    THEN Add(part, <<PartHead(c.fs[1], typed.ct, size)>>)
                    ELSE told,
               r, was, fault)

(* http_response_ok(), and httpd_serv_file_sects_none() if no range is     *)
(* left.  A condition with "=" is met by the file, one with "#" is not.    *)
ResponseOk(c, r, parsed, was, fault) ==
  LET new == IF r.ver = "1.1" THEN r.conds ELSE r.conds \cap {"ims=", "ims#"}
      ranged == parsed /\ "ir#" \notin new
      same == new \cap {"ims=", "inm="} # {}
      code == IF same THEN 304 ELSE IF ranged THEN 206 ELSE 200
      sects == IF ranged THEN c ELSE SectsNone(c, disk[FileOf(c)])
  IN  IF new \cap {"iums=", "im#"} # {} THEN FinErrClose(c, r, 412, fault)
      ELSE Reply([sects EXCEPT !.head = @ \/ same], r, code, ranged, was, fault)

Ranged(p, r, was, fault) ==
  IF p.ret = 416 /\ r.conds \cap {"ir=", "ir#"} = {} THEN FinErrClose(p.c, r, 416, fault)
  ELSE ResponseOk(p.c, r, p.ret = 200, was, fault)

(* http_req_1_x() *)
Req1x(c, r, was, fault) ==
  IF r.ver = "1.1" /\ r.expect THEN FinErrClose(c, r, 417, fault)
  ELSE LET coded == TryEncoding(c, r)
       IN  Ranged(IF r.hasr THEN ParseRange(coded, r.ranges, disk[FileOf(coded)], fault)
                  ELSE [c |-> coded, ret |-> 0],
                  r, was, fault)

Opened(c, r) ==
  LET o == OpenFile(c, r.doc) IN [o EXCEPT !.fs = <<[off |-> 0, len |-> disk[r.doc]]>>]

(* http_req_op_get(), http_req_chk_dir() *)
OpGet(c, r, was, fault) ==
  IF fault \in {"fd", "fds"} THEN FinErr(c, r, 500, fault)
  ELSE IF Kind[r.doc] = "none" THEN FinErr(c, r, 404, fault)
  ELSE IF fault = "stat" THEN FinErrClose(OpenFile(c, r.doc), r, 500, fault)
  ELSE IF Kind[r.doc] = "private" THEN FinErrClose(OpenFile(c, r.doc), r, 403, fault)
  ELSE IF Kind[r.doc] = "dir" THEN FinErrClose(OpenFile(c, r.doc), r, 301, fault)
  ELSE IF r.ver = "0.9"
       THEN OpGetEnd(FileInit(SectsNone(Opened(c, r), disk[r.doc]), fault), r, was, fault)
       ELSE Req1x(Opened(c, r), r, was, fault)

(* http_req_op_opts(), http_req_op_trace(): clen and body *)
OpSimple(c, r, was, clen, body, fault) ==
  LET told == Add(AddHead(c, r, 200, clen, -1), body)
  IN  IF fault = "mem" THEN FinErrMem(c, r, was) ELSE FinReq(told)

-----------------------------------------------------------------------------
(* Parsing. *)

(* http__parse_1_x(), http__parse_connection(); got counts the request. *)
KeepAlive(c, r) ==
  /\ c.policy.max = 0 \/ c.got < c.policy.max
  /\ CASE r.ver = "1.1" -> r.conn # "close"
       [] r.ver = "1.0" -> r.conn = "keep-alive"
       [] OTHER -> FALSE

(* What http_parse_req() does with a request that is complete. *)
Answered(c, r, fault) ==
  LET got == [c EXCEPT !.got = @ + 1, !.code = 200]
      kept == [got EXCEPT !.keep = KeepAlive(got, r)]
  IN  CASE r.op = "BAD" -> FinErr(c, r, 400, fault)
        [] r.op \in {"GET", "HEAD"} -> OpGet(kept, r, c.out, fault)
        [] r.op = "OPTIONS" -> OpSimple(kept, r, c.out, 0, <<>>, fault)
        [] r.op = "TRACE" -> OpSimple(kept, r, c.out, 1, <<Echo(r)>>, fault)
        [] r.op = "POST" -> FinErr(kept, r, 405, fault)

-----------------------------------------------------------------------------
(* The connection. *)

(* httpd_con_init(), with the policy the connection gets *)
ConInit(p) ==
  [fs |-> <<[off |-> 0, len |-> 0]>>, fd |-> NoFd, off |-> 0, num |-> 0, sz |-> 1,
   mpbr |-> FALSE, ct |-> 0, total |-> 0, mmap |-> FALSE, sendfile |-> p.sendfile,
   keep |-> FALSE, got |-> 0, in |-> <<>>, out |-> <<>>, pollin |-> TRUE,
   queued |-> FALSE, sr |-> FALSE, shut |-> FALSE, policy |-> p,
   open |-> [f \in Fds |-> Shut1], head |-> FALSE, code |-> 0, enc |-> FALSE,
   page |-> FALSE, cut |-> FALSE]

HttpdInit ==
  /\ con \in {ConInit(p) : p \in Policies}
  /\ disk = Disk /\ sent = 0 /\ wire = <<>> /\ asked = <<>> /\ pc = "idle"

(* The next connection. *)
HttpAccept ==
  /\ pc = "closed" /\ con' \in {ConInit(p) : p \in Policies}
  /\ disk' = Disk /\ pc' = "idle" /\ UNCHANGED <<sent, wire, asked>>

(* Requests that are answered as they should; the others are described in  *)
(* the README: a list of ranges that is empty, a part after the first that *)
(* begins where the file does, and the head of an error that has a page;   *)
(* and what is asked after a file was cut, or read with an error in parts. *)
PlainAsk(r, fault) ==
  \/ AnyAsk
  \/ /\ r.hasr => r.ranges # <<>>
     /\ \A i \in 2 .. Len(r.ranges) : r.ranges[i].k = "last" \/ r.ranges[i].n # 0
     /\ r.op = "HEAD" /\ con.policy.errpage \in DOMAIN Kind /\ PageGiven(con, fault) =>
          Kind[r.doc] \in {"reg", "dir"} /\ fault # "fd"

(* httpd_serv_recv(), up to the call of http_parse_req(); the input stops  *)
(* while there is too much of it and a file is being sent.                 *)
HttpRecv(rs) ==
  /\ pc = "idle" /\ con.pollin /\ ~con.shut
  /\ sent + Len(rs) <= MaxAsks /\ (AnyAsk \/ ~con.cut)
  /\ \A i \in 1 .. Len(rs) : PlainAsk(rs[i], "none")
  /\ sent' = sent + Len(rs)
  /\ con' = [con EXCEPT !.in = @ \o rs,
                        !.pollin = con.num = 0 \/ Len(con.in \o rs) <= MaxIn]
  /\ pc' = IF con.num > 0 THEN "idle" ELSE "parse"
  /\ UNCHANGED <<disk, wire, asked>>

(* The client shut its side: evnt_shutdown_r(). *)
HttpRecvEof ==
  /\ pc = "idle" /\ con.pollin /\ ~con.shut
  /\ AnyAsk \/ ~con.cut \/ con.in = <<>>
  /\ con' = [con EXCEPT !.shut = TRUE, !.pollin = FALSE]
  /\ pc' = IF con.num > 0 THEN "idle" ELSE "parse"
  /\ UNCHANGED <<disk, sent, wire, asked>>

(* serv_cb_func_send(), called for the queue or because POLLOUT is set. *)
HttpSendCb ==
  /\ pc = "idle" /\ (con.queued \/ con.sr)
  /\ \E q \in BOOLEAN : (q => con.queued) /\ (~q => con.sr)
                        /\ con' = [con EXCEPT !.queued = IF q THEN FALSE ELSE @]
  /\ pc' = "send" /\ UNCHANGED <<disk, sent, wire, asked>>

Freed(c) == [FinFdClose(c) EXCEPT !.out = <<>>, !.in = <<>>, !.pollin = FALSE,
                                  !.queued = FALSE, !.sr = FALSE]

(* serv_cb_func_free(), after an error, a timeout, or the end of the       *)
(* connection; the history ends with it.                                   *)
HttpFree ==
  /\ con' = Freed(con) /\ pc' = "closed"
  /\ sent' = 0 /\ wire' = <<>> /\ asked' = <<>> /\ UNCHANGED disk

HttpClose == pc \in {"idle", "send", "done"} /\ HttpFree

(* http_parse_req() without a complete request: http_parse_wait_io_r() *)
HttpWait ==
  /\ pc = "parse" /\ con.in = <<>>
  /\ IF con.shut /\ con.out = <<>> THEN HttpFree
     ELSE /\ con' = [con EXCEPT !.pollin = @ \/ ~con.shut]
          /\ pc' = "idle" /\ UNCHANGED <<disk, sent, wire, asked>>

(* http_parse_req() *)
HttpParse(fault) ==
  /\ pc = "parse" /\ con.in # <<>>
  /\ LET r == Head(con.in)
     IN  /\ PlainAsk(r, fault)
         /\ \E c \in {Answered([con EXCEPT !.keep = FALSE, !.head = r.op = "HEAD",
                                            !.enc = FALSE, !.page = FALSE], r, fault)} :
              /\ con' = c
              /\ asked' = Append(asked, [r |-> r, disk |-> disk, code |-> c.code,
                                         keep |-> c.keep, head |-> c.head, enc |-> c.enc,
                                         page |-> c.page])
  /\ pc' = "send" /\ UNCHANGED <<disk, sent, wire>>

(* There is no memory for the request, or not even for an error. *)
HttpParseFail == pc = "parse" /\ con.in # <<>> /\ HttpFree

-----------------------------------------------------------------------------
(* httpd_serv_send() *)

(* evnt__send_fin() *)
SentFin(c) ==
  IF c.out = <<>> THEN [c EXCEPT !.sr = FALSE]
  ELSE [c EXCEPT !.sr = TRUE, !.pollin = @ \/ (~c.sr /\ ~c.shut)]

(* The output is over what httpd__serv_send_lim() was told to leave. *)
OverLim == Len(con.out) >= IF con.num = 0 \/ con.sendfile THEN 1 ELSE InCoreSz

(* Some of the output goes, or none if the peer does not read. *)
HttpOut(k) ==
  /\ pc = "send" /\ OverLim /\ k \in 0 .. Len(con.out)
  /\ wire' = wire \o SubSeq(con.out, 1, k)
  /\ con' = SentFin([con EXCEPT !.out = SubSeq(@, k + 1, Len(@))])
  /\ UNCHANGED <<disk, sent, asked, pc>>

InFile == pc = "send" /\ con.num > 0 /\ ~OverLim

(* io_limit_num is used up: httpd_serv_q_send() *)
HttpQueue(k) ==
  /\ pc = "send" /\ (OverLim \/ (InFile /\ con.sendfile /\ Cur(con).len > 0))
  /\ k \in 0 .. IF con.sr \/ Len(con.out) <= WaitSend THEN 0 ELSE Len(con.out)
  /\ wire' = wire \o SubSeq(con.out, 1, k)
  /\ con' = [con EXCEPT !.out = SubSeq(@, k + 1, Len(@)), !.queued = TRUE]
  /\ pc' = "idle" /\ UNCHANGED <<disk, sent, asked>>

(* httpd__serv_fin_send() *)
HttpFinSend ==
  /\ pc = "send" /\ con.num = 0 /\ con.out = <<>>
  /\ CASE con.keep -> /\ con' = [con EXCEPT !.pollin = @ \/ ~con.shut] /\ pc' = "parse"
                      /\ UNCHANGED <<disk, sent, wire, asked>>
       [] ~con.keep /\ con.shut -> HttpFree
       [] ~con.keep /\ ~con.shut -> /\ pc' = "done"
                                    /\ UNCHANGED <<con, disk, sent, wire, asked>>

Left(c, n) == [c EXCEPT !.fs[c.off + 1].len = @ - n]

(* evnt_sendfile() *)
HttpSendFile(k) ==
  /\ InFile /\ con.sendfile
  /\ k \in 1 .. Cur(con).len /\ Cur(con).off + k <= disk[FileOf(con)]
  /\ wire' = wire \o BytesAt(FileOf(con), Cur(con).off, k)
  /\ con' = [Left(con, k) EXCEPT !.fs[con.off + 1].off = @ + k]
  /\ UNCHANGED <<disk, sent, asked, pc>>

(* It fails: the rest is read. *)
HttpSendFileErr ==
  /\ InFile /\ con.sendfile /\ Cur(con).len > 0
  /\ con' = [con EXCEPT !.open[con.fd].pos = Cur(con).off, !.sendfile = FALSE]
  /\ UNCHANGED <<disk, sent, wire, asked, pc>>

(* evnt_sc_read_send(): k bytes are read, and if that was not the end of   *)
(* the section j items are sent.                                           *)
HttpRead(k, j) ==
  /\ InFile /\ ~con.sendfile /\ Cur(con).len > 0
  /\ k \in 1 .. ReadSz /\ con.open[con.fd].pos + k <= disk[FileOf(con)]
  /\ LET n == IF k < Cur(con).len THEN k ELSE Cur(con).len
         got == [Left(con, n) EXCEPT !.open[con.fd].pos = @ + k,
                   !.out = @ \o BytesAt(FileOf(con), con.open[con.fd].pos, n)]
     IN  /\ j \in 0 .. IF k < Cur(con).len THEN Len(got.out) ELSE 0
         /\ wire' = wire \o SubSeq(got.out, 1, j)
         /\ con' = IF k >= Cur(con).len THEN got
                   ELSE SentFin([got EXCEPT !.out = SubSeq(@, j + 1, Len(@))])
  /\ UNCHANGED <<disk, sent, asked, pc>>

(* file_eof_end: the file has become shorter. *)
HttpFileEof ==
  /\ InFile /\ Cur(con).len > 0
  /\ disk[FileOf(con)] <= IF con.sendfile THEN Cur(con).off ELSE con.open[con.fd].pos
  /\ con' = [FinFdClose(con) EXCEPT !.keep = FALSE, !.cut = TRUE]
  /\ UNCHANGED <<disk, sent, wire, asked, pc>>

(* file_end: the next part, the end of the parts, or of the file *)
FileEnd(c) ==
  LET next == FdNext(c)
      sought == CallSeek([next EXCEPT !.mmap = FALSE], Cur(next))
  IN  IF ~c.mpbr THEN FinFdClose(c)
      ELSE IF next.num = 0 THEN Add(next, <<PartsEnd>>)
      ELSE Add(sought, <<PartHead(Cur(sought), c.ct, c.total)>>)

(* Reading fails: the parts go on, anything else is cut. *)
HttpReadErr ==
  /\ InFile /\ ~con.sendfile /\ Cur(con).len > 0 /\ (AnyAsk \/ ~con.mpbr)
  /\ con' = IF con.mpbr THEN FileEnd(con)
            ELSE [FinFdClose(con) EXCEPT !.keep = FALSE, !.cut = TRUE]
  /\ UNCHANGED <<disk, sent, wire, asked, pc>>

HttpFileEnd ==
  /\ InFile /\ Cur(con).len = 0
  /\ con' = FileEnd(con) /\ UNCHANGED <<disk, sent, wire, asked, pc>>

(* Somebody makes the file that is being sent shorter, once. *)
Truncate ==
  /\ pc \in {"idle", "send"} /\ con.num > 0 /\ disk = Disk
  /\ disk' = [disk EXCEPT ![FileOf(con)] = @ - 1]
  /\ UNCHANGED <<con, sent, wire, asked, pc>>

(* What fails in a request: memory for the answer, memory for a section,   *)
(* mmap(), opening the file, opening any file, or fstat().                 *)
Faults == {"none", "mem", "sect", "mmap", "fd", "fds", "stat"}

HttpdNext ==
  \/ \E r \in IF sent = 0 THEN Asks ELSE Nexts : HttpRecv(<<r>>)
  \/ \E r \in Asks, n \in Nexts : sent = 0 /\ HttpRecv(<<r, n>>)
  \/ HttpAccept \/ HttpRecvEof \/ HttpSendCb \/ HttpClose \/ HttpWait \/ HttpParseFail
  \/ \E fault \in Faults : HttpParse(fault)
  \/ \E k \in 0 .. Len(con.out) : HttpOut(k) \/ HttpQueue(k)
  \/ \E k \in 1 .. Cur(con).len : HttpSendFile(k)
  \/ \E k \in 1 .. ReadSz, j \in 0 .. Len(con.out) + ReadSz : HttpRead(k, j)
  \/ HttpFinSend \/ HttpSendFileErr \/ HttpFileEof \/ HttpReadErr \/ HttpFileEnd
  \/ Truncate

HttpdSpec == HttpdInit /\ [][HttpdNext]_httpVars

-----------------------------------------------------------------------------
(* What should be answered, from the requests alone. *)

Served(e) ==
  LET doc == IF e.page THEN con.policy.errpage ELSE e.r.doc
  IN  IF e.enc THEN Gzip[doc] ELSE doc

(* The bytes of a file of that size that a range is about. *)
Covers(s, size) ==
  {i \in 0 .. size - 1 : CASE s.k = "last" -> i >= size - s.n
                          [] s.k = "from" -> i >= s.n
                          [] s.k = "upto" -> i \in s.n .. s.end
                          [] OTHER -> FALSE}

BytesIn(f, S) ==
  LET order == SetToSortSeq(S, LAMBDA i, j : i < j)
  IN  [k \in 1 .. Len(order) |-> [file |-> f, i |-> order[k]]]

OnePart(f, S, size) ==
  <<PartHead([off |-> Min(S), len |-> Max(S) - Min(S) + 1], 1, size)>> \o BytesIn(f, S)

DueBody(e, f, size) ==
  CASE e.head \/ (e.code = 200 /\ e.r.op = "OPTIONS") -> <<>>
    [] ~e.head /\ (e.page \/ (e.code = 200 /\ e.r.op = "GET")) -> BytesIn(f, 0 .. size - 1)
    [] ~e.head /\ e.code = 206 /\ Len(e.r.ranges) = 1 -> BytesIn(f, Covers(e.r.ranges[1], size))
    [] ~e.head /\ e.code = 206 /\ Len(e.r.ranges) > 1 ->
         FlattenSeq([i \in DOMAIN e.r.ranges |-> OnePart(f, Covers(e.r.ranges[i], size), size)])
           \o <<PartsEnd>>
    [] ~e.head /\ e.code = 200 /\ e.r.op = "TRACE" -> <<Echo(e.r)>>
    [] OTHER -> <<Message(e.code)>>

DueHead(e, size) ==
  LET first == Covers(e.r.ranges[1], size)
      file == e.page \/ (e.code = 200 /\ e.r.op \in {"GET", "HEAD"})
      part == e.code = 206 /\ Len(e.r.ranges) = 1
      clen == CASE file -> size
                [] part -> Cardinality(first)
                [] e.code = 206 /\ ~part -> -1
                [] e.code = 200 /\ e.r.op = "OPTIONS" -> 0
                [] OTHER -> 1
  IN  IF e.r.ver = "0.9" THEN <<>>
      ELSE <<HeadItem(e.code, e.keep, clen, IF part THEN Min(first) ELSE -1)>>

Due(e) ==
  IF (e.page \/ e.r.op \in {"GET", "HEAD"}) /\ Served(e) \in DOMAIN Disk
  THEN DueHead(e, e.disk[Served(e)]) \o DueBody(e, Served(e), e.disk[Served(e)])
  ELSE DueHead(e, 0) \o DueBody(e, NoFile, 0)

(* The answers that a request for a file allows; a range may have been     *)
(* looked for in the encoded file although the error is about the file.    *)
FileCodes(e, r) ==
  LET is(S) == r.conds \cap S # {}
      files == {r.doc} \cup (IF r.gz THEN {Gzip[r.doc]} \ {NoFile} ELSE {})
      outside(f) == \E i \in DOMAIN r.ranges : Covers(r.ranges[i], e.disk[f]) = {}
      when(b, code) == IF b THEN {code} ELSE {}
  IN  {500} \cup when(r.ver # "1.1" \/ ~is({"im#"}), 200)
        \cup when(r.ver = "1.1" /\ r.expect, 417)
        \cup when(r.hasr /\ \E f \in files : outside(f), 416)
        \cup when(r.ver = "1.1" /\ is({"iums=", "im#"}), 412)
        \cup when(is({"ims=", "inm="}), 304)
        \cup when(r.hasr /\ ~outside(Served(e)) /\ ~is({"ir#"}), 206)

CodeRight(e) ==
  CASE e.r.op = "BAD" -> e.code = 400
    [] e.r.op = "POST" -> e.code = 405
    [] e.r.op \in {"OPTIONS", "TRACE"} -> e.code \in {200, 500}
    [] e.r.op \in {"GET", "HEAD"} ->
         CASE Kind[e.r.doc] = "none" -> e.code \in {404, 500}
           [] Kind[e.r.doc] = "dir" -> e.code \in {301, 500}
           [] Kind[e.r.doc] = "private" -> e.code \in {403, 500}
           [] OTHER -> e.code \in FileCodes(e, e.r)

(* What is sent with an error is a page that all may read, and an encoded  *)
(* version goes to a client that accepts it, where it is shorter.          *)
VersionRight(e) ==
  LET doc == IF e.page THEN con.policy.errpage ELSE e.r.doc
  IN  /\ e.page => Kind[doc] = "reg" /\ e.code \in {400, 403, 404, 500}
      /\ e.enc => /\ e.r.gz /\ e.r.ver # "0.9"
                  /\ e.disk[Served(e)] \in 1 .. e.disk[doc] - 1

(* Answers: what was sent and is to be sent are the answers to the         *)
(* requests, whole and in the order of the requests, however they are      *)
(* pipelined, whichever way the file is read, and however little the peer  *)
(* takes at a time; parts are the bytes their heads name; and a page or an *)
(* encoded version is given where it may be.  Only the answer that is      *)
(* being sent is shorter, and one whose file became shorter.               *)
HttpdAnswers ==
  LET due == FlattenSeq([i \in DOMAIN asked |-> Due(asked[i])])
      all == wire \o con.out
  IN  /\ \A i \in DOMAIN asked : CodeRight(asked[i]) /\ VersionRight(asked[i])
      /\ IsPrefix(all, due)
      /\ pc # "closed" /\ con.num = 0 /\ ~con.cut => all = due

(* Descriptors: a file is open exactly while sections of it are left, in   *)
(* one descriptor; nothing of an answer is left for the next one; and a    *)
(* connection that is open waits for the peer or for its turn.             *)
HttpdClean ==
  /\ con.num = 0 =>
       /\ \A f \in Fds : ~IsOpen(con, f)
       /\ con.fd = NoFd /\ con.off = 0 /\ ~con.mpbr /\ con.ct = 0 /\ con.fs[1].len = 0
  /\ con.num > 0 =>
       /\ pc \in {"idle", "send"}
       /\ con.off < con.num /\ con.num = Len(con.fs) /\ con.num <= con.sz
       /\ {f \in Fds : IsOpen(con, f)} = {con.fd}
  /\ pc = "idle" => con.pollin \/ con.queued \/ con.sr

=============================================================================
