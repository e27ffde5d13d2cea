------------------------------ MODULE VstrText ------------------------------
(***************************************************************************)
(* The strings that the algorithms of VstrSrch, VstrParse, VstrLayout and  *)
(* VstrIp are asked about.  A program puts a string, and a second one to   *)
(* search it for, to compare it with or to span it by, together from       *)
(* nodes, and may make a netstring at the end of it, or print a number or  *)
(* an object with a formatter at the beginning; the properties say what    *)
(* every algorithm returns, in terms of the bytes of the string alone.     *)
(***************************************************************************)
EXTENDS VstrIp

CONSTANTS
  Tasks,      \* [name, bytes, chunks, hay, ndl, nodes]: what strings are made of,
              \* how many bytes are added at once, and the bounds on their lengths
              \* and on the number of nodes
  NumTypes,   \* the number types
  NumBases,   \* the bases that are asked for
  NumFlags,   \* the sets of flags
  Prints      \* the calls of vstr_add_fmt(), with one conversion each

ASSUME TextAssumption ==
  /\ \A t \in Tasks : /\ t.name \in {"srch", "vers", "num", "netstr", "print", "ipv4", "ipv6"}
                      /\ t.bytes \subseteq {Non} \cup (0 .. 127)
                      /\ t.chunks \subseteq Nat \ {0}
                      /\ {t.hay, t.ndl, t.nodes} \subseteq Nat
  /\ \A t \in NumTypes : t.bits \in 2 .. 8 /\ {t.signed, t.promoted} \subseteq BOOLEAN
  /\ NumBases \subseteq 0 .. 40
  /\ \A c \in Prints :
       c.kind \in {"num", "base2", "buf", "bkmg", "ipv4", "ipv6", "netmask"}

VARIABLES task,   \* which of Tasks the strings are for
          hay,    \* the nodes of the string
          ndl,    \* the nodes of the other string
          net,    \* the netstring that is made: [at, beg, two, data]
          made    \* what has been printed: at most one [call, ok, behind]

vars == <<task, hay, ndl, net, made>>

Flat(ns) == FlattenSeq(ns)

Init == /\ task \in Tasks
        /\ hay = <<>>
        /\ ndl = <<>>
        /\ net = [at |-> "none", beg |-> 0, two |-> FALSE, data |-> <<>>]
        /\ made = <<>>

(* vstr_add_rep_chr(), vstr_add_non(): into the last node, or into one of  *)
(* their own.                                                              *)
Added(ns, data, fresh) ==
  IF fresh THEN Append(ns, data) ELSE [ns EXCEPT ![Len(ns)] = @ \o data]

CanAdd(ns, data, fresh) ==
  /\ ~fresh => ns # <<>> /\ IsNon(ns[Len(ns)]) = IsNon(data)
  /\ fresh => Len(ns) < task.nodes

AddHay(b, n, fresh) ==
  LET data == [k \in 1 .. n |-> b] IN
  /\ made = <<>>
  /\ Len(Flat(hay)) + n <= task.hay
  /\ CanAdd(hay, data, fresh)
  /\ hay' = Added(hay, data, fresh)
  /\ net' = IF net.at = "open" THEN [net EXCEPT !.data = @ \o data] ELSE net
  /\ UNCHANGED <<task, ndl, made>>

AddNdl(b, fresh) ==
  /\ Len(Flat(ndl)) < task.ndl
  /\ CanAdd(ndl, <<b>>, fresh)
  /\ ndl' = Added(ndl, <<b>>, fresh)
  /\ UNCHANGED <<task, hay, net, made>>

(* vstr_add_netstr_beg() or vstr_add_netstr2_beg() *)
OpenNetstr(two) ==
  /\ task.name = "netstr" /\ net.at = "none"
  /\ Len(Flat(hay)) + UlongMaxLen + 1 <= task.hay
  /\ Len(hay) < task.nodes
  /\ hay' = NetstrBeg(hay)
  /\ net' = [at |-> "open", beg |-> Len(Flat(hay)) + 1, two |-> two, data |-> <<>>]
  /\ UNCHANGED <<task, ndl, made>>

(* vstr_add_netstr_end() or vstr_add_netstr2_end(): there may be no memory *)
(* for the comma, or for what vstr_del() has to split.                     *)
CloseNetstr(delfails) ==
  LET end == Len(Flat(hay))
      done == IF net.two THEN [ok |-> TRUE, nodes |-> Netstr2End(hay, net.beg, end)]
              ELSE NetstrEnd(hay, net.beg, end, delfails)
  IN /\ net.at = "open"
     /\ hay' = done.nodes
     /\ net' = IF done.ok THEN [net EXCEPT !.at = "done"] ELSE net
     /\ UNCHANGED <<task, ndl, made>>

(* What a call prints before what is behind its position. *)
Units == <<<<66>>, <<75, 66>>, <<77, 66>>, <<71, 66>>>>

Printed(c, behind) ==
  LET plain(text) == [ok |-> TRUE, out |-> text \o behind]
  IN CASE c.kind = "num" -> plain(AddFmtNumber(c.n))
       [] c.kind = "base2" -> Base2(c.s, c.val, c.large, behind)
       [] c.kind = "buf" -> BufFmt(c.s, c.buf, behind)
       [] c.kind = "bkmg" -> Bkmg(c.s, c.val, Units, behind)
       [] c.kind = "ipv4" -> Ipv4Vec(c.s, c.ips, c.cidr, behind)
       [] c.kind = "ipv6" -> Ipv6Vec(c.s, c.ips, c.type, c.cidr, behind)
       [] c.kind = "netmask" -> plain(Dotted(c.ips) \o <<Slash>> \o Dotted(c.mask))

InNodes(text, size) ==
  IF text = <<>> THEN <<>>
  ELSE IF Len(text) <= size THEN <<text>>
  ELSE <<SubSeq(text, 1, size), SubSeq(text, size + 1, Len(text))>>

(* vstr_add_fmt() at the beginning of the string; a call that fails leaves *)
(* it as it was.                                                           *)
AddFmt(c, size) ==
  \E r \in {Printed(c, Flat(hay))} :
    /\ hay' = IF r.ok THEN InNodes(r.out, size) ELSE hay
    /\ made' = <<[call |-> c, ok |-> r.ok, behind |-> Flat(hay)]>>
    /\ UNCHANGED <<task, ndl, net>>

Next ==
  \/ \E b \in task.bytes, n \in task.chunks, fresh \in BOOLEAN : AddHay(b, n, fresh)
  \/ \E b \in task.bytes, fresh \in BOOLEAN : AddNdl(b, fresh)
  \/ \E two \in BOOLEAN : OpenNetstr(two)
  \/ \E delfails \in BOOLEAN : CloseNetstr(delfails)
  \/ /\ task.name = "print" /\ made = <<>>
     /\ \E c \in Prints, size \in task.chunks : AddFmt(c, size)

Spec == Init /\ [][Next]_vars

-----------------------------------------------------------------------------
(* What is asked about: every part of the string, as [pos, len].           *)

PartsOf(size) == {q \in [pos : 1 .. size, len : 0 .. size] : q.pos + q.len - 1 <= size}

Low(s) == [k \in DOMAIN s |-> ToLower(s[k])]

(* A buffer is all data or all NON. *)
Pure(s) == s # <<>> /\ \A k \in DOMAIN s : (s[k] = Non) = (s[1] = Non)

Matches(s, q, str) ==
  {p \in q.pos .. q.pos + q.len - Len(str) : SubSeq(s, p, p + Len(str) - 1) = str}

(* What a search for a buffer has to return in a part of the string. *)
BufRight(q, s, str) ==
  LET found == Matches(s, q, str)
      cased == Matches(Low(s), q, Low(str))
      dull == IsNon(str) /\ Len(str) = 1
  IN /\ SrchBufFwd(hay, q.pos, q.len, str, FALSE) = LeastOf(found)
     /\ \A fast \in BOOLEAN : SrchBufRev(hay, q.pos, q.len, str, fast) = MostOf(found)
     /\ SrchBufFwd(hay, q.pos, q.len, str, TRUE) = LeastOf(cased)
     /\ dull \/ \A fast \in BOOLEAN :
                  SrchCaseBufRev(hay, q.pos, q.len, str, fast) = MostOf(cased)

(* And one for a string of several nodes. *)
VstrRight(q, s, str) ==
  LET found == Matches(s, q, str)
      cased == Matches(Low(s), q, Low(str))
  IN /\ SrchVstrFwd(hay, q.pos, q.len, ndl, FALSE) = LeastOf(found)
     /\ SrchVstrRev(hay, q.pos, q.len, ndl, FALSE) = MostOf(found)
     /\ SrchVstrFwd(hay, q.pos, q.len, ndl, TRUE) = LeastOf(cased)
     /\ SrchVstrRev(hay, q.pos, q.len, ndl, TRUE) = MostOf(cased)

(* The longest run of bytes of S that a part begins, or ends, with. *)
PrefixOf(s, q, S) ==
  Max({n \in 0 .. q.len : \A k \in q.pos .. q.pos + n - 1 : s[k] \in S})

SuffixOf(s, q, S) ==
  Max({n \in 0 .. q.len : \A k \in q.pos + q.len - n .. q.pos + q.len - 1 : s[k] \in S})

SpansRight(q, s, S, T) ==
  /\ SpnFwd(hay, q.pos, q.len, S) = PrefixOf(s, q, S)
  /\ CspnFwd(hay, q.pos, q.len, S) = PrefixOf(s, q, T)
  /\ AfterSpn(CspnFwd(hay, q.pos, q.len, S), q.pos, q.len) =
       LeastOf({k \in q.pos .. q.pos + q.len - 1 : s[k] \in S})
  /\ \A fast \in BOOLEAN :
       /\ SpnRev(hay, q.pos, q.len, S, fast) = SuffixOf(s, q, S)
       /\ CspnRev(hay, q.pos, q.len, S, fast) = SuffixOf(s, q, T)
       /\ BeforeSpn(SpnRev(hay, q.pos, q.len, S, fast), q.pos, q.len) =
            MostOf({k \in q.pos .. q.pos + q.len - 1 : s[k] \notin S})

(* A search of any part of a string finds the first, or the last, match,   *)
(* and a span is as long as the run of bytes it stands for, whatever nodes *)
(* the data and the needle are in, in both directions, with the iovec      *)
(* cache and without, with NON data, and in either case                    *)
(* (vstr_srch_buf_fwd(), vstr_srch_vstr_rev(), vstr_spn_chrs_fwd(),        *)
(* vstr_cspn_chrs_rev() ...).  A needle of one byte is found as a buffer:  *)
(* the searches for a string do not look at the last position.             *)
SrchRight ==
  task.name = "srch" =>
    \A q \in PartsOf(Len(Flat(hay))) :
      LET s == Flat(hay)
          str == Flat(ndl)
          bytes == {str[k] : k \in DOMAIN str}
      IN /\ Pure(str) => /\ BufRight(q, s, str)
                         /\ SpansRight(q, s, bytes, AllBut(hay, bytes))
         /\ Len(str) > 1 => VstrRight(q, s, str)

(* The order of two sequences of bytes; NON is less than any byte. *)
Order(a, b) ==
  LET at == LeastOf({k \in 1 .. Least(Len(a), Len(b)) : a[k] # b[k]})
  IN Sign(IF at = 0 THEN Len(a) - Len(b) ELSE a[at] - b[at])

Value(ds, base) == FoldLeft(LAMBDA v, d : base * v + d, 0, ds)

IsPlainNumber(s) == s # <<>> /\ s[1] # 48 /\ \A k \in DOMAIN s : IsDigit(s[k])

OrderRight(q, a, b) ==
  \A case \in BOOLEAN :
    LET right == Order(IF case THEN Low(a) ELSE a, IF case THEN Low(b) ELSE b)
    IN /\ Sign(Cmp(hay, q.pos, q.len, ndl, 1, Len(b), case)) = right
       /\ Pure(b) => Sign(CmpBuf(hay, q.pos, q.len, b, case)) = right

(* Nothing but the bytes counts, each argument is the other's opposite,    *)
(* and numbers are compared by value.                                      *)
VersRight(q, a, b) ==
  LET ret == Sign(CmpVers(hay, q.pos, q.len, ndl, 1, Len(b)))
      one(s) == IF s = <<>> THEN <<>> ELSE <<s>>
  IN /\ ret = -Sign(CmpVers(ndl, 1, Len(b), hay, q.pos, q.len))
     /\ Pure(a) /\ Pure(b) => ret = Sign(CmpVers(one(a), 1, Len(a), one(b), 1, Len(b)))
     /\ ret = 0 <=> a = b
     /\ IsPlainNumber(a) /\ IsPlainNumber(b) =>
          ret = Sign(Value([k \in DOMAIN a |-> a[k] - 48], 10)
                     - Value([k \in DOMAIN b |-> b[k] - 48], 10))

(* A comparison gives the order of the bytes, with and without case,       *)
(* whatever nodes they are in (vstr_cmp(), vstr_cmp_buf() ...); one of     *)
(* versions never says of two strings that each is less than the other,    *)
(* nor that different ones are the same, and orders numbers by value       *)
(* (vstr_cmp_vers()).                                                      *)
CmpRight ==
  task.name \in {"srch", "vers"} =>
    \A q \in PartsOf(Len(Flat(hay))) :
      LET a == SubSeq(Flat(hay), q.pos, q.pos + q.len - 1)
          b == Flat(ndl)
      IN IF task.name = "srch" THEN OrderRight(q, a, b) ELSE VersRight(q, a, b)

-----------------------------------------------------------------------------
(* Numbers, as they are documented: spaces, a sign, a prefix, digits, with *)
(* separators between them.                                                *)

(* The ways to read the whole of s as a number: the parts of s end at i,   *)
(* at j and at k.                                                          *)
Readings(s, base, flags) ==
  {r \in {[i |-> i, j |-> i + sign, k |-> i + sign + prefix, base |-> b] :
            i \in 0 .. Len(s), sign \in {0, 1}, prefix \in {0, 2},
            b \in IF base = 0 THEN {2, 8, 10, 16} ELSE {base}} :
     /\ r.k < Len(s)
     /\ \A x \in 1 .. r.i : s[x] = Space /\ "SPACE" \in flags
     /\ r.j > r.i => s[r.j] \in {Plus, Minus} /\ "NO_BEG_PM" \notin flags
     /\ IF r.k = r.j
        THEN base = 0 => r.base = IF s[r.k + 1] = Zero THEN 8 ELSE 10
        ELSE /\ s[r.j + 1] = Zero
             /\ \/ s[r.k] \in {120, 88} /\ r.base = 16
                \/ s[r.k] \in {98, 66} /\ r.base = 2
     /\ \A x \in r.k + 1 .. Len(s) :
          \/ DigitOf(s[x], r.base) < r.base
          \/ s[x] = Sep /\ "SEP" \in flags /\ (x > r.k + 1 \/ r.k > r.j)
     /\ "NO_BEG_ZERO" \in flags /\ s[r.k + 1] = Zero => r.k + 1 = Len(s)}

DigitsIn(s, r) ==
  LET ds == SelectSeq(SubSeq(s, r.k + 1, Len(s)), LAMBDA b : b # Sep)
  IN [x \in DOMAIN ds |-> DigitOf(ds[x], r.base)]

IsNeg(s, r) == r.j > r.i /\ s[r.j] = Minus

Exact(s, r) == Value(DigitsIn(s, r), r.base) * IF IsNeg(s, r) THEN -1 ELSE 1

Fits(t, v) ==
  IF t.signed THEN v >= -NumMax(t) - 1 /\ v <= NumMax(t) ELSE v >= 0 /\ v < 2 ^ t.bits

(* An overflow by the digit that is added, after a multiplication that     *)
(* does not overflow, is not seen unless the arithmetic is wider.          *)
Unseen(t, s, r) ==
  ~t.promoted /\ \E n \in 1 .. Len(DigitsIn(s, r)) :
     LET v == Value(SubSeq(DigitsIn(s, r), 1, n - 1), r.base) * r.base
     IN v < 2 ^ t.bits /\ v + DigitsIn(s, r)[n] >= 2 ^ t.bits

(* A prefix of the other base is skipped in base 2 and 16. *)
OtherPrefix(s, base) ==
  \E k \in 1 .. Len(s) - 1 : /\ s[k] = Zero
                             /\ s[k + 1] \in IF base = 16 THEN {98, 66} ELSE {120, 88}
                             /\ base \in {2, 16}

ReadRight(s, t, flags, num, r, v) ==
  /\ Fits(t, v) /\ (IsNeg(s, r) => t.signed /\ v # 0 /\ "NO_NEGATIVE" \notin flags)
       => num = [ret |-> v, len |-> Len(s), err |-> "NONE"]
  /\ num.err = "NONE" => Wrap(t, num.ret) = Wrap(t, v)
  /\ num.err = "OVERFLOW" => ~Fits(t, v) \/ (IsNeg(s, r) /\ v = 0)
  /\ "OVERFLOW" \in flags /\ num.err = "NONE" => Fits(t, v) \/ Unseen(t, s, r)

NumRightFor(s, t, base, flags, num, rs) ==
  /\ \A r \in rs : ReadRight(s, t, flags, num, r, Exact(s, r))
  /\ num.err = "NONE" => num.len = Len(s) /\ rs # {}
  /\ num.err = "OOB" /\ num.len > 0 =>
       ParseNum(hay, 1, num.len, t, base, flags).ret = num.ret

(* A number is parsed exactly: a string that is one, and fits its type,    *)
(* gives its value without an error; one that gives no error is a number,  *)
(* and the value is right, modulo the type when overflows are not looked   *)
(* for; an overflow is seen but for those of Unseen; and what is parsed    *)
(* before something else has the value it has alone (vstr_parse_int() ...).*)
NumRight ==
  task.name = "num" /\ hay # <<>> =>
    \A base \in NumBases, flags \in NumFlags :
      \/ OtherPrefix(Flat(hay), base)
      \/ "NO_BEG_ZERO" \in flags /\ base \in {0, 2, 16}
      \/ \E rs \in {Readings(Flat(hay), base, flags)} : \A t \in NumTypes :
           NumRightFor(Flat(hay), t, base, flags,
                       ParseNum(hay, 1, Len(Flat(hay)), t, base, flags), rs)

-----------------------------------------------------------------------------
(* The netstrings a string begins with: the length of its digits and of    *)
(* its data.                                                               *)
NetstrsIn(s, two) ==
  {r \in [num : 1 .. Len(s), data : 0 .. Len(s)] :
     /\ r.num + r.data + 2 <= Len(s)
     /\ \A k \in 1 .. r.num : IsDigit(s[k])
     /\ r.num > 1 /\ ~two => s[1] # Zero
     /\ s[r.num + 1] = Colon
     /\ s[r.num + r.data + 2] = Comma
     /\ Value([k \in 1 .. r.num |-> s[k] - 48], 10) = r.data}

HasSign(s) == s[1] \in {Plus, Minus}

(* The value of the digits before the colon of what was parsed. *)
LenRead(s, got) ==
  LET first == IF HasSign(s) THEN 2 ELSE 1
  IN Value([k \in 1 .. got.pos - 1 - first |-> s[first + k - 1] - 48], 10)

(* The netstrings that are there are parsed.  What else is parsed begins   *)
(* with a sign, which vstr_parse_ulong() takes, or has a length that       *)
(* overflows, which is not looked at; that too has its colon before its    *)
(* data, its comma right behind it, and both in the string, though the     *)
(* length with the digits and the two may wrap.                            *)
ParsesRight(s, two, got) ==
  /\ \A r \in NetstrsIn(s, two) :
       got = [len |-> r.num + r.data + 2, pos |-> r.num + 2, data |-> r.data]
  /\ got.len # 0 =>
       /\ got.len <= Len(s) /\ s[got.len] = Comma
       /\ s[got.pos - 1] = Colon /\ got.pos + got.data = got.len
       /\ got.data = LenRead(s, got) % 2 ^ UlongBits
       /\ NetstrsIn(s, two) # {} \/ HasSign(s) \/ LenRead(s, got) >= 2 ^ UlongBits

(* The netstring that was made is the one that is parsed, whatever is put  *)
(* behind it: its data is what was added between its beginning and its     *)
(* end.                                                                    *)
MadeRight(s, got) ==
  /\ got.len # 0
  /\ SubSeq(s, got.pos, got.pos + got.data - 1) = net.data
  /\ got.pos + got.data = net.beg + got.len - 1

(* A netstring is parsed where there is one, and nowhere else but for the  *)
(* signs and the lengths of ParsesRight; nothing is parsed that is not in  *)
(* the string, whatever wraps; a netstring that is made is parsed as it    *)
(* was made, with any data; and one whose end fails for want of memory is  *)
(* as it was before (vstr_parse_netstr(), vstr_add_netstr_beg(),           *)
(* vstr_add_netstr2_end() ...).                                            *)
NetstrRight ==
  task.name = "netstr" /\ hay # <<>> =>
    /\ net.at = "none" => \A two \in BOOLEAN :
         ParsesRight(Flat(hay), two, ParseNetstr(hay, 1, Len(Flat(hay)), two))
    /\ net.at = "open" =>
         SubSeq(Flat(hay), net.beg + UlongMaxLen, Len(Flat(hay))) = <<Colon>> \o net.data
    /\ net.at = "done" =>
         MadeRight(Flat(hay),
                   ParseNetstr(hay, net.beg, Len(Flat(hay)) - net.beg + 1, net.two))

-----------------------------------------------------------------------------
(* What printf() prints, by the C standard.  Digits are separated counting *)
(* from the right: the last size of the grouping is repeated.              *)

GroupEnds(max) ==
  LET size(k) == Grouping[Least(k, Len(Grouping))]
  IN {FoldLeft(+, 0, [k \in 1 .. n |-> size(k)]) : n \in 1 .. max}

Separated(ds) ==
  FlattenSeq([i \in 1 .. Len(ds) |->
                <<ds[i]>> \o IF i < Len(ds) /\ Len(ds) - i \in GroupEnds(Len(ds))
                             THEN ThouSep ELSE <<>>])

Field(s, head, body) ==
  LET n == Less(s.width, Len(head) + Len(body))
  IN IF s.minus THEN head \o body \o Spaces(n)
     ELSE IF s.zero THEN head \o Zeros(n) \o body ELSE Spaces(n) \o head \o body

AtLeast(n, ds) == Zeros(Less(n, Len(ds))) \o ds

NumberText(n) ==
  LET digs == Digs(n.val, n.base, n.large)
      ds == AtLeast(IF n.prec = None THEN 1 ELSE n.prec,
                    IF n.quote THEN Separated(digs) ELSE digs)
      octal == n.hash /\ n.base = 8 /\ (ds = <<>> \/ ds[1] # Zero)
      hex == n.hash /\ n.base = 16 /\ n.val # 0
  IN Field([n EXCEPT !.zero = @ /\ n.prec = None],
           SignOf(n) \o IF ~hex THEN <<>> ELSE <<Zero, IF n.large THEN 88 ELSE 120>>,
           IF octal THEN <<Zero>> \o ds ELSE ds)

(* The whole units of a size, and as much of the rest as is asked for. *)
SizeText(val, prec) ==
  LET u == Unit(val)
      n == Least(3 * u, IF prec = None THEN 2 ELSE prec)
      rest == (val % 1000 ^ u) \div 10 ^ (3 * u - n)
  IN Plain(val \div 1000 ^ u, 10)
     \o (IF n = 0 THEN <<>> ELSE <<Dot>> \o AtLeast(n, Digs(rest, 10, TRUE)))
     \o Units[u + 1]

Signed(s) == SignOf([signed |-> TRUE, neg |-> FALSE, plus |-> s.plus, space |-> s.space])

Binary(c) ==
  Field(c.s, Signed(c.s) \o (IF c.s.hash THEN <<Zero, IF c.large THEN 66 ELSE 98>> ELSE <<>>),
        AtLeast(c.s.prec, IF c.s.quote THEN Separated(Plain(c.val, 2)) ELSE Plain(c.val, 2)))

RightText(c) ==
  LET text(body) == Field([c.s EXCEPT !.zero = FALSE], <<>>, body)
  IN CASE c.kind = "num" -> NumberText(c.n)
       [] c.kind = "base2" -> Binary(c)
       [] c.kind = "buf" -> text(IF c.s.prec = None THEN c.buf
                                 ELSE SubSeq(c.buf, 1, Least(c.s.prec, Len(c.buf))))
       [] c.kind = "bkmg" -> Field(c.s, Signed(c.s), SizeText(c.val, c.s.prec))
       [] c.kind = "ipv4" -> text(Dotted(c.ips) \o Slashed(c.cidr))
       [] c.kind = "ipv6" -> text(PrntIpv6(c.ips, c.type) \o Slashed(c.cidr))
       [] c.kind = "netmask" -> Dotted(c.ips) \o <<Slash>> \o Dotted(c.mask)

(* The runs of zeros of an address, as [from, to]. *)
ZeroRuns(words) ==
  {r \in [from : DOMAIN words, to : DOMAIN words] :
     /\ r.from <= r.to
     /\ \A i \in r.from .. r.to : words[i] = 0
     /\ r.from > 1 => words[r.from - 1] # 0
     /\ r.to < Len(words) => words[r.to + 1] # 0}

Size(r) == r.to - r.from + 1

(* The address ends with "::", or the hexadecimal part of it does. *)
EndsOpen(words) ==
  \E r \in ZeroRuns(words) :
    /\ r.to = Len(words)
    /\ \A o \in ZeroRuns(words) : o # r => Size(o) < Size(r)

(* The length that is announced is one too many. *)
TooLong(c) ==
  LET words == HexPart(c.ips, c.type)
      before == {r \in ZeroRuns(words) : r.to # Len(words)}
  IN /\ c.kind = "ipv6" /\ IsCompact(c.type) /\ EndsOpen(words)
     /\ \/ c.type = "IPV4_COMPACT"
        \/ \E r \in before : r.from = 1 /\ \A o \in before : o # r => Size(o) < Size(r)

(* Where the formatters do not do what is asked: a "-" or a width where    *)
(* the length is wrong; a "0" with a "-" or a precision; separators        *)
(* without a "'"; a width beyond the precision of a string.                *)
Known(c) ==
  CASE c.kind = "ipv6" -> TooLong(c) /\ (c.s.minus \/ c.s.width > 0)
    [] c.kind = "base2" -> \/ c.s.zero /\ (c.s.minus \/ c.s.prec # None)
                           \/ ~c.s.quote /\ Separated(Plain(c.val, 2)) # Plain(c.val, 2)
    [] c.kind = "bkmg" -> c.s.zero /\ c.s.minus
    [] c.kind = "buf" -> c.s.prec # None /\ c.s.width > c.s.prec
    [] OTHER -> FALSE

(* Where the text without its padding is, as [pos, len]. *)
Inner(text) ==
  LET at == {k \in DOMAIN text : text[k] # Space}
  IN [pos |-> LeastOf(at), len |-> MostOf(at) - LeastOf(at) + 1]

IsHex(b) == DigitOf(b, 16) < 16

(* A number is parsed as it was printed, but for one without digits; "0b"  *)
(* is skipped in base 16.                                                  *)
NumReadsBack(n, text) ==
  LET base == IF n.hash /\ n.base # 10 THEN 0 ELSE n.base
      upto == MostOf({k \in DOMAIN text : text[k] # Space})
      num == ParseNum(hay, 1, upto, [Uint EXCEPT !.signed = TRUE], base,
                      {"SPACE", "SEP", "OVERFLOW"})
  IN \/ n.val = 0 /\ n.prec = 0
     \/ OtherPrefix(text, base)
     \/ num = [ret |-> IF n.neg THEN -n.val ELSE n.val, len |-> upto, err |-> "NONE"]

(* What a conversion prints is laid out as it was asked for, whatever is   *)
(* behind it, flags, width and precision together, but for what Known      *)
(* says; and the number that was printed is the one that is parsed         *)
(* (vstr__add_fmt_number(), vstr_sc_fmt_cb_beg(), vstr_sc_fmt_cb_end() and *)
(* the formatters that use them).                                          *)
PrintRight ==
  \A k \in DOMAIN made :
    LET c == made[k].call IN
    /\ ~Known(c) => made[k].ok /\ Flat(hay) = RightText(c) \o made[k].behind
    /\ c.kind = "num" => NumReadsBack(c.n, RightText(c))

-----------------------------------------------------------------------------
(* Addresses, as the comments of src/vstr_parse.c have them. *)

Fields(s, sep) ==
  LET ends == {0, Len(s) + 1} \cup {k \in DOMAIN s : s[k] = sep}
      at(i) == CHOOSE e \in ends : Cardinality({x \in ends : x < e}) = i
  IN [i \in 1 .. Cardinality(ends) - 1 |-> SubSeq(s, at(i - 1) + 1, at(i) - 1)]

IsWord(f) == Len(f) \in 1 .. 4 /\ \A k \in DOMAIN f : IsHex(f[k])

WordsOf(s) == IF s = <<>> THEN <<>> ELSE Fields(s, Colon)

Values(fs) == [i \in DOMAIN fs |-> Value([k \in DOMAIN fs[i] |-> DigitOf(fs[i][k], 16)], 16)]

(* The addresses that s is a notation of. *)
Ipv6Of(s) ==
  LET words(fs) == \A i \in DOMAIN fs : IsWord(fs[i])
      l(k) == WordsOf(SubSeq(s, 1, k - 1))
      r(k) == WordsOf(SubSeq(s, k + 2, Len(s)))
      full == WordsOf(s)
  IN (IF Len(full) = 8 /\ words(full) THEN {Values(full)} ELSE {})
     \cup {Values(l(k)) \o Rep(0, 8 - Len(l(k)) - Len(r(k))) \o Values(r(k)) :
             k \in {x \in 1 .. Len(s) - 1 :
                      /\ s[x] = Colon /\ s[x + 1] = Colon
                      /\ words(l(x)) /\ words(r(x)) /\ Len(l(x)) + Len(r(x)) < 8}}

IsByte(f, zeros) ==
  /\ Len(f) \in 1 .. 3 /\ \A k \in DOMAIN f : IsDigit(f[k])
  /\ f[1] = Zero => zeros \/ Len(f) = 1
  /\ Value([k \in DOMAIN f |-> f[k] - 48], 10) <= 255

(* Whole addresses are parsed exactly where there is one. *)
Ipv4Right(s, zeros, got, fs) ==
  LET right == Len(fs) = 4 /\ \A i \in DOMAIN fs : IsByte(fs[i], zeros)
  IN /\ right <=> got.ok /\ got.err = "NONE"
     /\ right => /\ got.len = Len(s) /\ got.cidr = 32
                 /\ got.ips = [i \in 1 .. 4 |-> Value([k \in DOMAIN fs[i] |-> fs[i][k] - 48], 10)]

EndsWithColons(s) == Len(s) > 1 /\ s[Len(s)] = Colon /\ s[Len(s) - 1] = Colon

(* A colon, or a third one, at the beginning is skipped. *)
StartsOddly(s) == s[1] = Colon /\ (s[2] # Colon \/ (Len(s) > 2 /\ s[3] = Colon))

Ipv6Right(s, got) ==
  /\ ~EndsWithColons(s) => \A a \in Ipv6Of(s) : got = Ip(TRUE, a, 128, Len(s), "NONE")
  /\ got.ok /\ got.err = "NONE" /\ ~StartsOddly(s) => got.ips \in Ipv6Of(s)

(* The length of a mask: ones, then zeros, or none. *)
MaskLen(mask) ==
  {n \in 0 .. 32 : \A i \in 1 .. 4, b \in 0 .. 7 :
     (mask[i] \div 2 ^ (7 - b)) % 2 = IF 8 * (i - 1) + b < n THEN 1 ELSE 0}

NetmaskRight(c, len) ==
  \A flags \in {{"FULL", "NETMASK", "ONLY"},
                 {"FULL", "CIDR", "NETMASK", "NETMASK_FULL", "ONLY"}} :
    \E got \in {ParseIpv4(hay, 1, len, flags)} :
      "CIDR" \notin flags \/ c.mask[1] > 32 =>
        /\ got.ok <=> MaskLen(c.mask) # {}
        /\ \A n \in MaskLen(c.mask) : got = Ip(TRUE, c.ips, n, len, "NONE")

Read(kind, q, flags) ==
  IF kind = "ipv4" THEN ParseIpv4(hay, q.pos, q.len, flags)
                   ELSE ParseIpv6(hay, q.pos, q.len, flags)

AddressReadsBack(c, q) ==
  LET whole == IF c.kind = "ipv4" THEN 32 ELSE 128
  IN Read(c.kind, q, {"CIDR", "CIDR_FULL", "ONLY"})
       = Ip(TRUE, c.ips, IF c.cidr = None THEN whole ELSE c.cidr, q.len, "NONE")

(* The printed addresses that are not parsed: those that end with "::" and *)
(* those with a word that begins with "0B".                                *)
Unread(c) ==
  c.kind = "ipv6" /\
  \/ c.type = "COMPACT" /\ c.cidr = None /\ EndsOpen(c.ips)
  \/ IsAligned(c.type) /\ \E i \in DOMAIN HexPart(c.ips, c.type) : c.ips[i] \div 256 = 11

(* An address is parsed where there is one, with its value, its mask and   *)
(* its length, and nothing else is an address, but for what Ipv6Right      *)
(* leaves out; and what a formatter has printed, at any place of its       *)
(* field, is parsed as the address and the mask that were printed, but for *)
(* what Unread says (vstr_parse_ipv4(), vstr_parse_ipv6(),                 *)
(* vstr__sc_fmt_add_cb_ipv6_vec_cidr() ...).                               *)
IpRight ==
  /\ task.name = "ipv4" /\ hay # <<>> => \A zeros \in BOOLEAN :
       Ipv4Right(Flat(hay), zeros,
                 ParseIpv4(hay, 1, Len(Flat(hay)),
                           {"FULL", "ONLY"} \cup IF zeros THEN {"ZEROS"} ELSE {}),
                 Fields(Flat(hay), Dot))
  /\ task.name = "ipv6" /\ Len(Flat(hay)) > 1 =>
       Ipv6Right(Flat(hay), ParseIpv6(hay, 1, Len(Flat(hay)), {"ONLY"}))
  /\ \A k \in DOMAIN made :
       LET c == made[k].call IN
       /\ c.kind \in {"ipv4", "ipv6"} =>
            Known(c) \/ Unread(c) \/ AddressReadsBack(c, Inner(RightText(c)))
       /\ c.kind = "netmask" => NetmaskRight(c, Len(RightText(c)))

(* "Note this means that "::" is a valid ipv6 address (all zeros)", and    *)
(* "Any number of 0000 may be abbreviated as "::"": the comment on         *)
(* vstr_parse_ipv6() in src/vstr_parse.c.                                  *)
Ipv6Documented ==
  task.name = "ipv6" /\ Len(Flat(hay)) > 1 =>
    \A a \in Ipv6Of(Flat(hay)) :
      ParseIpv6(hay, 1, Len(Flat(hay)), {"ONLY"}) = Ip(TRUE, a, 128, Len(Flat(hay)), "NONE")
=============================================================================
