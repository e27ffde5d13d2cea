------------------------------ MODULE VstrOps ------------------------------
(***************************************************************************)
(* The calls that are built on adding and deleting: substitution, moving   *)
(* and copying within a string and between two strings of one              *)
(* configuration, reading into spare nodes and writing from the iovec      *)
(* cache.  Translated from src/vstr_sub.c, src/vstr_mov.c, src/vstr_add.c, *)
(* src/vstr_sc_posix.c and src/vstr.c.                                     *)
(*                                                                         *)
(* AnyOps admits the calls that the code is known to get wrong; each has a *)
(* condition below that says which ones they are.                          *)
(***************************************************************************)
EXTENDS VstrNodes

CONSTANTS
  SubInputs,   \* what vstr_sub_*() puts into the string
  OtherMax,    \* bound: the length of the other string
  AllBufs,     \* of BOOLEAN: is data copied as VSTR_TYPE_ADD_ALL_BUF?
  IovOffsets,  \* the values conf->iov_min_offset is set to
  GrpIovec,    \* does the configuration allocate the iovec cache with a base?
  FillSizes,   \* <<min, max>>, the spare nodes that are read into
  FillMax,     \* bound: the bytes that are read in one call
  AnyOps       \* are the calls made that the code gets wrong?

ASSUME OpsAssumption ==
  /\ {OtherMax, FillMax} \subseteq Nat
  /\ AllBufs \subseteq BOOLEAN
  /\ IovOffsets \subseteq Nat
  /\ {GrpIovec, AnyOps} \subseteq BOOLEAN
  /\ \A s \in FillSizes : s \in (Nat \ {0}) \X (Nat \ {0}) /\ s[1] <= s[2]
  /\ \A in \in SubInputs : in.type \in NodeTypes /\ in.len \in Nat \ {0}

VARIABLES other,  \* another Vstr_base of the configuration
          bad     \* conf->malloc_bad, which a call that fails sets

opsVars == <<base, conf, call, other, bad>>

Least(x, y) == IF x < y THEN x ELSE y

Most(x, y) == IF x > y THEN x ELSE y

Ok(b, c) == [b |-> b, c |-> c, ok |-> TRUE]

Fail(b, c) == [b |-> b, c |-> c, ok |-> FALSE]

Buf(bytes) == [type |-> "BUF", len |-> Len(bytes), data |-> bytes]

-----------------------------------------------------------------------------
(* Iterating *)

(* What vstr_iter_fwd_beg() and vstr_iter_fwd_nxt() visit: the parts of    *)
(* the nodes, [i, off, len], that hold len bytes from f on.                *)
Pieces(b, f, len) ==
  LET a == Upto(b.nodes, f.i - 1) + f.p - 1
      z == a + len
      last == CHOOSE j \in f.i .. Len(b.nodes) :
                Upto(b.nodes, j - 1) < z /\ z <= Upto(b.nodes, j)
      from(j) == Most(a, Upto(b.nodes, j - 1))
  IN  [k \in 1 .. last - f.i + 1 |->
        [i |-> f.i + k - 1,
         off |-> from(f.i + k - 1) - Upto(b.nodes, f.i + k - 2),
         len |-> Least(z, Upto(b.nodes, f.i + k - 1)) - from(f.i + k - 1)]]

TypeOfPiece(b, p) == b.nodes[p.i].type

(* How many bytes of the pieces are not in BUF nodes. *)
NotBuf(b, ps) ==
  FoldLeft(LAMBDA n, p : IF TypeOfPiece(b, p) = "BUF" THEN n ELSE n + p.len, 0, ps)

(* VSTR__ITER_EQ_ALL_NODE() *)
EqAllNode(b, ps) ==
  LET skip == IF ps[1].i = 1 THEN b.used ELSE 0
  IN  Len(ps) = 1 /\ ps[1].off = skip
                  /\ ps[1].len = NLen(b.nodes[ps[1].i]) - skip

-----------------------------------------------------------------------------
(* Substitution *)

(* vstr_del() of what may lie outside of the string. *)
DelIn(b, c, pos, len) ==
  CASE len = 0 -> Ok(b, c)
    [] len > 0 /\ (pos = 0 \/ pos + len - 1 > b.len) -> Fail(b, c)
    [] OTHER -> DelOp(b, c, pos, len)

(* Add the input, then delete what it replaces. *)
ThenDel(r, pos, len) == IF r.ok THEN DelIn(r.b, r.c, pos, len) ELSE r

SimpleSub(b, c, pos, len, in) ==
  ThenDel(AddOp(b, c, pos - 1, in), pos + in.len, len)

(* Bytes are copied over the ones from f on. *)
Overwrite(b, f, bytes) ==
  LET a == Upto(b.nodes, f.i - 1) + f.p - 1
      put(j, x, old) == LET y == Upto(b.nodes, j - 1) + x - a
                        IN  IF y \in 1 .. Len(bytes) THEN bytes[y] ELSE old
  IN  [b EXCEPT !.nodes =
        [j \in DOMAIN b.nodes |->
           [b.nodes[j] EXCEPT !.data = [x \in DOMAIN @ |-> put(j, x, @[x])]]]]

(* vstr__sub_buf_fast() *)
SubBufFastAt(b, c, pos, bytes, f) == Ok(Overwrite(CachePos(b, pos, f), f, bytes), c)

SubBufFast(b, c, pos, bytes) ==
  IF bytes = <<>> THEN Ok(b, c) ELSE SubBufFastAt(b, c, pos, bytes, BasePos(b, pos))

(* The second loop of vstr__sub_buf_slow(): the pieces that are not in BUF *)
(* nodes are deleted one by one; pos advances past them all the same.      *)
Passed(r, pos, p) == [b |-> r.b, c |-> r.c, pos |-> pos + p.len]

DelPieces(b, c, pos, ps) ==
  FoldLeft(LAMBDA s, p :
             Passed(DelIn(s.b, s.c, s.pos, IF TypeOfPiece(b, p) = "BUF" THEN 0 ELSE p.len),
                    s.pos, p),
           [b |-> b, c |-> c, pos |-> pos], ps)

(* What a call returns whose result the code does not look at. *)
Unchecked(r) == Ok(r.b, r.c)

(* Mutant: the rest of the input is put one byte too early. *)
SubRestMutant(r, pos, bytes) ==
  IF bytes = <<>> THEN r ELSE Unchecked(AddOp(r.b, r.c, pos - 2, Buf(bytes)))

(* And its end: what the first bytes did not have room for is added. *)
SubRest(r, pos, bytes) ==
  IF bytes = <<>> THEN r ELSE Unchecked(AddOp(r.b, r.c, pos - 1, Buf(bytes)))

SubKept(s, pos, in, kept, del) ==
  SubRest(ThenDel(SubBufFast(s.b, s.c, pos, SubSeq(in.data, 1, kept)), pos + kept, del),
          pos + kept, SubSeq(in.data, kept + 1, in.len))

SubBufMixed(b, e, pos, len, in, ps, not) ==
  IF ~e.ok THEN Fail(b, e.c)
  ELSE SubKept(DelPieces(b, e.c, pos, ps), pos, in, Least(len, in.len) - not,
               Most(len - in.len, 0))

(* vstr__sub_buf_slow(): the data of BUF nodes is overwritten, other nodes *)
(* are deleted and the rest is added, unless nothing can be overwritten.   *)
SubBufSlow(b, c, pos, len, in, ps, not) ==
  LET add == Most(in.len - len, 0) + not
  IN  IF not = Least(len, in.len) THEN SimpleSub(b, c, pos, len, in)
      ELSE SubBufMixed(b, IF add > 0 THEN Ensure(c, "BUF", (add \div BufSz) + 2)
                                     ELSE Ok(b, c),
                       pos, len, in, ps, not)

SubBufPieces(b, c, pos, len, in, ps) ==
  SubBufSlow(b, c, pos, len, in, ps, NotBuf(b, ps))

SubBufAt(b, c, pos, len, in, f) ==
  SubBufPieces(CachePos(b, pos, f), c, pos, len, in, Pieces(b, f, Least(len, in.len)))

SubBuf(b, c, pos, len, in) ==
  IF len = in.len /\ b.types = {"BUF"} THEN SubBufFast(b, c, pos, in.data)
  ELSE SubBufAt(b, c, pos, len, in, BasePos(b, pos))

(* vstr__cache_iovec_reset_node() *)
IovecResetNode(b, i, num) ==
  IF ~b.upto THEN b
  ELSE [b EXCEPT !.vec.v[num] = IF num = 1 THEN IovDropFront(Iov(b.nodes[i]), b.used)
                                           ELSE Iov(b.nodes[i])]

(* vstr__swap_node_X_X() *)
SwapNode(b, i, n) ==
  [b EXCEPT !.nodes[i] = n, !.used = IF i = 1 THEN 0 ELSE @,
            !.types = @ \cup {n.type},
            !.end = IF @ = b.nodes[i].id THEN n.id ELSE @,
            !.pc.node = IF @ = b.nodes[i].id THEN n.id ELSE @]

(* vstr_sub_ptr() and vstr_sub_ref() of the data of one whole node: a node *)
(* of the same type is made to point elsewhere, another one is swapped.    *)
Repointed(b, i, in) ==
  LET n == [id |-> FreshId(b, 1), type |-> in.type,
            data |-> [k \in 1 .. in.len |-> InByte(in, k)]]
  IN  IF b.nodes[i].type = in.type THEN [b EXCEPT !.nodes[i].data = n.data]
                                   ELSE SwapNode(b, i, n)

SubCached(b, pos, len, in) ==
  CASE in.len < len -> CacheDel(b, pos)
    [] in.len > len -> CacheAdd(b, pos)
    [] OTHER        -> b

SubResized(b, c, pos, len, f, in) ==
  Ok(SubCached([IovecResetNode(Repointed(b, f.i, in), f.i, f.num)
                  EXCEPT !.len = @ + in.len - len], pos, len, in), c)

SubSwapped(b, e, pos, len, f, in) ==
  IF e.ok THEN SubResized(b, Relink(Take(e.c, in.type, 1), <<b.nodes[f.i]>>),
                          pos, len, f, in)
  ELSE Fail(b, e.c)

SubNode(b, c, pos, len, f, in) ==
  IF b.nodes[f.i].type = in.type THEN SubResized(b, c, pos, len, f, in)
  ELSE SubSwapped(b, Ensure(c, in.type, 1), pos, len, f, in)

SubPtrRefAt(b, c, pos, len, in, f) ==
  IF in.len <= MaxNodeAll /\ EqAllNode(b, Pieces(b, f, len))
  THEN SubNode(CachePos(b, pos, f), c, pos, len, f, in)
  ELSE SimpleSub(CachePos(b, pos, f), c, pos, len, in)

SubPtrRef(b, c, pos, len, in) == SubPtrRefAt(b, c, pos, len, in, BasePos(b, pos))

(* vstr_sub_buf(), vstr_sub_ptr(), vstr_sub_ref() and vstr_sub_non() *)
SubOp(b, c, pos, len, in) ==
  CASE in.type = "BUF" -> SubBuf(b, c, pos, len, in)
    [] in.type = "NON" -> SimpleSub(b, c, pos, len, in)
    [] OTHER           -> SubPtrRef(b, c, pos, len, in)

(* The positions vstr__sub_buf_slow() deletes at are right as long as it   *)
(* deletes once.                                                           *)
PlainSub(b, pos, len, in) ==
  LET ps == Pieces(b, BasePos(b, pos), Least(len, in.len))
  IN  in.type = "BUF" =>
        \/ \A i \in 1 .. Len(ps) : TypeOfPiece(b, ps[i]) # "BUF"
        \/ Cardinality({i \in 1 .. Len(ps) : TypeOfPiece(b, ps[i]) # "BUF"}) <= 1

-----------------------------------------------------------------------------
(* Moving *)

(* vstr__mov_setup_beg(), for the data after pos, and                      *)
(* vstr__mov_setup_end(): make a node end at pos; i is that node and num   *)
(* its number.                                                             *)
MovSetupAt(s, f) == [b |-> s.b, c |-> s.c, ok |-> s.ok, i |-> f.i, num |-> f.num]

MovSetupPos(b, c, pos, f) == MovSetupAt(SetupPos(b, c, pos, f), f)

MovSetup(b, c, pos) ==
  IF pos = 0 THEN MovSetupAt(Ok(ZeroUsed(b), c), Nowhere)
  ELSE MovSetupPos(b, c, pos, BasePos(b, pos))

(* Where data moves within one BUF node; f is pos, g is fpos. *)
MovsInNode(b, f, g, len) ==
  /\ b.nodes[f.i].type = "BUF"
  /\ g.i = f.i
  /\ NLen(b.nodes[f.i]) - len >= g.p

(* vstr__mov_single_node(): data that moves up is not moved down in        *)
(* exchange but copied further up.                                         *)
MovBytes(d, p, q, len) ==
  [x \in DOMAIN d |->
     CASE x \in p + 1 .. p + len -> d[q + x - p - 1]
       [] x \notin p + 1 .. p + len /\ p > q /\ x \in q + len .. p + len -> d[x - len]
       [] x \notin p + 1 .. p + len /\ p <= q /\ x \in p + len + 1 .. q + len - 1 ->
            d[x - len]
       [] OTHER -> d[x]]

MovInNode(b, fpos, f, g, len) ==
  [CachePos(b, fpos, g) EXCEPT !.nodes[f.i].data = MovBytes(@, f.p, g.p, len)]

(* vstr_mov() within a string: the nodes between beg and end go behind     *)
(* con, which is in front of them or behind them.                          *)
Rotate(ns, con, beg, end) ==
  IF con <= beg
  THEN SubSeq(ns, 1, con) \o SubSeq(ns, beg + 1, end) \o SubSeq(ns, con + 1, beg)
       \o SubSeq(ns, end + 1, Len(ns))
  ELSE SubSeq(ns, 1, beg) \o SubSeq(ns, end + 1, con) \o SubSeq(ns, beg + 1, end)
       \o SubSeq(ns, con + 1, Len(ns))

MovRotated(b, c, ns, pos, fpos) ==
  Ok(IovecStale(CacheAdd(CacheDel(
       [b EXCEPT !.nodes = ns, !.end = ns[Len(ns)].id], fpos), pos)), c)

MovNodes(s, con, beg, end, pos, fpos) ==
  IF s.ok THEN MovRotated(s.b, s.c, Rotate(s.b.nodes, con, beg, end), pos, fpos)
  ELSE Fail(s.b, s.c)

(* The places are looked for in the order they have in the string: pos and *)
(* then the data, or the data and then pos.                                *)
MovDownEnd(con, beg, pos, fpos, len, end) ==
  MovNodes(end, con.i, beg.i, end.i, pos, fpos)

MovDownBeg(con, pos, fpos, len, beg) ==
  IF beg.ok THEN MovDownEnd(con, beg, pos, fpos, len,
                            MovSetup(beg.b, beg.c, fpos + len - 1))
  ELSE Fail(beg.b, beg.c)

MovDown(pos, fpos, len, con) ==
  IF con.ok THEN MovDownBeg(con, pos, fpos, len, MovSetup(con.b, con.c, fpos - 1))
  ELSE Fail(con.b, con.c)

MovUpEnd(beg, pos, fpos, end, con) == MovNodes(con, con.i, beg.i, end.i, pos, fpos)

MovUpBeg(beg, pos, fpos, end) ==
  IF end.ok THEN MovUpEnd(beg, pos, fpos, end, MovSetup(end.b, end.c, pos))
  ELSE Fail(end.b, end.c)

MovUp(pos, fpos, len, beg) ==
  IF beg.ok THEN MovUpBeg(beg, pos, fpos, MovSetup(beg.b, beg.c, fpos + len - 1))
  ELSE Fail(beg.b, beg.c)

MovNotInNode(b, c, pos, fpos, len) ==
  IF pos > fpos THEN MovUp(pos, fpos, len, MovSetup(b, c, fpos - 1))
                ELSE MovDown(pos, fpos, len, MovSetup(b, c, pos))

MovFoundFrom(b, c, pos, fpos, len, f, g) ==
  IF MovsInNode(b, f, g, len) THEN Ok(MovInNode(b, fpos, f, g, len), c)
  ELSE MovNotInNode(CachePos(b, fpos, g), c, pos, fpos, len)

(* Only from a BUF node the other end is looked for. *)
MovFound(b, c, pos, fpos, len, f) ==
  IF b.nodes[f.i].type = "BUF"
  THEN MovFoundFrom(b, c, pos, fpos, len, f, BasePos(b, fpos))
  ELSE MovNotInNode(b, c, pos, fpos, len)

MovPos(b, c, pos, fpos, len, f) == MovFound(CachePos(b, pos, f), c, pos, fpos, len, f)

MovOp(b, c, pos, fpos, len) ==
  IF pos \in fpos - 1 .. fpos + len - 1 THEN Ok(b, c)
  ELSE MovPos(b, c, pos, fpos, len, BasePos(b, pos))

PlainMov(b, pos, fpos, len) ==
  pos >= fpos + len => ~MovsInNode(b, BasePos(b, pos), BasePos(b, fpos), len)

(* Mutant: a string that is left empty keeps the numbers of its nodes.     *)
UnlinkRunMutant(o, beg, end, num, fpos, len) ==
  IovecStale(CacheDel(
    [o EXCEPT !.nodes = SubSeq(@, 1, beg) \o SubSeq(@, end + 1, Len(@)),
              !.len = @ - len,
              !.end = IF end = Len(o.nodes)
                      THEN IF beg = 0 THEN 0 ELSE o.nodes[beg].id ELSE @], fpos))

(* vstr_mov() between two strings: the nodes leave the one string ... *)
UnlinkRun(o, beg, end, num, fpos, len) ==
  IovecStale(CacheDel(
    [o EXCEPT !.nodes = SubSeq(@, 1, beg) \o SubSeq(@, end + 1, Len(@)),
              !.len = @ - len, !.num = @ - num,
              !.types = IF o.len = len THEN {} ELSE @,
              !.end = IF end = Len(o.nodes)
                      THEN IF beg = 0 THEN 0 ELSE o.nodes[beg].id ELSE @], fpos))

(* ... and are linked into the other one, in which they get addresses of   *)
(* their own.                                                              *)
LinkRun(b, ns, con, num, types, pos, len) ==
  LET moved == [k \in 1 .. Len(ns) |-> [ns[k] EXCEPT !.id = FreshId(b, k)]]
  IN  IovecStale(CacheAdd(
        [b EXCEPT !.nodes = SubSeq(@, 1, con) \o moved \o SubSeq(@, con + 1, Len(@)),
                  !.len = @ + len, !.num = @ + num, !.types = @ \cup types,
                  !.end = IF con = Len(b.nodes) THEN moved[Len(ns)].id ELSE @], pos))

MovRun(b, o, c, con, beg, end, pos, fpos, len) ==
  LET num == end.num - beg.num
  IN  [b |-> LinkRun(b, SubSeq(o.nodes, beg.i + 1, end.i), con.i, num, o.types,
                     pos, len),
       o |-> UnlinkRun(o, beg.i, end.i, num, fpos, len), c |-> c, ok |-> TRUE]

(* The place in the one string is looked for before the data in the other, *)
(* or after it; s and r tell what was found and what was made of it.       *)
Failed(b, o, c) == [b |-> b, o |-> o, c |-> c, ok |-> FALSE]

MovFromCon(beg, end, pos, fpos, len, con) ==
  IF con.ok THEN MovRun(con.b, end.b, con.c, con, beg, end, pos, fpos, len)
  ELSE Failed(con.b, end.b, con.c)

MovFromEnd(b, s, beg, pos, fpos, len, end) ==
  CASE ~end.ok -> Failed(b, end.b, end.c)
    [] end.ok /\ s.ok ->
         MovRun(b, end.b, end.c, s, beg, end, pos, fpos, len)
    [] OTHER -> MovFromCon(beg, end, pos, fpos, len, MovSetup(b, end.c, pos))

MovFromBeg(b, s, pos, fpos, len, beg) ==
  IF beg.ok THEN MovFromEnd(b, s, beg, pos, fpos, len,
                            MovSetup(beg.b, beg.c, fpos + len - 1))
  ELSE Failed(b, beg.b, beg.c)

MovFromDown(o, pos, fpos, len, con) ==
  IF con.ok THEN MovFromBeg(con.b, con, pos, fpos, len, MovSetup(o, con.c, fpos - 1))
  ELSE Failed(con.b, o, con.c)

MovFromOp(b, o, c, pos, fpos, len) ==
  IF pos > fpos THEN MovFromBeg(b, Fail(b, c), pos, fpos, len, MovSetup(o, c, fpos - 1))
  ELSE MovFromDown(o, pos, fpos, len, MovSetup(b, c, pos))

-----------------------------------------------------------------------------
(* Copying *)

(* The buffer of the first node once vstr__base_zero_used() has moved its  *)
(* data: what it held behind is still there.                               *)
AfterZeroUsed(d, used) ==
  [x \in DOMAIN d |-> IF x <= Len(d) - used THEN d[x + used] ELSE d[x]]

(* vstr__add_vstr_node(): what is added for len bytes of a node.           *)
CopyIn(n, d, off, len, all) ==
  CASE n.type = "NON" -> [type |-> "NON", len |-> len, obj |-> "non", off |-> 1]
    [] n.type = "BUF" \/ (all /\ n.type # "NON") -> Buf(SubSeq(d, off + 1, off + len))
    [] OTHER -> [type |-> n.type, len |-> len, obj |-> d[off + 1][1],
                 off |-> d[off + 1][2]]

(* One turn of vstr__add_vstr_nodes().  A string that is copied into       *)
(* itself changes under the loop, which goes on with the next node of the  *)
(* changed list.                                                           *)
NextId(b, id) ==
  LET j == IndexOf(b, id) IN IF j < Len(b.nodes) THEN b.nodes[j + 1].id ELSE 0

CopyMoved(s, o, self, len, r) ==
  [b |-> r.b, c |-> r.c, ok |-> r.ok, pos |-> s.pos + len, len |-> s.len - len,
   scan |-> NextId(IF self THEN r.b ELSE o, s.scan), off |-> 0]

CopyPart(s, o, self, all, n, d, len) ==
  CopyMoved(s, o, self, len, AddOp(s.b, s.c, s.pos, CopyIn(n, d, s.off, len, all)))

CopyNode(s, o, self, all, i, n) ==
  CopyPart(s, o, self, all, n,
           IF self /\ s.pos = 0 /\ i = 1 /\ n.type = "BUF"
           THEN AfterZeroUsed(n.data, s.b.used) ELSE n.data,
           Least(NLen(n) - s.off, s.len))

CopyStep(s, o, self, all) ==
  LET src == IF self THEN s.b ELSE o
      i   == IndexOf(src, s.scan)
  IN  IF s.ok /\ s.len > 0 THEN CopyNode(s, o, self, all, i, src.nodes[i]) ELSE s

CopyNodes(s, o, self, all) ==
  FoldLeft(LAMBDA t, k : CopyStep(t, o, self, all), s, [k \in 1 .. MaxLen |-> k])

(* A copy that fails is taken back. *)
Undo(r, b, pos) ==
  IF r.ok THEN Ok(r.b, r.c)
  ELSE [DelIn(r.b, r.c, pos + 1, r.b.len - b.len) EXCEPT !.ok = FALSE]

(* Copying begins at f. *)
Copying(b, c, pos, len, scan, off) ==
  [b |-> b, c |-> c, ok |-> TRUE, pos |-> pos, len |-> len, scan |-> scan, off |-> off]

(* vstr_add_vstr() from another string. *)
CopiedFrom(r, o) == [b |-> r.b, o |-> o, c |-> r.c, ok |-> r.ok]

CopyFromAt(b, o, c, pos, fpos, len, all, f) ==
  CopiedFrom(Undo(CopyNodes(Copying(b, c, pos, len, o.nodes[f.i].id, f.p - 1),
                            o, FALSE, all), b, pos),
             CachePos(o, fpos, f))

CopyFromOp(b, o, c, pos, fpos, len, all) ==
  CopyFromAt(b, o, c, pos, fpos, len, all, BasePos(o, fpos))

(* The part in front of pos first, when pos lies within what is copied,    *)
(* then what is behind the part that was put there.                        *)
CopyBehind(r, len, all, f) ==
  CopyNodes(Copying(r.b, r.c, r.pos, len, r.b.nodes[f.i].id, f.p - 1), r.b, TRUE, all)

CopyRest(r, at, len, all, f) ==
  CopyBehind([r EXCEPT !.b = CachePos(@, at, f)], len, all, f)

CopySplit(r, at, len, all) ==
  IF r.ok THEN CopyRest(r, at, len, all, BasePos(r.b, at)) ELSE r

CopyInto(s, pos, fpos, len, all) ==
  IF fpos <= pos /\ fpos + len - 1 > pos
  THEN CopySplit(CopyNodes(Copying(s.b, s.c, pos, pos - fpos + 1, s.scan, s.off),
                           s.b, TRUE, all),
                 2 * pos - fpos + 2, len - (pos - fpos + 1), all)
  ELSE CopyNodes(Copying(s.b, s.c, pos, len, s.scan, s.off), s.b, TRUE, all)

(* The place in the string itself that is copied from, with a BUF node     *)
(* split there.                                                            *)
CopyBeg(b, c, f) ==
  IF b.nodes[f.i].type = "BUF" /\ f.p # 1 + (IF f.i = 1 THEN b.used ELSE 0)
  THEN SplitNode(b, c, f.i, f.p - 1) ELSE Ok(b, c)

CopyWhere(s, f, split) ==
  IF split THEN [b |-> s.b, c |-> s.c, off |-> 0, scan |-> s.b.nodes[f.i + 1].id]
  ELSE [b |-> s.b, c |-> s.c, off |-> f.p - 1, scan |-> s.b.nodes[f.i].id]

CopyBegun(b, s, pos, fpos, len, all, f) ==
  IF s.ok THEN Undo(CopyInto(CopyWhere(s, f, s.b.num > b.num), pos, fpos, len, all),
                    b, pos)
  ELSE Fail(s.b, s.c)

CopyAt(b, c, pos, fpos, len, all, f) ==
  CopyBegun(b, CopyBeg(CachePos(b, fpos, f), c, f), pos, fpos, len, all, f)

(* vstr_add_vstr() of a string into itself. *)
CopyOp(b, c, pos, fpos, len, all) ==
  CopyAt(b, c, pos, fpos, len, all, BasePos(b, fpos))

(* Two copies go wrong: of several nodes from the rest of a node that is   *)
(* not BUF, to a place in the same node, since the split makes the loop go *)
(* on with the copy; and of the first node to the front of it, when it has *)
(* deleted data.                                                           *)
PlainCopy(b, pos, fpos, len) ==
  LET f == BasePos(b, fpos)
      g == BasePos(b, pos)
  IN  /\ ~(/\ 0 < pos /\ pos < fpos /\ f.i = g.i
           /\ b.nodes[f.i].type # "BUF"
           /\ len > NLen(b.nodes[f.i]) - f.p + 1)
      /\ ~(pos = 0 /\ fpos = 1 /\ b.used > 0)

-----------------------------------------------------------------------------
(* Reading into spare nodes *)

(* vstr_add_iovec_buf_beg(): spare nodes and room in the iovec arrays.     *)
FillSpare(b, c, pos, min) == Ensure(c, "BUF", IF pos = b.len THEN min ELSE min + 1)

FillNum(c, max) == Least(max, c.spare["BUF"])

(* The string with a valid iovec cache that has room for n more entries. *)
FillVec(b, n) ==
  IF b.upto THEN IovecAlloc(b, b.num + n)
  ELSE IovecFill(IovecAlloc(b, b.num + n))

(* The room the node at f has, which is filled first. *)
FillRoom(b, f) ==
  IF f.i > 0 /\ b.nodes[f.i].type = "BUF" THEN BufSz - NLen(b.nodes[f.i]) ELSE 0

FillAt(b, pos) == IF pos = 0 THEN Nowhere ELSE BasePos(b, pos)

(* How many bytes the entries that are returned stand for. *)
FillBytes(b, f, n, max) ==
  IF FillRoom(b, f) = 0 THEN n * BufSz
  ELSE FillRoom(b, f) + (IF n < max THEN n ELSE n - 1) * BufSz

(* The entries are written over, so the cache is given up, unless they are *)
(* all behind it.                                                          *)
FillBeg(b, pos, f) ==
  LET b1 == CachePos(b, pos, f)
  IN  IF f.i = Len(b.nodes) /\ FillRoom(b, f) = 0 THEN b1 ELSE IovecStale(b1)

FillNodes(b, bytes) ==
  [j \in 1 .. (Len(bytes) + BufSz - 1) \div BufSz |->
     [id |-> FreshId(b, j), type |-> "BUF",
      data |-> SubSeq(bytes, (j - 1) * BufSz + 1, Least(j * BufSz, Len(bytes)))]]

(* Mutant: the node in front gets its bytes but not its length in the      *)
(* iovec cache.                                                            *)
FillVecEndMutant(b, v, f, room, ns) ==
  LET at == Len(SubSeq(b.nodes, 1, f.i))
  IN  v \o [j \in 1 .. Len(ns) |-> Iov(ns[j])]
        \o [j \in 1 .. Len(b.nodes) - at |-> Iov(b.nodes[at + j])]

(* The entries vstr_add_iovec_buf_end() leaves: the node that had room is  *)
(* made anew only at the end of the string, where it otherwise describes   *)
(* the room; then the new nodes ns and the ones behind them.               *)
FillVecEnd(b, v, f, room, ns) ==
  LET front == SubSeq(v, 1, f.num)
      own   == IF f.num = 1 THEN IovDropFront(Iov(b.nodes[f.i]), b.used)
                            ELSE Iov(b.nodes[f.i])
      scratch == [t |-> "BUF", base |-> PtrAdd(NodePtr(b.nodes[f.i]), BufSz - room),
                  len |-> room]
      first == CASE room = 0 -> front
                 [] room > 0 /\ f.i = Len(b.nodes) -> [front EXCEPT ![f.num] = own]
                 [] OTHER -> [front EXCEPT ![f.num] = scratch]
  IN  first \o [j \in 1 .. Len(ns) |-> Iov(ns[j])]
            \o [j \in 1 .. Len(b.nodes) - f.i |-> Iov(b.nodes[f.i + j])]

(* The string with the first bytes in the node at f and the nodes ns       *)
(* behind it.                                                              *)
FillLinked(b, f, first, ns) ==
  [b EXCEPT !.nodes = SubSeq(IF first = <<>> THEN @
                             ELSE [@ EXCEPT ![f.i].data = @ \o first], 1, f.i)
                      \o ns \o SubSeq(@, f.i + 1, Len(@)),
            !.len = @ + Len(first) + Upto(ns, Len(ns)), !.num = @ + Len(ns),
            !.end = IF f.i = Len(b.nodes) /\ ns # <<>> THEN ns[Len(ns)].id ELSE @,
            !.types = IF first = <<>> /\ ns = <<>> THEN @ ELSE @ \cup {"BUF"}]

(* vstr_add_iovec_buf_end() after bytes were read; b is the string with    *)
(* its cache as vstr_add_iovec_buf_beg() left it, v the entries.           *)
FillEnd(b, c, pos, f, v, bytes) ==
  LET room  == FillRoom(b, f)
      first == SubSeq(bytes, 1, Least(room, Len(bytes)))
      ns    == FillNodes(b, SubSeq(bytes, Len(first) + 1, Len(bytes)))
      b1    == FillLinked(b, f, first, ns)
      merged == FillLinked(b, f, first, <<>>)
      upto  == ns # <<>> \/ f.i = Len(b.nodes)
  IN  Ok([CacheAdd(b1, IF bytes = <<>> THEN MaxLen ELSE pos)
            EXCEPT !.upto = upto,
                   !.vec.v = IF upto THEN FillVecEnd(merged, v, f, room, ns) ELSE <<>>],
         [c EXCEPT !.spare["BUF"] = @ - Len(ns)])

(* vstr__sc_read_fast_iov_fd() between them: readv() fills in the bytes,   *)
(* or fails, which adds none.                                              *)
FillFound(b, c, pos, f, bytes) == FillEnd(FillBeg(b, pos, f), c, pos, f, b.vec.v, bytes)

FillReady(b, c, pos, bytes) == FillFound(b, c, pos, FillAt(b, pos), bytes)

FillSpared(b, e, pos, max, bytes) ==
  IF e.ok THEN FillReady(FillVec(b, FillNum(e.c, max)), e.c, pos, bytes)
          ELSE Fail(b, e.c)

FillOp(b, c, pos, min, max, bytes) ==
  FillSpared(b, FillSpare(b, c, pos, min), pos, max, bytes)

(* How much a read can return. *)
FillSpaceIn(b, e, pos, max) ==
  IF e.ok THEN FillBytes(b, FillAt(b, pos), FillNum(e.c, max), max) ELSE 0

FillSpace(b, c, pos, min, max) == FillSpaceIn(b, FillSpare(b, c, pos, min), pos, max)

(* Where reading into the string works: where no node has to be split, for *)
(* which a spare node that was counted already would be taken, and, unless *)
(* AnyOps, at the end, behind a node that has no room, or in front of a    *)
(* first node without deleted data.                                        *)
FillPos(b, pos) ==
  LET f == BasePos(b, pos) IN
  \/ pos = b.len
  \/ pos = 0 /\ (AnyOps \/ b.used = 0)
  \/ /\ pos \in 1 .. b.len - 1
     /\ f.p = NLen(b.nodes[f.i])
     /\ AnyOps \/ FillRoom(b, f) = 0

(* k bytes of a file after its first n. *)
FileBytes(n, k) == [j \in 1 .. k |-> <<"u", n + j>>]

(* vstr_sc_read_len_file(): reads until len bytes are there; k1 and k2 are *)
(* what the first two return, the next one fails.  After an error the data *)
(* that was read is deleted, one byte too early.                           *)
ReadOne(r, pos, len, n, k) ==
  FillOp(r.b, r.c, pos, (len \div BufSz) + 2, (len \div BufSz) + 2, FileBytes(n, k))

ReadUndo(r, b, pos) ==
  [DelIn(r.b, r.c, pos, r.b.len - b.len) EXCEPT !.ok = FALSE]

ReadTwice(b, pos, all, r) == IF r.ok /\ all THEN r ELSE ReadUndo(r, b, pos)

ReadOnce(b, pos, len, k1, k2, r) ==
  CASE ~r.ok \/ k1 = 0   -> ReadUndo(r, b, pos)
    [] r.ok /\ k1 = len  -> r
    [] OTHER -> ReadTwice(b, pos, k1 + k2 = len,
                          ReadOne(r, pos + k1, len - k1, k1, k2))

ReadFileOp(b, c, pos, len, k1, k2) ==
  ReadOnce(b, pos, len, k1, k2, ReadOne(Ok(b, c), pos, len, 0, k1))

-----------------------------------------------------------------------------
(* Writing *)

(* The bytes that an entry of the iovec cache points at. *)
Pointed(b, e) ==
  LET n == IF \E i \in 1 .. Len(b.nodes) : b.nodes[i].id = e.base[2]
           THEN b.nodes[IndexOf(b, e.base[2])].data ELSE <<>>
  IN  [k \in 1 .. e.len |->
         CASE e.base[1] = "buf" /\ e.base[3] + k <= Len(n) -> n[e.base[3] + k]
           [] e.base[1] \in {"p", "r"} -> <<e.base[1], e.base[3] + k - 1>>
           [] OTHER -> <<"junk", 0>>]

(* What writev() of the whole cache puts out. *)
Gather(b) == FlattenSeq([i \in 1 .. Len(b.vec.v) |-> Pointed(b, b.vec.v[i])])

-----------------------------------------------------------------------------
(* A string of vstr_make_base(), whose iovec cache is allocated with it or *)
(* is the one that a spare string b has already.                           *)
Made(b) ==
  LET sz == IF b.vec.sz = 0 THEN 1 + IovMinAlloc + b.minoff ELSE b.vec.sz
  IN  [NewBase EXCEPT !.minoff = b.minoff, !.upto = GrpIovec,
                      !.vec.sz = IF GrpIovec THEN sz ELSE 0,
                      !.vec.off = IF GrpIovec THEN b.minoff ELSE 0]

OpsInit ==
  /\ base = Made(NewBase)
  /\ other = Made(NewBase)
  /\ conf = NewConf
  /\ call = [op |-> "make", ok |-> TRUE]
  /\ bad = FALSE

(* A call on the string, on the other string, or on both. *)
CallReturns(r, args) ==
  /\ Returns(r, args)
  /\ bad' = (bad \/ ~r.ok)
  /\ UNCHANGED other

PairReturns(r, to, args) ==
  /\ base' = IF to THEN r.o ELSE r.b
  /\ other' = IF to THEN r.b ELSE r.o
  /\ conf' = r.c
  /\ bad' = (bad \/ ~r.ok)
  /\ call' = [args EXCEPT !.ok = r.ok]

(* An add in front of a string that its iovec cache survives, as in Add(). *)
PlainFront(b, pos, type, len) ==
  pos = 0 /\ b.len > 0 /\ b.upto /\ b.vec.off > 0 =>
    AnyPrepend \/ (b.used = 0 /\ len <= MaxOf(type))

Sub(pos, len, in) ==
  /\ PlainFront(base, pos - 1, in.type, in.len)
  /\ base.len - len + in.len <= MaxLen
  /\ AnyOps \/ PlainSub(base, pos, len, in)
  /\ CallReturns(SubOp(base, conf, pos, len, in),
                 [op |-> "sub", pos |-> pos, len |-> len, in |-> in, ok |-> TRUE])

(* Data is not moved into its own middle, which changes nothing. *)
Mov(pos, fpos, len) ==
  /\ pos \notin fpos .. fpos + len - 2
  /\ AnyOps \/ PlainMov(base, pos, fpos, len)
  /\ CallReturns(MovOp(base, conf, pos, fpos, len),
                 [op |-> "mov", pos |-> pos, fpos |-> fpos, len |-> len, ok |-> TRUE])

MovFrom(pos, fpos, len) ==
  /\ base.len + len <= MaxLen
  /\ PairReturns(MovFromOp(base, other, conf, pos, fpos, len), FALSE,
                 [op |-> "mov from", pos |-> pos, fpos |-> fpos, len |-> len,
                  ok |-> TRUE])

Copy(pos, fpos, len, all) ==
  /\ PlainFront(base, pos, "BUF", len)
  /\ base.len + len <= MaxLen
  /\ AnyOps \/ PlainCopy(base, pos, fpos, len)
  /\ CallReturns(CopyOp(base, conf, pos, fpos, len, all),
                 [op |-> "copy", pos |-> pos, fpos |-> fpos, len |-> len, ok |-> TRUE])

CopyTo(pos, fpos, len, all) ==
  /\ PlainFront(other, pos, "BUF", len)
  /\ other.len + len <= OtherMax
  /\ PairReturns(CopyFromOp(other, base, conf, pos, fpos, len, all), TRUE,
                 [op |-> "copy to", pos |-> pos, fpos |-> fpos, len |-> len,
                  ok |-> TRUE])

(* vstr_add_iovec_buf_beg(), and vstr_add_iovec_buf_end() of k bytes. *)
Fill(pos, min, max, k) ==
  /\ FillPos(base, pos)
  /\ base.len + k <= MaxLen
  /\ k <= FillSpace(base, conf, pos, min, max)
  /\ CallReturns(FillOp(base, conf, pos, min, max, FileBytes(0, k)),
                 [op |-> "add", pos |-> pos, in |-> Buf(FileBytes(0, k)), ok |-> TRUE])

(* Nothing to add, and so no vstr_add_iovec_buf_end(). *)
FillBegun(b, pos) == FillBeg(b, pos, FillAt(b, pos))

Abandoned(e, pos, max) ==
  /\ base' = IF e.ok THEN FillBegun(FillVec(base, FillNum(e.c, max)), pos) ELSE base
  /\ conf' = e.c
  /\ bad' = (bad \/ ~e.ok)
  /\ Looked(e.ok)

FillAbandoned(pos, min, max) ==
  /\ FillPos(base, pos)
  /\ Abandoned(FillSpare(base, conf, pos, min), pos, max)
  /\ UNCHANGED other

(* The iovec arrays cannot be allocated. *)
NoArrays(e, n) ==
  /\ e.ok
  /\ base.vec.sz = 0 \/ IovecGrows(base, n)
  /\ base' = IF base.vec.sz = 0 THEN base
             ELSE [base EXCEPT !.vec.off = IovecOff(base, n)]
  /\ conf' = e.c

FillFails(pos, min, max) ==
  /\ VecFails /\ FillPos(base, pos)
  /\ LET e == FillSpare(base, conf, pos, min)
     IN  NoArrays(e, base.num + FillNum(e.c, max))
  /\ bad' = TRUE
  /\ Looked(FALSE)
  /\ UNCHANGED other

ReadReturns(r, pos, len) ==
  /\ AnyOps \/ r.ok \/ r.b.len = base.len
  /\ CallReturns(r, [op |-> "add", pos |-> pos, in |-> Buf(FileBytes(0, len)),
                     ok |-> TRUE])

ReadFile(pos, len, k1, k2) ==
  /\ FillPos(base, pos)
  /\ base.len + len <= MaxLen
  /\ k1 + k2 <= len /\ (k1 \in {0, len} => k2 = 0)
  /\ AnyOps \/ k1 = 0 \/ k1 + k2 = len
  /\ ReadReturns(ReadFileOp(base, conf, pos, len, k1, k2), pos, len)

(* vstr_sc_write_fd() of the whole string, of which k bytes are written.   *)
(* A vstr_mov() that failed after vstr__base_zero_used() moved bytes has   *)
(* left the cache describing where they were.                              *)
Written(b, k) ==
  CallReturns(DelOp(b, conf, 1, k),
              [op |-> "write", len |-> k, out |-> SubSeq(Gather(b), 1, k), ok |-> TRUE])

WriteFd(k) ==
  /\ base.types \cap {"NON"} = {}
  /\ AnyOps \/ ~bad
  /\ Written(IF base.upto THEN base ELSE IovecFill(IovecAlloc(base, base.num)), k)

(* vstr_cntl_conf(conf, VSTR_CNTL_CONF_SET_NUM_IOV_MIN_OFFSET, n).  An     *)
(* offset that is larger than arrays that exist makes vstr_make_base() and *)
(* vstr__cache_iovec_alloc() go past their end.                            *)
SetIovMinOffset(n) ==
  /\ AnyOps \/ \A b \in {base, other} : b.vec.sz = 0 \/ n <= b.vec.sz
  /\ base' = [base EXCEPT !.minoff = n]
  /\ other' = [other EXCEPT !.minoff = n]
  /\ UNCHANGED <<conf, bad>>
  /\ Looked(TRUE)

(* vstr_free_base() and vstr_make_base(), which reuses the spare string.   *)
Remake ==
  CallReturns([b |-> Made(base), c |-> Relink(conf, base.nodes), ok |-> TRUE],
              [op |-> "remake", ok |-> TRUE])

OpsNext ==
  \/ Next /\ UNCHANGED other /\ bad' = (bad \/ ~call'.ok)
  \/ \E pos \in 1 .. base.len, in \in SubInputs :
       \E len \in 1 .. base.len - pos + 1 : Sub(pos, len, in)
  \/ \E pos \in 0 .. base.len, fpos \in 1 .. base.len :
       \E len \in 1 .. base.len - fpos + 1 :
         Mov(pos, fpos, len) \/ \E all \in AllBufs : Copy(pos, fpos, len, all)
  \/ \E pos \in 0 .. base.len, fpos \in 1 .. other.len :
       \E len \in 1 .. other.len - fpos + 1 : MovFrom(pos, fpos, len)
  \/ \E pos \in 0 .. other.len, fpos \in 1 .. base.len :
       \E len \in 1 .. base.len - fpos + 1, all \in AllBufs : CopyTo(pos, fpos, len, all)
  \/ \E pos \in 0 .. base.len, s \in FillSizes :
       \/ \E k \in 0 .. FillMax : Fill(pos, s[1], s[2], k)
       \/ FillAbandoned(pos, s[1], s[2])
       \/ FillFails(pos, s[1], s[2])
  \/ \E pos \in 0 .. base.len, len \in 1 .. FillMax :
       \E k1, k2 \in 0 .. len : ReadFile(pos, len, k1, k2)
  \/ \E k \in 1 .. base.len : WriteFd(k)
  \/ \E n \in IovOffsets : SetIovMinOffset(n)
  \/ Remake

OpsSpec == OpsInit /\ [][OpsNext]_opsVars

-----------------------------------------------------------------------------
(* Properties *)

(* The other string has its type. *)
OpsTypeOK ==
  /\ TypeOK
  /\ other.len \in 0 .. OtherMax /\ other.num \in 0 .. OtherMax
  /\ other.end \in Ids \cup {0} /\ other.types \subseteq NodeTypes
  /\ bad \in BOOLEAN

(* vstr__check_real_nodes() of both strings after every call: the counts,  *)
(* the flags and the end that substitution, vstr_mov() and                 *)
(* vstr_add_iovec_buf_end() maintain by hand agree with the lists.         *)
BothReal == RealNodesOf(base) /\ RealNodesOf(other)

(* No node is lost or linked twice when nodes change hands between two     *)
(* strings and the spare lists, whatever call fails half way, and the      *)
(* user's reference counts the REF nodes of both strings.                  *)
AllConserved ==
  /\ \A t \in NodeTypes :
       /\ conf.spare[t] >= 0
       /\ conf.made[t] = conf.spare[t] + CountType(base.nodes, t)
                                       + CountType(other.nodes, t)
  /\ conf.ref = 1 + CountType(base.nodes, "REF") + CountType(other.nodes, "REF")

(* The position cache of a string names a node of that string, and not one *)
(* that was swapped, or moved to the other.                                *)
BothPosCache == PosCacheOf(base) /\ PosCacheOf(other)

(* While no call has failed, an iovec cache that is marked up to date is   *)
(* what vstr__cache_iovec_valid() would build, and inside its arrays: also *)
(* after data was read through entries of the cache itself, and when the   *)
(* string is reused after the minimum offset changed.                      *)
BothIovec == bad \/ (IovecExactOf(base) /\ IovecExactOf(other))

(* Both strings and the spare lists are consistent after every call: no    *)
(* node is lost or shared, counts and flags agree with the lists, and so   *)
(* do the position and the iovec caches of both strings.                   *)
OpsInv == OpsTypeOK /\ BothReal /\ AllConserved /\ BothPosCache /\ BothIovec

(* The two strings of VstrAbs. *)
Strings == INSTANCE VstrAbs WITH str <- Content(base), from <- Content(other)

(* Every call, the ones built from several adds and deletes too, does to   *)
(* the two strings what it promises, or fails and leaves them as they      *)
(* were; what is written to a file is what is removed from the string.     *)
OpsRefineAbs == Strings!AbsSpec
=============================================================================
