----------------------------- MODULE VstrNodes -----------------------------
(***************************************************************************)
(* A Vstr_base and the spare nodes of its Vstr_conf: the list of nodes     *)
(* that holds the string, the position cache, and the iovec cache that     *)
(* mirrors the list for writev().  Translated from src/vstr_add.c,         *)
(* src/vstr_del.c, src/vstr.c, src/vstr_cache.c and the inline functions   *)
(* of include/vstr-inline.h and include/vstr-nx-inline.h.                  *)
(*                                                                         *)
(* A node is [id, type, data]: id is its address, data the bytes it holds, *)
(* so node->len is Len(data).  A byte of a PTR or a REF node is            *)
(* <<object, offset>>: its address is its value, the objects being         *)
(* constant; a BUF node holds copies.  The first base->used bytes of a     *)
(* leading BUF node are deleted data.                                      *)
(***************************************************************************)
EXTENDS Integers, Sequences, FiniteSets, SequencesExt

CONSTANTS
  BufSz,         \* conf->buf_sz
  MaxNodeAll,    \* VSTR_MAX_NODE_ALL, the longest NON, PTR or REF node
  IovMinAlloc,   \* conf->iov_min_alloc
  IovMinOffset,  \* conf->iov_min_offset at first; base.minoff is its value
  SplitBufDel,   \* conf->split_buf_del
  UserCache,     \* has the base a user's cache? (~base->cache_internal)
  Cap,           \* per type, the nodes malloc() supplies before it fails
  VecFails,      \* may the allocation of the iovec arrays fail?
  Inputs,        \* what is added: [type, len, data] or [type, len, obj, off]
  SpareTypes,    \* the types whose spare nodes the user makes and frees
  AnyPrepend,    \* are prepends made that the iovec cache does not survive?
  MaxLen         \* bound: the length of the string

NodeTypes == {"BUF", "NON", "PTR", "REF"}

ASSUME NodesAssumption ==
  /\ {BufSz, MaxNodeAll, MaxLen} \subseteq Nat \ {0}
  /\ {IovMinAlloc, IovMinOffset} \subseteq Nat
  /\ {SplitBufDel, UserCache, VecFails, AnyPrepend} \subseteq BOOLEAN
  /\ Cap \in [NodeTypes -> Nat]
  /\ SpareTypes \subseteq NodeTypes
  /\ \A in \in Inputs : in.type \in NodeTypes /\ in.len \in Nat \ {0}

(* What is copied into BUF nodes is as long as the call says. *)
ASSUME InputsAssumption ==
  \A in \in Inputs : in.type = "BUF" => in.data = [k \in 1 .. in.len |-> in.data[k]]

VARIABLES base,   \* the Vstr_base
          conf,   \* spare nodes, nodes malloc'ed, count of the user's ref
          call    \* the last call and its result (history, for VstrAbs)

vars == <<base, conf, call>>

NoPos == [node |-> 0, pos |-> 0, num |-> 0]

(* The addresses of nodes: a substitution holds what it replaces a while.  *)
Ids == 1 .. 2 * MaxLen

-----------------------------------------------------------------------------
(* Bytes and nodes *)

ByteAt(obj, off) == IF obj = "non" THEN <<"non", 0>> ELSE <<obj, off>>

(* The k-th byte of an input: a BUF input has a copy of its data, a PTR or *)
(* a REF input names it.                                                   *)
InByte(in, k) ==
  IF in.type = "BUF" THEN in.data[k] ELSE ByteAt(in.obj, in.off + k - 1)

NLen(n) == Len(n.data)

(* How many bytes the first i nodes of ns hold. *)
Upto(ns, i) ==
  LET sum[k \in 0 .. Len(ns)] == IF k = 0 THEN 0 ELSE sum[k - 1] + NLen(ns[k])
  IN  sum[i]

(* The string a base holds. *)
Content(b) == LET all == FlattenSeq([i \in 1 .. Len(b.nodes) |-> b.nodes[i].data])
              IN  SubSeq(all, b.used + 1, Len(all))

(* vstr_export__node_ptr(): an address is <<object, node, offset>>. *)
NodePtr(n) ==
  CASE n.type = "BUF" -> <<"buf", n.id, 0>>
    [] n.type = "NON" -> <<"null", 0, 0>>
    [] OTHER          -> <<n.data[1][1], 0, n.data[1][2]>>

PtrAdd(p, k) == IF p[1] = "null" THEN p ELSE <<p[1], p[2], p[3] + k>>

(* An element of the iovec cache: vec->v[] and vec->t[]. *)
Iov(n) == [t |-> n.type, base |-> NodePtr(n), len |-> NLen(n)]

IovDropFront(e, k) == [e EXCEPT !.base = PtrAdd(@, k), !.len = @ - k]

IndexOf(b, id) == CHOOSE i \in 1 .. Len(b.nodes) : b.nodes[i].id = id

(* The k-th unused node address. *)
FreshId(b, k) ==
  LET free == Ids \ {b.nodes[i].id : i \in 1 .. Len(b.nodes)}
  IN  CHOOSE x \in free : Cardinality({y \in free : y < x}) = k - 1

CountType(ns, t) == Cardinality({i \in 1 .. Len(ns) : ns[i].type = t})

-----------------------------------------------------------------------------
(* Spare nodes *)

(* vstr_cntl_conf(conf, VSTR_CNTL_CONF_SET_NUM_RANGE_SPARE_*, n, UINT_MAX) *)
(* What malloc() gave before it failed stays on the spare list.            *)
Ensure(c, t, n) ==
  LET want == IF n > c.spare[t] THEN n - c.spare[t] ELSE 0
      got  == IF want > Cap[t] - c.made[t] THEN Cap[t] - c.made[t] ELSE want
  IN  [c |-> [c EXCEPT !.spare[t] = @ + got, !.made[t] = @ + got],
       ok |-> got = want]

(* n nodes of type t leave the spare list; a REF node takes a reference. *)
Take(c, t, n) ==
  [c EXCEPT !.spare[t] = @ - n, !.ref = IF t = "REF" THEN @ + n ELSE @]

(* Mutant: a deleted REF node keeps its reference. *)
RelinkMutant(c, ns) ==
  [c EXCEPT !.spare = [t \in NodeTypes |-> @[t] + CountType(ns, t)]]

(* vstr__relink_nodes() and vstr__del_node() for the deleted nodes ns. *)
Relink(c, ns) ==
  [c EXCEPT !.spare = [t \in NodeTypes |-> @[t] + CountType(ns, t)],
            !.ref = @ - CountType(ns, "REF")]

-----------------------------------------------------------------------------
(* Positions *)

(* vstr_base__pos(): the node at pos, the position in it and its number.   *)
(* The position cache, when it lies before pos, is where the scan begins.  *)
BasePos(b, pos) ==
  LET last == IndexOf(b, b.end)
      hit  == b.pc.node # 0 /\ b.pc.pos <= pos
      from == IF hit THEN IndexOf(b, b.pc.node) ELSE 1
      p    == IF hit THEN pos - b.pc.pos + 1 ELSE pos + b.used
      n    == IF hit THEN b.pc.num ELSE 1
      skip(i) == Upto(b.nodes, i) - Upto(b.nodes, from - 1)
      i    == CHOOSE j \in from .. Len(b.nodes) : skip(j - 1) < p /\ p <= skip(j)
  IN  CASE pos + b.used <= NLen(b.nodes[1]) ->
             [i |-> 1, p |-> pos + b.used, num |-> 1, scanned |-> FALSE]
        [] pos + b.used > NLen(b.nodes[1]) /\ pos > b.len - NLen(b.nodes[last]) ->
             [i |-> last, p |-> pos - (b.len - NLen(b.nodes[last])),
              num |-> b.num, scanned |-> FALSE]
        [] OTHER ->
             [i |-> i, p |-> p - skip(i - 1), num |-> n + (i - from),
              scanned |-> TRUE]

(* vstr_cache__pos(), called with the result of a scan. *)
CachePos(b, pos, f) ==
  IF f.scanned
  THEN [b EXCEPT !.pc = [node |-> b.nodes[f.i].id, pos |-> pos - f.p + 1,
                         num |-> f.num]]
  ELSE b

(* vstr__cache_pos_cb() for VSTR_TYPE_CACHE_ADD and VSTR_TYPE_CACHE_DEL. *)
CacheAdd(b, pos) == IF pos >= b.pc.pos THEN b ELSE [b EXCEPT !.pc = NoPos]

CacheDel(b, pos) == IF pos > b.pc.pos THEN b ELSE [b EXCEPT !.pc = NoPos]

-----------------------------------------------------------------------------
(* The iovec cache: v holds the entries vec->off .. vec->off + num - 1.    *)
(* Its contents are dead, and kept empty, while iovec_upto_date is FALSE.  *)

IovecStale(b) == [b EXCEPT !.upto = FALSE, !.vec.v = <<>>]

(* Mutant: the entry of a node that grew or shrank is left alone. *)
IovecLenAddMutant(b, num, k) == b

IovecLenAdd(b, num, k) ==
  IF b.upto THEN [b EXCEPT !.vec.v[num].len = @ + k] ELSE b

(* vstr__cache_iovec_maybe_add() for each of the nodes ns, in their order, *)
(* base->num counting them one by one.  At the beginning every node goes   *)
(* in front of what is there.                                              *)
IovecMaybeAdd(b, ns, atEnd) ==
  LET m    == Len(ns)
      es   == [i \in 1 .. m |-> Iov(ns[i])]
      fits == IF atEnd THEN b.num + m <= b.vec.sz - b.vec.off ELSE m <= b.vec.off
  IN  CASE ~b.upto -> b
        [] b.upto /\ fits /\ atEnd -> [b EXCEPT !.vec.v = @ \o es]
        [] b.upto /\ fits /\ ~atEnd ->
             [b EXCEPT !.vec.v = Reverse(es) \o @, !.vec.off = @ - m]
        [] OTHER -> [IovecStale(b) EXCEPT !.vec.off = IF atEnd THEN @ ELSE 0]

(* vstr__cache_iovec_reset() of an emptied base. *)
IovecReset(b) ==
  IF b.vec.sz = 0 THEN b
  ELSE [b EXCEPT !.upto = TRUE,
                 !.vec.off = IF b.vec.sz > b.minoff THEN b.minoff ELSE 0,
                 !.vec.v = <<>>]

(* vstr__cache_iovec_alloc(base, n) when it succeeds.  The difference of   *)
(* the size and the offset is unsigned: it wraps when the offset is larger *)
(* and no more room is then asked for.                                     *)
IovecOff(b, n) ==
  IF b.upto /\ (b.vec.off <= b.minoff \/ n <= b.vec.sz - b.vec.off)
  THEN b.vec.off ELSE b.minoff

IovecSz(b, n) == IF b.vec.sz = 0 THEN n + IovMinAlloc + b.minoff ELSE b.vec.sz

IovecGrows(b, n) ==
  IovecOff(b, n) <= IovecSz(b, n) /\ n > IovecSz(b, n) - IovecOff(b, n)

IovecAlloc(b, n) ==
  [b EXCEPT !.vec.sz = IF IovecGrows(b, n) THEN n + b.minoff ELSE IovecSz(b, n),
            !.vec.off = IovecOff(b, n)]

(* vstr__cache_iovec_valid() filling the arrays. *)
IovecFill(b) ==
  [b EXCEPT !.upto = TRUE,
            !.vec.v = [i \in 1 .. b.num |->
                         IF i = 1 THEN IovDropFront(Iov(b.nodes[1]), b.used)
                                  ELSE Iov(b.nodes[i])]]

-----------------------------------------------------------------------------
(* Adding *)

(* vstr__base_split_node(): node i keeps its first p bytes. *)
SplitNode(b, c, i, p) ==
  LET n  == b.nodes[i]
      e  == Ensure(c, n.type, 1)
      n2 == [id |-> FreshId(b, 1), type |-> n.type,
             data |-> SubSeq(n.data, p + 1, NLen(n))]
      ns == InsertAt([b.nodes EXCEPT ![i].data = SubSeq(@, 1, p)], i + 1, n2)
      b2 == [IovecStale(b) EXCEPT !.nodes = ns, !.num = @ + 1,
                                  !.end = IF @ = n.id THEN n2.id ELSE @]
  IN  IF e.ok THEN [b |-> b2, c |-> Take(e.c, n.type, 1), ok |-> TRUE]
              ELSE [b |-> b, c |-> e.c, ok |-> FALSE]

(* vstr__add_setup_pos(): make a node end at pos, which f was found for. *)
SetupPos(b, c, pos, f) ==
  IF f.p = NLen(b.nodes[f.i])
  THEN [b |-> CachePos(b, pos, f), c |-> c, ok |-> TRUE]
  ELSE SplitNode(CachePos(b, pos, f), c, f.i, f.p)

MaxOf(type) == IF type = "BUF" THEN BufSz ELSE MaxNodeAll

(* How much of the input goes into the node the position follows. *)
MergeLen(n, in) ==
  LET room   == MaxOf(in.type) - NLen(n)
      joined == in.type \in {"PTR", "REF"} =>
                  PtrAdd(NodePtr(n), NLen(n)) = <<in.obj, 0, in.off>>
  IN  IF n.type = in.type /\ room > 0 /\ joined
      THEN IF room > in.len THEN in.len ELSE room
      ELSE 0

(* Mutant: what was merged is added once more. *)
NodeOffMutant(in, done, rest, j) == (j - 1) * MaxOf(in.type)

(* The offset in the input of the bytes the j-th new node gets, done bytes *)
(* being merged and rest left.  vstr_add_buf() advances its buffer past    *)
(* what it merged, vstr_add_ptr() does not advance ptr; vstr_add_ref()     *)
(* advances off by what was left, not by what the node took.               *)
NodeOff(in, done, rest, j) ==
  CASE in.type = "PTR" -> (j - 1) * MaxNodeAll
    [] in.type = "REF" -> (j - 1) * rest
                          - MaxNodeAll * (((j - 1) * (j - 2)) \div 2)
    [] OTHER -> done + (j - 1) * MaxOf(in.type)

NewNodes(b, in, done) ==
  LET rest == in.len - done
      max  == MaxOf(in.type)
      m    == (rest + max - 1) \div max
      size(j) == IF j < m THEN max ELSE rest - (m - 1) * max
  IN  [j \in 1 .. m |->
        [id |-> FreshId(b, j), type |-> in.type,
         data |-> [k \in 1 .. size(j) |->
                     InByte(in, NodeOff(in, done, rest, j) + k)]]]

(* vstr__base_zero_used() *)
ZeroUsed(b) ==
  IF b.used = 0 THEN b
  ELSE [b EXCEPT !.nodes[1].data = SubSeq(@, b.used + 1, Len(@)), !.used = 0]

(* VSTR__ADD_MID and VSTR__ADD_END: the nodes ns after node i (0: in       *)
(* front).                                                                 *)
Linked(b, ns, i, type) ==
  [IovecMaybeAdd(b, ns, i > 0 \/ b.len = 0) EXCEPT
     !.nodes = SubSeq(@, 1, i) \o ns \o SubSeq(@, i + 1, Len(@)),
     !.len = @ + Upto(ns, Len(ns)), !.num = @ + Len(ns),
     !.types = @ \cup {type},
     !.end = IF i = Len(b.nodes) THEN ns[Len(ns)].id ELSE @]

(* The string they are linked into: an insertion in the middle gives the   *)
(* iovec cache up.                                                         *)
LinkInto(b, i) ==
  CASE i > 0 /\ b.nodes[i].id # b.end -> IovecStale(b)
    [] i = 0 /\ b.len > 0             -> ZeroUsed(b)
    [] OTHER                          -> b

LinkNodes(b, c, i, pos, in, ns) ==
  [b |-> CacheAdd(Linked(LinkInto(b, i), ns, i, in.type), pos),
   c |-> Take(c, in.type, Len(ns)), ok |-> TRUE]

(* The first k bytes of the input go into the node at f. *)
Merge(b, f, in, k) ==
  IF k = 0 THEN b
  ELSE [IovecLenAdd(b, f.num, k) EXCEPT
          !.nodes[f.i].data =
             @ \o [j \in 1 .. k |-> InByte(in, j)],
          !.len = @ + k]

(* The spare nodes an add asks for: enough for the whole input, unless it  *)
(* is a buffer that was merged.                                            *)
NodesFor(c, in, k) ==
  IF in.type = "BUF" /\ k = in.len THEN [c |-> c, ok |-> TRUE]
  ELSE Ensure(c, in.type, (in.len + MaxOf(in.type) - 1) \div MaxOf(in.type))

AddData(s, e, f, pos, in, k) ==
  CASE ~e.ok -> [b |-> s.b, c |-> e.c, ok |-> FALSE]
    [] e.ok /\ k = in.len ->
         [b |-> CacheAdd(Merge(s.b, f, in, k), pos), c |-> e.c, ok |-> TRUE]
    [] OTHER -> LinkNodes(Merge(s.b, f, in, k), e.c, f.i, pos, in,
                          NewNodes(s.b, in, k))

AddMerging(s, f, pos, in, k) == AddData(s, NodesFor(s.c, in, k), f, pos, in, k)

AddAfter(s, f, pos, in) ==
  IF s.ok THEN AddMerging(s, f, pos, in, MergeLen(s.b.nodes[f.i], in)) ELSE s

AddFound(b, c, f, pos, in) == AddAfter(SetupPos(b, c, pos, f), f, pos, in)

Nowhere == [i |-> 0, p |-> 0, num |-> 0, scanned |-> FALSE]

(* vstr_add_buf(), vstr_add_ptr(), vstr_add_non() and vstr_add_ref(). The  *)
(* inline part of vstr_add_buf() is the case in which all is merged into   *)
(* the last node.                                                          *)
AddOp(b, c, pos, in) ==
  IF pos > 0 THEN AddFound(b, c, BasePos(b, pos), pos, in)
  ELSE AddMerging([b |-> b, c |-> c, ok |-> TRUE], Nowhere, pos, in, 0)

-----------------------------------------------------------------------------
(* Deleting *)

(* Drop the first k bytes of node i, in front of which nothing is left     *)
(* when "first": a BUF node then keeps them, counted by base->used.        *)
DropFront(b, i, k, first) ==
  IF first /\ b.nodes[i].type = "BUF"
  THEN [b EXCEPT !.used = @ + k]
  ELSE [b EXCEPT !.nodes[i].data = SubSeq(@, k + 1, Len(@))]

IovecDropFront(b, num, k) ==
  IF b.upto THEN [b EXCEPT !.vec.v[num] = IovDropFront(@, k)] ELSE b

(* vstr__del_all() *)
DelAll(b, c) ==
  [b |-> IovecReset([b EXCEPT !.nodes = <<>>, !.len = 0, !.num = 0, !.used = 0,
                              !.end = 0, !.types = {}, !.pc = NoPos]),
   c |-> Relink(c, b.nodes), ok |-> TRUE]

(* How many nodes after node i are within the next len bytes. *)
Whole(b, i, len) ==
  CHOOSE j \in 0 .. Len(b.nodes) - i :
    /\ Upto(b.nodes, i + j) - Upto(b.nodes, i) <= len
    /\ i + j < Len(b.nodes) => len < Upto(b.nodes, i + j + 1) - Upto(b.nodes, i)

(* The string without its first k nodes. *)
DropNodes(b, k) ==
  IF k = 0 THEN b
  ELSE [b EXCEPT !.nodes = SubSeq(@, k + 1, Len(@)), !.num = @ - k, !.used = 0,
                 !.vec.off = IF b.upto THEN @ + k ELSE @,
                 !.vec.v = IF b.upto THEN SubSeq(@, k + 1, Len(@)) ELSE @]

DropBytes(b, rem) ==
  IF rem > 0 THEN IovecDropFront(DropFront(b, 1, rem, TRUE), 1, rem) ELSE b

(* vstr__del_beg(): k whole nodes and the rest from the next one. *)
DelNodes(b, c, len, k) ==
  [b |-> CacheDel([DropBytes(DropNodes(b, k),
                             IF k = 0 THEN len ELSE b.used + len - Upto(b.nodes, k))
                     EXCEPT !.len = @ - len], 1),
   c |-> Relink(c, SubSeq(b.nodes, 1, k)), ok |-> TRUE]

DelBeg(b, c, len) == DelNodes(b, c, len, Whole(b, 0, b.used + len))

(* The end of vstr_extern_inline_del(): node i, number num of the iovec    *)
(* cache, ends where the deleted data begins; k whole nodes after it go.   *)
Unlinked(b, i, num, k) ==
  [b EXCEPT
     !.nodes = SubSeq(@, 1, i) \o SubSeq(@, i + k + 1, Len(@)),
     !.num = @ - k,
     !.vec.v = IF b.upto
               THEN SubSeq(@, 1, num) \o SubSeq(@, num + k + 1, Len(@)) ELSE @,
     !.end = IF i + k = Len(b.nodes) THEN b.nodes[i].id ELSE @]

(* And the iovec entry of the node that lost bytes is made anew. *)
IovecRedo(b, i, num) ==
  IF b.upto THEN [b EXCEPT !.vec.v[num] = Iov(b.nodes[i])] ELSE b

DelNodesAfter(b, c, pos, f, rem, k) ==
  LET r  == rem - (Upto(b.nodes, f.i + k) - Upto(b.nodes, f.i))
      b1 == Unlinked(b, f.i, f.num, k)
  IN  [b |-> CacheDel(IF r > 0 THEN IovecRedo(DropFront(b1, f.i + 1, r, FALSE),
                                              f.i + 1, f.num + 1)
                               ELSE b1, pos),
       c |-> Relink(c, SubSeq(b.nodes, f.i + 1, f.i + k)), ok |-> TRUE]

DelAfter(b, c, pos, f, rem) ==
  DelNodesAfter(b, c, pos, f, rem, Whole(b, f.i, rem))

(* The data of a node from f on goes, to its end. *)
CutNode(b, f, len) ==
  IovecLenAdd([b EXCEPT !.nodes[f.i].data = SubSeq(@, 1, f.p), !.len = @ - len],
              f.num, f.p - NLen(b.nodes[f.i]))

(* len bytes within a node go. *)
CutBytes(b, f, len) ==
  [b EXCEPT !.nodes[f.i].data = SubSeq(@, 1, f.p)
                                \o SubSeq(@, f.p + len + 1, Len(@)),
            !.len = @ - len]

CutInner(s, pos, f, len) ==
  IF ~s.ok THEN s
  ELSE [s EXCEPT !.b =
          CacheDel(IovecLenAdd(CutBytes(@, f, len), f.num, -len), pos)]

(* Is a node of that type split for it? *)
Splits(n) == n.type \in {"PTR", "REF"} \/ (n.type = "BUF" /\ SplitBufDel)

DelFound(b, c, pos, len, f) ==
  IF f.p + len < NLen(b.nodes[f.i])
  THEN CutInner(IF Splits(b.nodes[f.i]) THEN SplitNode(b, c, f.i, f.p + len)
                                        ELSE [b |-> b, c |-> c, ok |-> TRUE],
                pos, f, len)
  ELSE DelAfter(CutNode(b, f, len), c, pos, f, f.p + len - NLen(b.nodes[f.i]))

(* vstr_extern_inline_del() for pos > 1 *)
DelMid(b, c, pos, len) == DelFound(b, c, pos, len, BasePos(b, pos - 1))

(* The two inline cases of vstr_del(): data from one end of the string     *)
(* that leaves some of its node.  The comparison with the last node is     *)
(* unsigned, so with a single node that has used data it never holds.      *)
InlineBeg(b, pos, len) == pos = 1 /\ len + b.used < NLen(b.nodes[1])

InlineEnd(b, pos, len) ==
  LET endLen == NLen(b.nodes[b.num]) + (IF b.num = 1 THEN b.used ELSE 0)
      lim    == b.len - (endLen - 1)
  IN  lim >= 0 /\ pos > lim /\ len = b.len - pos + 1

DelOp(b, c, pos, len) ==
  CASE ~UserCache /\ InlineBeg(b, pos, len) ->
         [b |-> [IovecDropFront(DropFront(b, 1, len, TRUE), 1, len)
                   EXCEPT !.len = @ - len, !.pc = NoPos],
          c |-> c, ok |-> TRUE]
    [] ~UserCache /\ ~InlineBeg(b, pos, len) /\ InlineEnd(b, pos, len) ->
         [b |-> [IovecLenAdd(b, b.num, -len) EXCEPT
                   !.nodes[b.num].data = SubSeq(@, 1, Len(@) - len),
                   !.len = @ - len, !.pc = NoPos],
          c |-> c, ok |-> TRUE]
    [] OTHER ->
         CASE pos = 1 /\ len = b.len -> DelAll(b, c)
           [] pos = 1 /\ len < b.len -> DelBeg(b, c, len)
           [] OTHER                  -> DelMid(b, c, pos, len)

-----------------------------------------------------------------------------
(* vstr__init_base() *)
NewBase ==
  [nodes |-> <<>>, used |-> 0, len |-> 0, num |-> 0, end |-> 0, types |-> {},
   upto |-> FALSE, pc |-> NoPos, minoff |-> IovMinOffset,
   vec |-> [sz |-> 0, off |-> 0, v |-> <<>>]]

(* vstr_make_conf(); the user holds one reference. *)
NewConf ==
  [spare |-> [t \in NodeTypes |-> 0], made |-> [t \in NodeTypes |-> 0], ref |-> 1]

Init ==
  /\ base = NewBase
  /\ conf = NewConf
  /\ call = [op |-> "make", ok |-> TRUE]

(* A call that returns r. *)
Returns(r, args) ==
  /\ base' = r.b
  /\ conf' = r.c
  /\ call' = [args EXCEPT !.ok = r.ok]

(* A prepend with which an up to date iovec cache that has room in front   *)
(* stays right: one node, before a first node without deleted data.        *)
PlainPrepend(in) == base.used = 0 /\ in.len <= MaxOf(in.type)

Add(pos, in) ==
  /\ base.len + in.len <= MaxLen
  /\ pos = 0 /\ base.len > 0 /\ base.upto /\ base.vec.off > 0 =>
       AnyPrepend \/ PlainPrepend(in)
  /\ Returns(AddOp(base, conf, pos, in),
             [op |-> "add", pos |-> pos, in |-> in, ok |-> TRUE])

Del(pos, len) ==
  Returns(DelOp(base, conf, pos, len),
          [op |-> "del", pos |-> pos, len |-> len, ok |-> TRUE])

Looked(ok) == call' = [op |-> "look", ok |-> ok]

(* A call that reads the string at pos, such as vstr_export_chr(). *)
ExportChr(pos) ==
  /\ base' = CachePos(base, pos, BasePos(base, pos))
  /\ UNCHANGED conf
  /\ Looked(TRUE)

(* vstr_export_iovec_ptr_all(): vstr__cache_iovec_valid(). *)
ExportIovec ==
  /\ ~base.upto
  /\ base' = IF base.len > 0 THEN IovecFill(IovecAlloc(base, base.num))
             ELSE [base EXCEPT !.upto = base.vec.sz > 0]
  /\ UNCHANGED conf
  /\ Looked(TRUE)

(* The same when malloc() fails: vec->off was already reset. *)
ExportIovecFails ==
  /\ VecFails /\ ~base.upto /\ base.len > 0
  /\ base.vec.sz = 0 \/ IovecGrows(base, base.num)
  /\ base' = IF base.vec.sz = 0 THEN base
             ELSE [base EXCEPT !.vec.off = IovecOff(base, base.num)]
  /\ UNCHANGED conf
  /\ Looked(FALSE)

(* vstr_make_spare_nodes() and vstr_free_spare_nodes() of one node. *)
MakeSpare(t) ==
  /\ conf.made[t] < Cap[t]
  /\ conf' = Ensure(conf, t, conf.spare[t] + 1).c
  /\ UNCHANGED base
  /\ Looked(TRUE)

FreeSpare(t) ==
  /\ conf.spare[t] > 0
  /\ conf' = [conf EXCEPT !.spare[t] = @ - 1, !.made[t] = @ - 1]
  /\ UNCHANGED base
  /\ Looked(TRUE)

Next ==
  \/ \E pos \in 0 .. base.len, in \in Inputs : Add(pos, in)
  \/ \E pos \in 1 .. base.len : \E len \in 1 .. base.len - pos + 1 : Del(pos, len)
  \/ \E pos \in 1 .. base.len : ExportChr(pos)
  \/ ExportIovec
  \/ ExportIovecFails
  \/ \E t \in SpareTypes : MakeSpare(t)
  \/ \E t \in SpareTypes : FreeSpare(t)

Spec == Init /\ [][Next]_vars

-----------------------------------------------------------------------------
(* Properties *)

(* The state's type. *)
TypeOK ==
  /\ \A i \in 1 .. Len(base.nodes) :
       base.nodes[i].id \in Ids /\ base.nodes[i].type \in NodeTypes
  /\ base.used \in 0 .. BufSz
  /\ base.len \in 0 .. MaxLen
  /\ base.num \in 0 .. MaxLen
  /\ base.end \in Ids \cup {0}
  /\ base.types \subseteq NodeTypes
  /\ base.upto \in BOOLEAN
  /\ base.vec.sz \in Nat /\ base.vec.off \in Nat
  /\ conf.spare \in [NodeTypes -> Nat]
  /\ conf.ref \in Nat

(* vstr__check_real_nodes(): the counts and flags of a base agree with its *)
(* list of nodes, no node is empty or too long, and only a leading BUF     *)
(* node has used data, and some data after it.                             *)
RealNodesOf(b) ==
  LET ns == b.nodes IN
  /\ b.num = Len(ns)
  /\ b.len = Upto(ns, Len(ns)) - b.used
  /\ b.end = (IF ns = <<>> THEN 0 ELSE ns[Len(ns)].id)
  /\ b.used > 0 => ns # <<>> /\ ns[1].type = "BUF" /\ b.used < NLen(ns[1])
  /\ \A i \in 1 .. Len(ns) :
       /\ NLen(ns[i]) \in 1 .. MaxOf(ns[i].type)
       /\ ns[i].type \in b.types
       /\ \A j \in 1 .. i - 1 : ns[j].id # ns[i].id

RealNodes == RealNodesOf(base)

(* vstr__check_spare_nodes(), and no node is lost: every node that was     *)
(* malloc'ed is in the string or on a spare list, and the spare lists are  *)
(* never asked for more than they hold.  The user's reference counts       *)
(* itself and the REF nodes.                                               *)
NodesConserved ==
  /\ \A t \in NodeTypes :
       /\ conf.spare[t] >= 0
       /\ conf.made[t] = conf.spare[t] + CountType(base.nodes, t)
  /\ conf.ref = 1 + CountType(base.nodes, "REF")

(* The position cache names a node of the string and the position at which *)
(* that node's data starts, so that a scan from it finds the right byte.   *)
PosCacheOf(b) ==
  b.pc.node # 0 =>
    \E i \in 2 .. Len(b.nodes) :
      /\ b.nodes[i].id = b.pc.node
      /\ b.pc.pos = Upto(b.nodes, i - 1) - b.used + 1

PosCacheNode == PosCacheOf(base)

(* After every call, one that failed half way too, the list of nodes, the  *)
(* counts of the string, the spare lists and the position cache agree: the *)
(* checks of vstr__check_real_nodes() and vstr__check_spare_nodes().       *)
NodesInv == TypeOK /\ RealNodes /\ NodesConserved /\ PosCacheNode

(* The number of the cached node in the list: the iovec cache is updated   *)
(* by that number.                                                         *)
PosCacheNum ==
  base.pc.node # 0 => base.pc.num = IndexOf(base, base.pc.node)

(* An up to date iovec cache is what vstr__cache_iovec_valid() would build *)
(* from the nodes now, inside its arrays.                                  *)
IovecExactOf(b) ==
  b.upto =>
    /\ b.vec.off + b.num <= b.vec.sz
    /\ b.vec.v = IovecFill(b).vec.v

(* While memory for nodes lasts the two caches are exact, whatever adds,   *)
(* deletes and looks maintained them by hand since they were built: the    *)
(* position cache knows the number of its node in the list, by which the   *)
(* iovec cache is updated, and that is what vstr__cache_iovec_check()      *)
(* expects.                                                                *)
CachesExact == PosCacheNum /\ IovecExactOf(base)

(* The abstract string of VstrAbs is the content of the nodes; the other   *)
(* string of that module plays no part.                                    *)
Abs == INSTANCE VstrAbs WITH str <- Content(base), from <- <<>>, call <- call

(* Every call does to the content of the nodes what it promises, or fails  *)
(* and leaves the content as it was, although it may have split a node.    *)
RefinesAbs == Abs!AbsSpec
=============================================================================
