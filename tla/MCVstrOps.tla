----------------------------- MODULE MCVstrOps -----------------------------
(* Models of VstrOps for TLC.                                               *)
EXTENDS VstrOps

CopyOf(len) == Buf([k \in 1 .. len |-> <<"u", k>>])

Ref(off, len) == [type |-> "REF", len |-> len, obj |-> "r", off |-> off]

MixInputs == {CopyOf(3), Ref(1, 2)}

MixSubs == {CopyOf(2), Ref(1, 1)}

Sizes == {<<1, 2>>}

CapOps == [t \in NodeTypes |-> CASE t = "BUF" -> 3 [] t = "REF" -> 2 [] OTHER -> 1]

(* States are told apart up to the addresses of the nodes, which no        *)
(* operation looks at but to compare them, and up to the history of calls. *)
Rename(b, id) ==
  IF \E i \in 1 .. Len(b.nodes) : b.nodes[i].id = id THEN IndexOf(b, id) ELSE 0

ViewOf(b) ==
  << [i \in 1 .. Len(b.nodes) |-> <<b.nodes[i].type, b.nodes[i].data>>],
     b.used, b.len, b.num, Rename(b, b.end), b.types,
     <<Rename(b, b.pc.node), b.pc.pos, b.pc.num>>, b.upto, b.vec.sz, b.vec.off,
     b.minoff, [i \in 1 .. Len(b.vec.v) |-> [b.vec.v[i] EXCEPT !.base[2] = Rename(b, @)]] >>

VARIABLE calls  \* how many calls were made

MCInit == OpsInit /\ calls = 0

MCNext == OpsNext /\ calls' = calls + 1

MCSpec == MCInit /\ [][MCNext]_<<opsVars, calls>>

CONSTANT MaxCalls  \* bound: the calls that are made one after the other

FewCalls == calls < MaxCalls

View == << ViewOf(base), ViewOf(other), conf, bad, calls >>
=============================================================================
