---------------------------- MODULE MCVstrNodes ----------------------------
(* Models of VstrNodes for TLC.                                             *)
EXTENDS VstrNodes

In(type, obj, off, len) == [type |-> type, obj |-> obj, off |-> off, len |-> len]

Copy(len) == [type |-> "BUF", len |-> len, data |-> [k \in 1 .. len |-> <<"u", k>>]]

(* Copied data that fits into a node or needs two, data added by reference *)
(* that may or may not continue what is there.                             *)
BufInputs == {Copy(1), Copy(3)}
MemInputs == {Copy(3), In("PTR", "p", 1, 2)}
MixInputs == BufInputs \cup {In("NON", "non", 1, 1),
                             In("REF", "r", 1, 2), In("REF", "r", 3, 1)}

(* Memory that runs out, and enough of it. *)
CapMix == [t \in NodeTypes |->
             CASE t = "PTR" -> 0 [] t = "NON" -> 1 [] t = "REF" -> 2 [] OTHER -> 3]
CapMem == [t \in NodeTypes |-> 2 * MaxLen]

(* States are told apart up to the addresses of the nodes, which no        *)
(* operation looks at but to compare them, and up to the history of calls. *)
Rename(id) ==
  IF \E i \in 1 .. Len(base.nodes) : base.nodes[i].id = id
  THEN IndexOf(base, id) ELSE 0

(* The part of the state that the iovec cache does not influence. *)
ListView ==
  << [i \in 1 .. Len(base.nodes) |-> <<base.nodes[i].type, base.nodes[i].data>>],
     base.used, base.len, base.num, Rename(base.end), base.types,
     <<Rename(base.pc.node), base.pc.pos, base.pc.num>>, conf >>

View ==
  << ListView, base.upto, base.vec.sz, base.vec.off,
     [i \in 1 .. Len(base.vec.v) |->
        [base.vec.v[i] EXCEPT !.base[2] = Rename(@)]] >>
=============================================================================
