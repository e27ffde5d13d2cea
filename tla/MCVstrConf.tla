---------------------------- MODULE MCVstrConf ----------------------------
(* Models of VstrConf for TLC. *)
EXTENDS VstrConf, TLC

CONSTANTS c1, c2, b1, b2, n1, n2, n3, l1, l2, k1, k2

Confs2 == {c1, c2}
Bases2 == {b1, b2}
Nodes3 == {n1, n2, n3}
Links2 == {l1, l2}
Caches2 == {k1, k2}

(* The nodes are explored without user caches and with one way to allocate *)
(* a string, user caches with two strings without nodes, and the ways to   *)
(* allocate a string with one.                                             *)
NoCaches == \A c \in Conf : conf[c].cbs = <<>>
OneGrp == \A c \in Conf : conf[c].grpalloc = GrpPos
NoNodes == \A n \in Node : node[n] = NoNode
OneString == Cardinality({b \in Base : base[b].st # "none"}) <= 1

Apart == (NoCaches /\ OneGrp) \/ (NoNodes /\ (OneGrp \/ OneString))

Symmetry == Permutations(Confs2) \cup Permutations(Bases2)
            \cup Permutations(Nodes3) \cup Permutations(Links2)
=============================================================================
