---------------------------- MODULE MCVstrRefGrp ----------------------------
(* Model of VstrRefGrp for TLC: three blocks are enough for a full block   *)
(* given up while its slots are in use, a second one likewise, and a third *)
(* that the owner still uses.                                              *)
EXTENDS VstrRefGrp, TLC

CONSTANTS g1, g2, g3

const_Grp == {g1, g2, g3}

Symmetry == Permutations(const_Grp)
=============================================================================
