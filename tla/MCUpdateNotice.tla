--------------------------- MODULE MCUpdateNotice ---------------------------
(* Two instances, two versions of which the second is the bridge, and       *)
(* generations that run out.                                               *)
EXTENDS UpdateNotice, TLC

Symmetry == Permutations(Instances)
=============================================================================
