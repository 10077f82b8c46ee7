----------------------------- MODULE MCOutbound -----------------------------
(* Two runs: one with a cap of two connects, one discovery-only run (cap 0). *)
EXTENDS Outbound, TLC

CONSTANTS t1, t2, r1, r2

MCCap == [r \in Runs |-> IF r = r1 THEN 2 ELSE 0]

\* No operator and no invariant tells the turns apart.
MCSymmetry == Permutations(Turns)
=============================================================================
