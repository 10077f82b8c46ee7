------------------------------ MODULE MCAutoRun ------------------------------
(* Instances of AutoRun for TLC.  Symmetric: turn identities are only       *)
(* compared for equality.                                                   *)
EXTENDS AutoRun, TLC

TurnSymmetry == Permutations(Turns)

AllEnv == EnvKinds
=============================================================================
