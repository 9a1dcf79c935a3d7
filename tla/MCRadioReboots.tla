--------------------------- MODULE MCRadioReboots ---------------------------
(***************************************************************************)
(* RadioReboots for TLC.                                                   *)
(***************************************************************************)
EXTENDS RadioReboots, TLC

CONSTANTS p1, p2, b1, b2

MCHolders == Batches \cup {Setup}
Symmetric == Permutations(Procs) \cup Permutations(Batches)
=============================================================================
