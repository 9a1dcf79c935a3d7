------------------------- MODULE MCSetupCoordinator -------------------------
(***************************************************************************)
(* SetupCoordinator for TLC.                                               *)
(***************************************************************************)
EXTENDS SetupCoordinator, TLC

CONSTANTS p1, p2, j1

MCHolders == Procs \X (Jobs \cup {Review})

Minimal == [mode |-> "normal", ssh |-> "no", pair |-> FALSE, playback |-> FALSE]
MinimalPlan == {Minimal}

\* Every plan preview() can approve: the original restore has no options.
AllPlans ==
  {pl \in Plan : pl.mode = "original" => pl.ssh = "no" /\ ~pl.pair /\ ~pl.playback}

ProcSymmetry == Permutations(Procs)
=============================================================================
