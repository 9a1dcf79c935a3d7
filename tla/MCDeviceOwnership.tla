------------------------- MODULE MCDeviceOwnership -------------------------
(***************************************************************************)
(* DeviceOwnership for TLC: two workers, one with two tasks, two radios.   *)
(***************************************************************************)
EXTENDS DeviceOwnership, TLC

CONSTANTS w1, w2, t1, t2, t3, dA, dB

MCWorkerOf == (t1 :> w1) @@ (t2 :> w1) @@ (t3 :> w2)
MCRank == (dA :> 1) @@ (dB :> 2)

\* The tasks of one worker are interchangeable; radios are ordered by Rank.
TaskSymmetry == Permutations({t1, t2})
=============================================================================
