----------------------------- MODULE MCZoneJobs -----------------------------
(***************************************************************************)
(* ZoneJobs for TLC: two concurrent requests.                              *)
(***************************************************************************)
EXTENDS ZoneJobs, TLC

CONSTANTS j1, j2, r1, r2, r3

Symmetric == Permutations(Jobs) \cup Permutations(Radios)
=============================================================================
