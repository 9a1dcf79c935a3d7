--------------------------- MODULE MCAlarmEngine ---------------------------
(***************************************************************************)
(* AlarmEngine for TLC: workers and schedules are interchangeable.         *)
(***************************************************************************)
EXTENDS AlarmEngine, TLC

Symmetry == Permutations(Workers) \cup Permutations(Schedules)

=============================================================================
