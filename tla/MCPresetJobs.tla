---------------------------- MODULE MCPresetJobs ----------------------------
(***************************************************************************)
(* PresetJobs for TLC: slots and stations are interchangeable.             *)
(***************************************************************************)
EXTENDS PresetJobs, TLC

Symmetric == Permutations(Slots) \cup Permutations(Selections)
=============================================================================
