---------------------------- MODULE CommandLedger ----------------------------
(***************************************************************************)
(* What every explicit command to a radio promises about its durable       *)
(* ledger, whatever the command is (key, station, power, direct selection, *)
(* setting, zone change, zone creation, preset write): an intent is stored *)
(* before each write, one intent authorises one write, and the reported    *)
(* outcome says truthfully whether the radio may have been touched.        *)
(***************************************************************************)
EXTENDS Naturals

VARIABLES
  intents,    \* write intents committed by the current job
  writes,     \* requests of the job that left for a radio
  outcome     \* "open" while it runs, then what the caller was told

ledgerVars == <<intents, writes, outcome>>

\* "UNCHANGED" is a success without a write, "LOST" a process that died.
Outcomes == {"open", "UNCHANGED", "VERIFIED", "PENDING", "DIVERGED", "BLOCKED", "LOST"}

LedgerInit == intents = 0 /\ writes = 0 /\ outcome = "LOST"

\* The commit that opens a job may carry its first intent.
Begin ==
  /\ outcome # "open" /\ outcome' = "open"
  /\ intents' \in 0 .. 1 /\ UNCHANGED writes

\* A new intent is only stored when the write of the last one has left.
Intend ==
  /\ outcome = "open" /\ intents = writes
  /\ intents' = intents + 1
  /\ UNCHANGED <<writes, outcome>>

Write ==
  /\ outcome = "open" /\ writes < intents
  /\ writes' = writes + 1
  /\ UNCHANGED <<intents, outcome>>

\* BLOCKED and UNCHANGED promise an untouched radio; the others admit a write.
\* The tallies belong to the job and end with it.
End(o) ==
  /\ outcome = "open" /\ o \in Outcomes \ {"open"}
  /\ o \in {"BLOCKED", "UNCHANGED"} => writes = 0
  /\ o \in {"VERIFIED", "PENDING", "DIVERGED"} => writes > 0
  /\ outcome' = o /\ intents' = 0 /\ writes' = 0

LedgerNext == Begin \/ Intend \/ Write \/ \E o \in Outcomes : End(o)

LedgerSpec == LedgerInit /\ [][LedgerNext]_ledgerVars
=============================================================================
