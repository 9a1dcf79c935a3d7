---------------------------- MODULE LiveReconnect ----------------------------
(***************************************************************************)
(* The opt-in, one-shot reconnect of the cloud process: a native FINISH    *)
(* report turns the ARMED row of the current session into a PENDING job,   *)
(* a task waits, takes the radio's lock, reads, backs up, reads again,     *)
(* claims the row and selects once. Every explicit command gives the row a *)
(* new generation, which disowns the task (its field mine).                *)
(***************************************************************************)
EXTENDS RadioState

CONSTANTS
  Tasks,          \* slots for reconnect tasks that exist at the same time
  OptIns          \* the preferences the radio may start with

VARIABLES
  optIn,      \* the preference of the radio
  row,        \* phase of the durable reconnect row, "none" without a row
  rc,         \* the tasks: step, whether the row is still theirs, first reading
  report      \* a native report on its way to the cloud process

reconnectVars == <<optIn, row, rc, report>>

Phases == {"none", "ARMED", "PENDING", "ATTEMPTED", "CANCELLED", "FINISHED"}
Blank == [sel |-> "invalid", vol |-> "low", mute |-> FALSE, zone |-> 0]
Idle == [pc |-> "idle", mine |-> FALSE, seen |-> Blank]
RcHolding == {"claim", "post", "verify"}

ReconnectTypeOK ==
  /\ optIn \in BOOLEAN /\ row \in Phases
  /\ report \in {"none", "FINISH", "STOP"}
  /\ rc \in [Tasks -> [pc : {"idle", "sleep"} \cup RcHolding, mine : BOOLEAN,
                       seen : Snapshots]]

ReconnectInit ==
  /\ optIn \in OptIns /\ report = "none"
  /\ row \in IF optIn THEN {"none", "ARMED"} ELSE {"none"}
  /\ rc = [t \in Tasks |-> Idle]

-----------------------------------------------------------------------------
\* A new generation: no task owns the row any more.
Disowned == [t \in Tasks |-> [rc[t] EXCEPT !.mine = FALSE]]

\* What any explicit command does to the row, inside its own commit.
cancel ==
  IF row = "none" THEN UNCHANGED <<row, rc>>
  ELSE row' = "CANCELLED" /\ rc' = Disowned

\* The opt-in is changed in the browser, without the radio's lock.
save_preference ==
  \E v \in BOOLEAN : optIn' = v /\ cancel /\ UNCHANGED <<report, radio, target>>

\* The provider serves a new native selection.
observe_contract ==
  IF optIn THEN row' = "ARMED" /\ rc' = Disowned ELSE UNCHANGED <<row, rc>>

\* A report is handled: progress, cooldown and freshness decide whether a
\* FINISH is followed up.
observe_report ==
  /\ report # "none" /\ report' = "none"
  /\ \/ UNCHANGED <<row, rc>>
     \/ /\ optIn /\ row = "ARMED" /\ report = "FINISH"
        /\ \/ row' = "CANCELLED" /\ UNCHANGED rc
           \/ /\ row' = "PENDING"
              /\ \E t \in Tasks :
                   /\ rc[t].pc = "idle"
                   /\ rc' = [rc EXCEPT ![t] = [Idle EXCEPT !.pc = "sleep", !.mine = TRUE]]
     \/ optIn /\ row = "ARMED" /\ report = "STOP" /\ cancel
  /\ UNCHANGED <<optIn, radio, target>>

\* The stream of the selected station ends and the radio says so.
StreamEnds ==
  /\ radio.sel = "playing" /\ report = "none"
  /\ radio' = [radio EXCEPT !.sel = "invalid"]
  /\ report' = "FINISH"
  /\ UNCHANGED <<target, optIn, row, rc>>

\* The radio reports that it was stopped.
StopReported ==
  /\ radio.sel = "stopped" /\ report = "none" /\ report' = "STOP"
  /\ UNCHANGED <<radio, target, optIn, row, rc>>

-----------------------------------------------------------------------------
CurrentPhase(t, phases) == optIn /\ row \in phases

\* The row is still this task's, in one of the phases, and the radio is opted in.
Current(t, phases) == optIn /\ rc[t].mine /\ row \in phases

\* After its delay the task owns the radio's lock and reads everything once;
\* the backup is committed.
RcRead(t) ==
  /\ rc[t].pc = "sleep" /\ Current(t, {"PENDING"})
  /\ radio.sel = "invalid" /\ radio.zone = 0
  /\ rc' = [rc EXCEPT ![t].pc = "claim", ![t].seen = Snap]
  /\ UNCHANGED <<optIn, row, report, radio, target>>

\* The second reading equals the first and the row is claimed for one use.
RcClaim(t) ==
  /\ rc[t].pc = "claim" /\ Current(t, {"PENDING"})
  /\ Snap = rc[t].seen
  /\ row' = "ATTEMPTED"
  /\ rc' = [rc EXCEPT ![t].pc = "post", ![t].seen = Blank]
  /\ UNCHANGED <<optIn, report, radio, target>>

\* The only selection; its answer may be lost.
RcPost(t) ==
  /\ rc[t].pc = "post" /\ Current(t, {"ATTEMPTED"})
  /\ rc' = [rc EXCEPT ![t].pc = "verify"]
  /\ radio' \in Effect("select") \cup {radio}
  /\ UNCHANGED <<optIn, row, report, target>>

\* The task ends, with a result or stopped by anything it checks; only its own
\* row is marked, and not even that when the database refuses.
RcEnd(t) ==
  /\ rc[t].pc # "idle"
  /\ rc' = [rc EXCEPT ![t] = Idle]
  /\ row' \in {row, IF rc[t].mine THEN "FINISHED" ELSE row}
  /\ UNCHANGED <<optIn, report, radio, target>>

\* The cloud process dies: no task is ever started again from the row.
CloudRestarts ==
  /\ \E t \in Tasks : rc[t].pc # "idle"
  /\ rc' = [t \in Tasks |-> Idle]
  /\ UNCHANGED <<optIn, row, report, radio, target>>
=============================================================================
