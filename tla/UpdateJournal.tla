--------------------------- MODULE UpdateJournal ---------------------------
(***************************************************************************)
(* The durable journal of the host update helper (update_helper/journal.py)*)
(* on its own: what any caller of begin(), transition() and                *)
(* recover_interrupted() can make of it.  UpdateTransaction is a caller    *)
(* and is shown to implement JournalSpec.                                  *)
(*                                                                         *)
(* jobs is the content of state.json.  Times, codes and digests are left   *)
(* out; a digest is reduced to whether it was recorded.                    *)
(***************************************************************************)
EXTENDS Naturals, Sequences, FiniteSets

CONSTANTS
  Ids,         \* request identities
  Versions,    \* released versions, as numbers
  MaxJobs,     \* MAX_JOBS: jobs the journal retains
  MaxEvents    \* MAX_EVENTS: events one job may have

ASSUME JournalAssumption ==
  /\ Versions \subseteq Nat
  /\ MaxJobs \in Nat \ {0}
  /\ MaxEvents \in Nat \ {0}

VARIABLE jobs

TERMINAL == {"COMPLETE", "RESTORED", "FAILED", "MANUAL_ACTION_REQUIRED"}
BEFORE_CUTOVER == {"REQUESTED", "VALIDATED", "STAGING", "STAGED"}
ForwardOf ==
  [REQUESTED |-> "VALIDATED", VALIDATED |-> "STAGING", STAGING |-> "STAGED",
   STAGED |-> "STOP_REQUESTED", STOP_REQUESTED |-> "STOPPED",
   STOPPED |-> "BACKUP_STARTED", BACKUP_STARTED |-> "BACKED_UP",
   BACKED_UP |-> "START_REQUESTED", START_REQUESTED |-> "STARTED",
   STARTED |-> "VERIFIED", VERIFIED |-> "COMPLETE"]
STATES == DOMAIN ForwardOf \cup TERMINAL \cup {"ROLLING_BACK"}

\* NEXT: the states that may follow s.
NEXT(s) ==
  CASE s = "ROLLING_BACK" -> {"RESTORED", "MANUAL_ACTION_REQUIRED"}
    [] s \in TERMINAL -> {}
    [] s \in BEFORE_CUTOVER -> {ForwardOf[s], "FAILED"}
    [] OTHER -> {ForwardOf[s], "ROLLING_BACK", "MANUAL_ACTION_REQUIRED"}

Job == [id : Ids, target : Versions, current : Versions, state : STATES,
        backup : BOOLEAN, artifact : BOOLEAN, events : Seq(STATES)]

\* Type invariant: state.json is a list of jobs.
JournalTypeOK == jobs \in Seq(Job)

\* A job that keeps the journal from taking another one.
Open(j) == j.state \notin TERMINAL \/ j.state = "MANUAL_ACTION_REQUIRED"

Recorded(j, s) == \E i \in DOMAIN j.events : j.events[i] = s

-----------------------------------------------------------------------------
\* _validate_state(), of one job: its events are a path of NEXT that ends in its
\* state, and a digest is there exactly when its event is.
ValidJob(j) ==
  /\ Len(j.events) \in 1 .. MaxEvents
  /\ j.events[1] = "REQUESTED"
  /\ \A i \in 2 .. Len(j.events) : j.events[i] \in NEXT(j.events[i - 1])
  /\ j.events[Len(j.events)] = j.state
  /\ Recorded(j, "BACKED_UP") <=> j.backup
  /\ Recorded(j, "STAGED") <=> j.artifact

\* _validate_state(), of the file: bounded, identities used once, and only the
\* last job open.
Valid(js) ==
  /\ Len(js) <= MaxJobs
  /\ \A k \in DOMAIN js : ValidJob(js[k]) /\ (Open(js[k]) => k = Len(js))
  /\ \A k, m \in DOMAIN js : js[k].id = js[m].id => k = m

NewJob(id, t, c) ==
  [id |-> id, target |-> t, current |-> c, state |-> "REQUESTED",
   backup |-> FALSE, artifact |-> FALSE, events |-> <<"REQUESTED">>]

\* transition(): the job with its next state recorded.
Moved(j, s) ==
  [j EXCEPT !.state = s, !.events = Append(@, s),
            !.backup = @ \/ s = "BACKED_UP", !.artifact = @ \/ s = "STAGED"]

Written(k, s) == [jobs EXCEPT ![k] = Moved(@, s)]

\* transition() and save() accept the move.
Accepts(k, s) == s \in NEXT(jobs[k].state) /\ Valid(Written(k, s))

\* begin(): a known identity is answered and never run again; an open job or a
\* full journal refuses the request.
MayBegin(id) ==
  /\ \A k \in DOMAIN jobs : jobs[k].id # id /\ ~Open(jobs[k])
  /\ Len(jobs) < MaxJobs

Begin(id, t, c) ==
  /\ MayBegin(id)
  /\ Valid(Append(jobs, NewJob(id, t, c)))
  /\ jobs' = Append(jobs, NewJob(id, t, c))

Transition(k, s) ==
  /\ Accepts(k, s)
  /\ jobs' = Written(k, s)

\* recover_interrupted(): where a job that a lost process left goes.
RecoveryState(s) ==
  IF s \in BEFORE_CUTOVER THEN "FAILED" ELSE "MANUAL_ACTION_REQUIRED"

Recover ==
  \E k \in DOMAIN jobs :
    /\ jobs[k].state \notin TERMINAL
    /\ Transition(k, RecoveryState(jobs[k].state))

JournalInit == jobs = <<>>

JournalNext ==
  \/ \E id \in Ids, t, c \in Versions : Begin(id, t, c)
  \/ \E k \in DOMAIN jobs, s \in STATES : Transition(k, s)
  \/ Recover

JournalSpec == JournalInit /\ [][JournalNext]_jobs

-----------------------------------------------------------------------------
\* transition(), "Request IDs are retained": no step drops, reorders or rewrites
\* a job, a settled job never changes again, and recorded events only grow.
HistoryKept ==
  [][/\ Len(jobs) <= Len(jobs')
     /\ \A k \in DOMAIN jobs :
          /\ jobs'[k].id = jobs[k].id
          /\ jobs[k].state \in TERMINAL => jobs'[k] = jobs[k]
          /\ \A i \in DOMAIN jobs[k].events :
               i \in DOMAIN jobs'[k].events /\ jobs'[k].events[i] = jobs[k].events[i]
    ]_jobs

\* transition() with NEXT: whoever drives the journal, a candidate start is
\* never recorded for a job without a staged artifact and a recorded backup.
BackupBeforeStart ==
  \A k \in DOMAIN jobs :
    Recorded(jobs[k], "START_REQUESTED") => jobs[k].backup /\ jobs[k].artifact

\* begin() after MANUAL_ACTION_REQUIRED: the journal accepts no job until an
\* operator has acted, so an unexplained installation is never updated again.
ManualBlocks ==
  [][\A k \in DOMAIN jobs :
       jobs[k].state = "MANUAL_ACTION_REQUIRED" => jobs' = jobs]_jobs
=============================================================================
