------------------------- MODULE UpdateTransaction -------------------------
(***************************************************************************)
(* The journalled update of the host installation: TransactionRunner       *)
(* (transaction.py) driving ProductionExecutor (host_executor.py) and the  *)
(* file exchange (installation_cutover.py), in a daemon (daemon.py) that   *)
(* may die between any two steps and recovers from the journal.            *)
(*                                                                         *)
(* A generation of the installed files is numbered by the job that brought *)
(* it, 0 before the first.  A container is numbered too: 0 the first one,  *)
(* k the candidate job k creates, MaxJobs + k the original runtime that a  *)
(* rollback of job k recreates.  pc is the runner's next step; a state of  *)
(* the journal as pc is the journal write of that state.                   *)
(***************************************************************************)
EXTENDS UpdateJournal

CONSTANTS
  Entries,      \* top-level names that are exchanged
  Data,         \* the entry that holds the application's data
  FirstVersion, \* the version installed by onboarding
  MaxFaults     \* bound: process deaths and journal I/O errors

ASSUME TransactionAssumption ==
  /\ Data \in Entries
  /\ FirstVersion \in Versions
  /\ MaxFaults \in Nat

VARIABLES
  pc,          \* the runner's next step; "idle", or "down" when no process runs
  mem,         \* ProductionExecutor's fields for the active plan (volatile)
  ioFailed,    \* the journal's io_failed latch (volatile)
  containers,  \* docker: [Cids -> state and the generation of the image]
  files,       \* [Entries -> generation in the live installation directory]
  enrolled,    \* enrollment.json: container, version and file generation
  cred,        \* the administrator changed credentials under the candidate
  faults       \* faults so far

hostVars == <<containers, files, enrolled, cred>>
tvars == <<jobs, pc, mem, ioFailed, containers, files, enrolled, cred, faults>>

Gens == 0 .. MaxJobs
Cids == 0 .. 2 * MaxJobs
Container == [st : {"none", "created", "running", "exited"}, gen : Gens]
Enrollment == [cid : Cids, ver : Versions, gen : Gens]
Memory == [orig : Enrollment, cut : BOOLEAN, live : Gens, oldRm : BOOLEAN,
           restore : Cids]

ForwardSteps ==
  {"check1", "prepare", "check2", "stop", "backup", "validate", "cutover",
   "exchange", "create", "start", "health", "enroll", "remove", "health2"}
RestoreSteps ==
  {"rb_stop", "rb_check", "rb_exchange", "rb_create", "rb_enroll", "rb_start",
   "rb_health", "rb_clean"}

\* Type invariant of the helper's volatile and durable state.
TransactionTypeOK ==
  /\ JournalTypeOK
  /\ pc \in ForwardSteps \cup RestoreSteps \cup STATES \cup {"idle", "down", "failed"}
  /\ mem \in Memory
  /\ ioFailed \in BOOLEAN
  /\ containers \in [Cids -> Container]
  /\ files \in [Entries -> Gens]
  /\ enrolled \in Enrollment
  /\ cred \in BOOLEAN
  /\ faults \in 0 .. MaxFaults

FirstEnrollment == [cid |-> 0, ver |-> FirstVersion, gen |-> 0]
NoPlan(e) == [orig |-> e, cut |-> FALSE, live |-> 0, oldRm |-> FALSE, restore |-> e.cid]

Init ==
  /\ JournalInit
  /\ pc = "idle"
  /\ mem = NoPlan(FirstEnrollment)
  /\ ioFailed = FALSE
  /\ containers = [c \in Cids |-> [st |-> IF c = 0 THEN "running" ELSE "none", gen |-> 0]]
  /\ files = [e \in Entries |-> 0]
  /\ enrolled = FirstEnrollment
  /\ cred = FALSE
  /\ faults = 0

-----------------------------------------------------------------------------
(***************************************************************************)
(* Observations of the host                                                *)
(***************************************************************************)

This == Len(jobs)                  \* the active job is the last one
Candidate == This                  \* its container and its file generation
Running(c) == containers[c].st = "running"
SetState(c, st) == [containers EXCEPT ![c].st = st]

\* inspect_files() and inspect_runtime(): the host is what was enrolled.
Inspected(e) == Running(e.cid) /\ \A n \in Entries : files[n] = e.gen

\* confirm_stopped(): the anchor has exited and no container writes the files.
Quiet(c) == containers[c].st = "exited" /\ \A b \in Cids : ~Running(b)

\* _old_exists(), asked only after the removal was requested.
OldExists == mem.oldRm => containers[mem.orig.cid].st # "none"

\* The runner goes on, or an action that took effect reports a failure: a lost
\* reply, a timeout of the command, an fsync of the receipt.
Forward(next) == pc' \in {next, "failed"}
Restoring(next) == pc' \in {next, "MANUAL_ACTION_REQUIRED"}

\* A failure before any effect; also what every check that rejects comes to.
Rejected ==
  /\ \/ pc \in ForwardSteps /\ pc' = "failed"
     \/ pc \in RestoreSteps /\ pc' = "MANUAL_ACTION_REQUIRED"
  /\ UNCHANGED <<jobs, mem, ioFailed, faults, hostVars>>

-----------------------------------------------------------------------------
(***************************************************************************)
(* Requests and journal writes                                             *)
(***************************************************************************)

\* execute(): under the exclusive lock, reserve the job durably, then run it.
\* A request that finds the lock taken is BUSY and changes nothing.
Submit(id, t, c) ==
  /\ pc = "idle"
  /\ ~ioFailed
  /\ Begin(id, t, c)
  /\ pc' = "check1"
  /\ cred' = FALSE
  /\ UNCHANGED <<mem, ioFailed, containers, files, enrolled, faults>>

\* save() fails in begin(): the new file may or may not have replaced the old.
SubmitFails(id, t, c) ==
  /\ pc = "idle"
  /\ ~ioFailed
  /\ faults < MaxFaults
  /\ \/ Begin(id, t, c) /\ cred' = FALSE
     \/ MayBegin(id) /\ UNCHANGED <<jobs, cred>>
  /\ ioFailed' = TRUE
  /\ faults' = faults + 1
  /\ UNCHANGED <<pc, mem, containers, files, enrolled>>

\* What the runner does once a state is durable.
AfterRecord(s) ==
  CASE s = "VALIDATED" -> "STAGING"
    [] s = "STAGING" -> "prepare"
    [] s = "STAGED" -> "check2"
    [] s = "STOP_REQUESTED" -> "stop"
    [] s = "STOPPED" -> "BACKUP_STARTED"
    [] s = "BACKUP_STARTED" -> "backup"
    [] s = "BACKED_UP" -> "START_REQUESTED"
    [] s = "START_REQUESTED" -> "validate"
    [] s = "STARTED" -> "health"
    [] s = "VERIFIED" -> "COMPLETE"
    [] s = "ROLLING_BACK" -> "rb_stop"
    [] OTHER -> "idle"

\* step(): record the state, then act on it.
Record ==
  /\ pc \in STATES
  /\ Transition(This, pc)
  /\ pc' = AfterRecord(pc)
  /\ UNCHANGED <<mem, ioFailed, faults, hostVars>>

\* step() meets a journal I/O error: no new host action is safe, the runner
\* ends and the latch refuses every later request of this process.
RecordFails ==
  /\ pc \in STATES
  /\ faults < MaxFaults
  /\ Transition(This, pc) \/ UNCHANGED jobs
  /\ pc' = "idle"
  /\ ioFailed' = TRUE
  /\ faults' = faults + 1
  /\ UNCHANGED <<mem, hostVars>>

\* except _ActionFailed: nothing to undo before the cutover.
FailureState(s) == IF s \in BEFORE_CUTOVER THEN "FAILED" ELSE "ROLLING_BACK"

Handle ==
  /\ pc = "failed"
  /\ pc' = FailureState(jobs[This].state)
  /\ UNCHANGED <<jobs, mem, ioFailed, faults, hostVars>>

-----------------------------------------------------------------------------
(***************************************************************************)
(* The forward half                                                        *)
(***************************************************************************)

\* newer(), current_version(), preflight(): freeze the original installation.
Check1 ==
  /\ pc = "check1"
  /\ jobs[This].target > jobs[This].current
  /\ enrolled.ver = jobs[This].current
  /\ Inspected(enrolled)
  /\ mem' = NoPlan(enrolled)
  /\ pc' = "VALIDATED"
  /\ UNCHANGED <<jobs, ioFailed, faults, hostVars>>

\* prepare_candidate(): stage and build beside the running installation.
Prepare ==
  /\ pc = "prepare"
  /\ pc' = "STAGED"
  /\ UNCHANGED <<jobs, mem, ioFailed, faults, hostVars>>

\* current_version() and preflight() again, just before downtime.
Check2 ==
  /\ pc = "check2"
  /\ enrolled = mem.orig
  /\ Inspected(enrolled)
  /\ pc' = "STOP_REQUESTED"
  /\ UNCHANGED <<jobs, mem, ioFailed, faults, hostVars>>

StopOriginal ==
  /\ pc = "stop"
  /\ enrolled = mem.orig
  /\ Inspected(enrolled)
  /\ containers' = SetState(mem.orig.cid, "exited")
  /\ Forward("STOPPED")
  /\ UNCHANGED <<jobs, mem, ioFailed, faults, files, enrolled, cred>>

\* backup_original(): capture() reads quiescent files only.
BackupOriginal ==
  /\ pc = "backup"
  /\ Quiet(mem.orig.cid)
  /\ Forward("BACKED_UP")
  /\ UNCHANGED <<jobs, mem, ioFailed, faults, hostVars>>

\* start_candidate(): the candidate passes on a copy of the data, isolated.
ValidateCandidate ==
  /\ pc = "validate"
  /\ Quiet(mem.orig.cid)
  /\ pc' = "cutover"
  /\ UNCHANGED <<jobs, mem, ioFailed, faults, hostVars>>

\* cutover.prepare(): the plan is durable before the first exchange.
PrepareCutover ==
  /\ pc = "cutover"
  /\ Quiet(mem.orig.cid)
  /\ \A n \in Entries : files[n] = mem.orig.gen
  /\ mem' = [mem EXCEPT !.cut = TRUE]
  /\ Forward("exchange")
  /\ UNCHANGED <<jobs, ioFailed, faults, hostVars>>

\* cutover.exchange(): one atomic renameat2 per entry.
ExchangeEntry(n) ==
  /\ pc = "exchange"
  /\ Quiet(mem.orig.cid)
  /\ files[n] = mem.orig.gen
  /\ files' = [files EXCEPT ![n] = Candidate]
  /\ Forward("exchange")
  /\ UNCHANGED <<jobs, mem, ioFailed, faults, containers, enrolled, cred>>

\* An exchange that trusts one entry for all of them.
SomeExchanged == \E n \in Entries : files[n] = Candidate

AllExchanged == \A n \in Entries : files[n] = Candidate

ExchangeDone ==
  /\ pc = "exchange"
  /\ AllExchanged
  /\ Forward("create")
  /\ UNCHANGED <<jobs, mem, ioFailed, faults, hostVars>>

\* _create(): the object may exist although its identity was never learnt.
CreateCandidate ==
  /\ pc = "create"
  /\ containers' = [containers EXCEPT ![Candidate] = [st |-> "created", gen |-> Candidate]]
  /\ \/ mem' = [mem EXCEPT !.live = Candidate] /\ Forward("start")
     \/ mem' = mem /\ pc' = "failed"
  /\ UNCHANGED <<jobs, ioFailed, faults, files, enrolled, cred>>

StartCandidate ==
  /\ pc = "start"
  /\ containers' = SetState(mem.live, "running")
  /\ Forward("STARTED")
  /\ UNCHANGED <<jobs, mem, ioFailed, faults, files, enrolled, cred>>

\* verify_candidate(), before the enrollment and after the removal.
HealthCandidate ==
  /\ \/ pc = "health" /\ pc' = "enroll"
     \/ pc = "health2" /\ pc' = "VERIFIED"
  /\ Running(mem.live)
  /\ \A n \in Entries : files[n] = Candidate
  /\ UNCHANGED <<jobs, mem, ioFailed, faults, hostVars>>

\* live_policy: what the installation is once the candidate is verified.
LivePolicy == [cid |-> mem.live, ver |-> jobs[This].target, gen |-> Candidate]

EnrollCandidate ==
  /\ pc = "enroll"
  /\ enrolled = mem.orig
  /\ enrolled' = LivePolicy
  /\ Forward("remove")
  /\ UNCHANGED <<jobs, mem, ioFailed, faults, containers, files, cred>>

\* The removal may be requested and fail, or succeed and report failure.
RemoveOriginal ==
  /\ pc = "remove"
  /\ containers[mem.orig.cid].st = "exited"
  /\ mem' = [mem EXCEPT !.oldRm = TRUE]
  /\ \/ containers' = SetState(mem.orig.cid, "none") /\ Forward("health2")
     \/ containers' = containers /\ pc' = "failed"
  /\ UNCHANGED <<jobs, ioFailed, faults, files, enrolled, cred>>

-----------------------------------------------------------------------------
(***************************************************************************)
(* restore_original() and verify_original()                                *)
(***************************************************************************)

\* The candidate is stopped before any file or enrollment is touched.
StopCandidate ==
  /\ pc = "rb_stop"
  /\ \/ /\ mem.live # 0 /\ Running(mem.live)
        /\ containers' = SetState(mem.live, "exited")
        /\ Restoring("rb_check")
     \/ /\ mem.live = 0 \/ ~Running(mem.live)
        /\ containers' = containers
        /\ pc' = "rb_check"
  /\ UNCHANGED <<jobs, mem, ioFailed, faults, files, enrolled, cred>>

\* A rollback that does not compare the credentials of both generations.
CredentialsIgnored == TRUE

\* assert_credential_continuity(), before the first reverse rename.
CredentialsContinue == files[Data] = Candidate => ~cred

Anchor == IF OldExists THEN mem.orig.cid ELSE mem.live

\* exchange(rollback=True), its checks; without a plan there is nothing to do.
CheckRollback ==
  /\ pc = "rb_check"
  /\ \/ ~mem.cut /\ pc' = "rb_create"
     \/ mem.cut /\ Quiet(Anchor) /\ CredentialsContinue /\ pc' = "rb_exchange"
  /\ UNCHANGED <<jobs, mem, ioFailed, faults, hostVars>>

ReverseEntry(n) ==
  /\ pc = "rb_exchange"
  /\ Quiet(Anchor)
  /\ files[n] = Candidate
  /\ files' = [files EXCEPT ![n] = mem.orig.gen]
  /\ Restoring("rb_exchange")
  /\ UNCHANGED <<jobs, mem, ioFailed, faults, containers, enrolled, cred>>

ReverseDone ==
  /\ pc = "rb_exchange"
  /\ \A n \in Entries : files[n] = mem.orig.gen
  /\ Restoring("rb_create")
  /\ UNCHANGED <<jobs, mem, ioFailed, faults, hostVars>>

\* The original container, or its approved runtime recreated.
RecreateOriginal ==
  LET new == MaxJobs + This
  IN /\ pc = "rb_create"
     /\ \/ OldExists /\ pc' = "rb_enroll" /\ UNCHANGED <<containers, mem>>
        \/ /\ ~OldExists
           /\ containers' = [containers EXCEPT ![new] = [st |-> "created", gen |-> mem.orig.gen]]
           /\ mem' = [mem EXCEPT !.restore = new]
           /\ Restoring("rb_enroll")
     /\ UNCHANGED <<jobs, ioFailed, faults, files, enrolled, cred>>

\* A rollback that leaves the candidate's enrollment in place.
EnrollmentKept == enrolled

RestoredEnrollment == [mem.orig EXCEPT !.cid = mem.restore]

EnrollOriginal ==
  /\ pc = "rb_enroll"
  /\ enrolled \in {mem.orig, LivePolicy}
  /\ enrolled' = RestoredEnrollment
  /\ Restoring("rb_start")
  /\ UNCHANGED <<jobs, mem, ioFailed, faults, containers, files, cred>>

StartOriginal ==
  /\ pc = "rb_start"
  /\ containers' = SetState(mem.restore, "running")
  /\ Restoring("rb_health")
  /\ UNCHANGED <<jobs, mem, ioFailed, faults, files, enrolled, cred>>

HealthOriginal ==
  /\ pc = "rb_health"
  /\ Running(mem.restore)
  /\ \A n \in Entries : files[n] = mem.orig.gen
  /\ pc' = "rb_clean"
  /\ UNCHANGED <<jobs, mem, ioFailed, faults, hostVars>>

RemoveCandidate ==
  /\ pc = "rb_clean"
  /\ \/ mem.live = 0 /\ pc' = "RESTORED" /\ UNCHANGED containers
     \/ /\ mem.live # 0 /\ ~Running(mem.live)
        /\ containers' = SetState(mem.live, "none")
        /\ Restoring("RESTORED")
  /\ UNCHANGED <<jobs, mem, ioFailed, faults, files, enrolled, cred>>

-----------------------------------------------------------------------------
(***************************************************************************)
(* The daemon and the running application                                  *)
(***************************************************************************)

\* The helper dies, at any step; containers and files stay as they are.
Crash ==
  /\ pc # "down"
  /\ faults < MaxFaults
  /\ pc' = "down"
  /\ mem' = NoPlan(FirstEnrollment)
  /\ ioFailed' = FALSE
  /\ faults' = faults + 1
  /\ UNCHANGED <<jobs, hostVars>>

\* A restart that resets a journal with an unfinished job.
RestartResets ==
  /\ pc = "down"
  /\ jobs' = <<>>
  /\ pc' = "idle"
  /\ UNCHANGED <<mem, ioFailed, faults, hostVars>>

\* A restart that serves without reconciling.
RestartUnreconciled ==
  /\ pc = "down"
  /\ pc' = "idle"
  /\ UNCHANGED <<jobs, mem, ioFailed, faults, hostVars>>

\* main(): recover_interrupted(), no host action and no replay, then serve.
Restart ==
  /\ pc = "down"
  /\ IF This > 0 /\ jobs[This].state \notin TERMINAL THEN Recover ELSE UNCHANGED jobs
  /\ pc' = "idle"
  /\ UNCHANGED <<mem, ioFailed, faults, hostVars>>

\* The journal write of the recovery fails and the daemon exits.
RestartFails ==
  /\ pc = "down"
  /\ faults < MaxFaults
  /\ Recover \/ UNCHANGED jobs
  /\ faults' = faults + 1
  /\ UNCHANGED <<pc, mem, ioFailed, hostVars>>

\* An administrator changes a password or a token of the running candidate.
ChangeCredentials ==
  /\ This > 0
  /\ Running(Candidate)
  /\ cred' = TRUE
  /\ UNCHANGED <<jobs, pc, mem, ioFailed, faults, containers, files, enrolled>>

RunnerStep ==
  \/ Record \/ Handle \/ Rejected
  \/ Check1 \/ Prepare \/ Check2 \/ StopOriginal \/ BackupOriginal
  \/ ValidateCandidate \/ PrepareCutover \/ ExchangeDone
  \/ (\E n \in Entries : ExchangeEntry(n))
  \/ CreateCandidate \/ StartCandidate \/ HealthCandidate \/ EnrollCandidate
  \/ RemoveOriginal
  \/ StopCandidate \/ CheckRollback \/ ReverseDone
  \/ (\E n \in Entries : ReverseEntry(n))
  \/ RecreateOriginal \/ EnrollOriginal \/ StartOriginal \/ HealthOriginal
  \/ RemoveCandidate

Next ==
  \/ \E id \in Ids, t, c \in Versions : Submit(id, t, c) \/ SubmitFails(id, t, c)
  \/ RunnerStep
  \/ RecordFails \/ Crash \/ Restart \/ RestartFails
  \/ ChangeCredentials

Spec == Init /\ [][Next]_tvars

\* Every host action and journal write returns (all commands have timeouts), and
\* the next client connection activates a helper that is down.
FairSpec == Spec /\ WF_tvars(RunnerStep) /\ WF_tvars(Restart)

-----------------------------------------------------------------------------
(***************************************************************************)
(* Properties                                                              *)
(***************************************************************************)

\* What the last word of the journal says of the version that runs.
PromisedVersion ==
  IF jobs[This].state = "COMPLETE" THEN jobs[This].target ELSE jobs[This].current

\* transaction.py, _run(): whenever the journal says that nothing was touched
\* yet, that the job failed before the cutover, was restored or is complete,
\* the enrolled container runs, alone, over one whole generation of files, and a
\* job that changed anything left the version its state promises. No sequence
\* of failures, lost replies, crashes and recoveries makes the journal lie.
JournalTruthful ==
  This = 0 \/ jobs[This].state \in BEFORE_CUTOVER \cup {"COMPLETE", "RESTORED", "FAILED"} =>
    /\ Inspected(enrolled)
    /\ \A c \in Cids : Running(c) => c = enrolled.cid
    /\ This > 0 /\ jobs[This].state \in {"COMPLETE", "RESTORED"} =>
         enrolled.ver = PromisedVersion

\* installation_cutover.py, "Code, configuration and data return together": no
\* image ever runs over files of which some belong to another generation.
OneGeneration ==
  \A c \in Cids : Running(c) => \A n \in Entries : files[n] = containers[c].gen

\* auth_state.py, "rollback must never resurrect an old grant": credentials that
\* were changed under the candidate stay the live ones.
CredentialsKept == cred => files[Data] = Candidate

\* Some job is neither finished nor handed to the operator.
Unsettled == \E k \in DOMAIN jobs : jobs[k].state \notin TERMINAL

\* execute() and main(): a reserved job reaches a final state, unless the
\* journal latched an I/O error in a process that is still up.
JobSettles == Unsettled ~> (~Unsettled \/ ioFailed)
=============================================================================
