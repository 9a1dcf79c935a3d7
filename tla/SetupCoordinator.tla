-------------------------- MODULE SetupCoordinator --------------------------
(***************************************************************************)
(* The persistent, sequential setup of radios: SetupCoordinator            *)
(* (setup_rebuild/coordinator.py) over its durable jobs and device rows    *)
(* (repository.py, states.py), the global lease with its watch (lease.py), *)
(* and the per-radio ownership every adapter operation runs under.         *)
(*                                                                         *)
(* A process stands for one life of a coordinator with its own owner_id: a *)
(* restart is another process.  An executor is a process working on a job: *)
(* ex[p][j].  An adapter operation is in flight between two actions; what  *)
(* the code does between two awaits and commits is one action.             *)
(***************************************************************************)
EXTENDS Naturals, Sequences, FiniteSets, SetupLease

CONSTANTS
  Procs,       \* lives of coordinator processes
  Jobs,        \* setup jobs
  Review,      \* the job identity of a startup review
  RadioCount,  \* radios of a job, in the order of their rows
  Plans,       \* the approved options a job may have
  SlowReview,  \* whether a startup review may outlast its own lease
  MaxFaults    \* bound: expiries, missed renewals, failed commits and deaths

Radios == 1 .. RadioCount
Plan == [mode : {"normal", "patched", "original"}, ssh : {"no", "active", "inactive"},
         pair : BOOLEAN, playback : BOOLEAN]

ASSUME SetupAssumption ==
  /\ RadioCount \in Nat \ {0}
  /\ Review \notin Jobs
  /\ Procs \X (Jobs \cup {Review}) \subseteq Holders
  /\ Plans \subseteq Plan
  /\ SlowReview \in BOOLEAN
  /\ MaxFaults \in Nat

VARIABLES
  proc,     \* [Procs -> life of the process and of its startup review]
  job,      \* [Jobs -> durable status, cancellation flag and plan]
  row,      \* [Jobs -> [Radios -> durable state and recorded backup]]
  ex,       \* [Procs -> [Jobs -> the executor's place and locals]] (volatile)
  lock,     \* [Radios -> the executor that owns the radio]
  begun,    \* history: adapter operations started for a radio of a job
  changed,  \* history: radios of a job routed and not proven rolled back
  faults    \* faults so far

svars == <<lease, proc, job, row, ex, lock, begun, changed, faults>>

-----------------------------------------------------------------------------
(***************************************************************************)
(* The documented state machine and the sequence of a plan                 *)
(***************************************************************************)

\* _ALLOWED_TRANSITIONS without FAILED, which every state but VERIFIED,
\* FAILED and ROLLED_BACK allows.
Successors ==
  [UNKNOWN |-> {"DISCOVERED"}, DISCOVERED |-> {"IDENTIFIED"},
   IDENTIFIED |-> {"PRESENTATION_PREFLIGHT", "BACKUP_PENDING"},
   PRESENTATION_PREFLIGHT |-> {"BACKUP_PENDING"},
   BACKUP_PENDING |-> {"BACKUP_COMPLETE"},
   BACKUP_COMPLETE |-> {"SSH_STATUS_PENDING", "PRESENTATION_PREPARED",
                        "ORIGINAL_PREPARED", "ROUTING_BACKUP_COMPLETE"},
   ORIGINAL_PREPARED |-> {"ORIGINAL_CONFIGURED"},
   ORIGINAL_CONFIGURED |-> {"RADIO_REBOOT_PENDING"},
   ORIGINAL_VERIFIED |-> {"VERIFIED"},
   SSH_STATUS_PENDING |-> {"SSH_ALREADY_ACTIVE", "SSH_ACTIVATION_PENDING"},
   SSH_ALREADY_ACTIVE |-> {"SSH_PERSISTENCE_PENDING"},
   SSH_ACTIVATION_PENDING |-> {"SSH_TEMPORARY_ACTIVE"},
   SSH_TEMPORARY_ACTIVE |-> {"SSH_PERSISTENCE_PENDING"},
   SSH_PERSISTENCE_PENDING |-> {"SSH_REBOOT_PENDING"},
   SSH_REBOOT_PENDING |-> {"SSH_VERIFIED"},
   SSH_VERIFIED |-> {"PRESENTATION_PREPARED", "ROUTING_BACKUP_COMPLETE"},
   PRESENTATION_PREPARED |-> {"ROUTING_BACKUP_COMPLETE"},
   ROUTING_BACKUP_COMPLETE |-> {"BASSWIESN_ROUTE_PENDING"},
   BASSWIESN_ROUTE_PENDING |-> {"BASSWIESN_ROUTE_ACTIVE"},
   BASSWIESN_ROUTE_ACTIVE |-> {"PRESENTATION_CONFIGURED", "RADIO_REBOOT_PENDING"},
   PRESENTATION_CONFIGURED |-> {"RADIO_REBOOT_PENDING"},
   RADIO_REBOOT_PENDING |-> {"RADIO_REBOOTED"},
   RADIO_REBOOTED |-> {"RADIO_RECONNECT_PENDING"},
   RADIO_RECONNECT_PENDING |-> {"RADIO_REACHABLE"},
   RADIO_REACHABLE |-> {"ORIGINAL_VERIFIED", "PRESENTATION_VERIFIED",
                        "MARGE_ACCOUNT_PENDING", "PRESETS_READABLE"},
   PRESENTATION_VERIFIED |-> {"MARGE_ACCOUNT_PENDING", "PRESETS_READABLE"},
   MARGE_ACCOUNT_PENDING |-> {"MARGE_ACCOUNT_ACTIVE"},
   MARGE_ACCOUNT_ACTIVE |-> {"PRESETS_READABLE"},
   PRESETS_READABLE |-> {"PLAYBACK_READY", "VERIFIED"},
   PLAYBACK_READY |-> {"VERIFIED"},
   VERIFIED |-> {"ROLLBACK_PENDING"}, FAILED |-> {"ROLLBACK_PENDING", "RECOVERY_PENDING"},
   RECOVERY_PENDING |-> {"SSH_STATUS_PENDING", "ROLLBACK_PENDING"},
   ROLLBACK_PENDING |-> {"ROLLED_BACK"}, ROLLED_BACK |-> {}]
SetupState == DOMAIN Successors

\* transition() accepts the target.
TransitionAllowed(s, to) ==
  \/ to = s
  \/ to \in Successors[s]
  \/ to = "FAILED" /\ s \notin {"VERIFIED", "ROLLED_BACK"}

\* step(): an adapter operation, then the state it reaches.  transition_only()
\* and the steps whose callback only waits have no operation.
Step(to, op) == [to |-> to, op |-> op]
Mark(to) == Step(to, "none")
When(c, s) == IF c THEN s ELSE <<>>

RebootSteps ==
  <<Mark("RADIO_REBOOT_PENDING"), Step("RADIO_REBOOTED", "reboot"),
    Mark("RADIO_RECONNECT_PENDING")>>

RestoreSteps ==
  <<Step("ORIGINAL_PREPARED", "restore_prepare"),
    Step("ORIGINAL_CONFIGURED", "restore_activate")>>
  \o RebootSteps
  \o <<Step("RADIO_REACHABLE", "reconnect"), Step("ORIGINAL_VERIFIED", "restore_verify"),
       Mark("VERIFIED")>>

SshSteps(ssh) ==
  <<Mark("SSH_STATUS_PENDING"), Step("SSH_STATUS_PENDING", "ssh_status")>>
  \o (IF ssh = "active" THEN <<Mark("SSH_ALREADY_ACTIVE")>>
      ELSE <<Mark("SSH_ACTIVATION_PENDING"), Step("SSH_TEMPORARY_ACTIVE", "activate_ssh")>>)
  \o <<Step("SSH_PERSISTENCE_PENDING", "persist_ssh"),
       Step("SSH_REBOOT_PENDING", "reboot_verify_ssh"), Mark("SSH_VERIFIED")>>

InstallSteps(pl) ==
  LET patched == pl.mode = "patched" IN
  When(pl.ssh # "no", SshSteps(pl.ssh))
  \o When(patched, <<Step("PRESENTATION_PREPARED", "presentation_prepare")>>)
  \o <<Step("ROUTING_BACKUP_COMPLETE", "backup_routing"), Mark("BASSWIESN_ROUTE_PENDING"),
       Step("BASSWIESN_ROUTE_ACTIVE", "route")>>
  \o When(patched, <<Step("PRESENTATION_CONFIGURED", "presentation_activate")>>)
  \o RebootSteps
  \o <<Step("RADIO_RECONNECT_PENDING", "reconnect"), Mark("RADIO_REACHABLE")>>
  \o (IF patched THEN <<Step("PRESENTATION_VERIFIED", "presentation_verify")>>
      ELSE <<Step("RADIO_REACHABLE", "configure_defaults")>>)
  \o When(pl.pair, <<Mark("MARGE_ACCOUNT_PENDING"),
                     Step("MARGE_ACCOUNT_ACTIVE", "pair_account")>>)
  \o <<Step("PRESETS_READABLE", "read_presets")>>
  \o When(pl.playback, <<Step("PLAYBACK_READY", "playback_test")>>)
  \o <<Mark("VERIFIED")>>

\* Identity and backup come first; "save" commits the path of the backup.
Preparation(pl, saved) ==
  <<Step("DISCOVERED", "identify"), Mark("IDENTIFIED")>>
  \o When(pl.mode # "normal", <<Step("PRESENTATION_PREFLIGHT", "presentation_preflight")>>)
  \o <<Mark("BACKUP_PENDING"), Step("BACKUP_COMPLETE", "backup")>>
  \o When(saved, <<Step("BACKUP_COMPLETE", "save")>>)

\* A sequence that forgets to record where the backup is.
PathForgotten(pl) ==
  Preparation(pl, FALSE)
  \o (IF pl.mode = "original" THEN RestoreSteps ELSE InstallSteps(pl))

\* _run_device(): the whole sequence of a plan.
Sequence(pl) ==
  Preparation(pl, TRUE)
  \o (IF pl.mode = "original" THEN RestoreSteps ELSE InstallSteps(pl))

Programs == [pl \in Plans |-> Sequence(pl)]
Program(j) == Programs[job[j].plan]

\* Operations that change something on the radio.
Writes == {"restore_activate", "activate_ssh", "persist_ssh", "reboot_verify_ssh",
           "presentation_prepare", "route", "presentation_activate", "reboot",
           "configure_defaults", "pair_account", "playback_test"}
Operations == Writes \cup
  {"identify", "presentation_preflight", "backup", "restore_prepare", "reconnect",
   "restore_verify", "ssh_status", "backup_routing", "presentation_verify", "read_presets"}

-----------------------------------------------------------------------------
(***************************************************************************)
(* State                                                                   *)
(***************************************************************************)

Finals == {"completed", "partial_failure", "failed", "cancelled", "rolled_back",
           "rollback_limited", "rollback_failed", "rollback_not_required"}
NoExecutor == <<>>

\* pc: the run's "row", "check" (a checkpoint), "op" (in flight), "bad" (its
\* result does not confirm), and the rollback's counterparts; "end": finally.
Idle == [pc |-> "idle", i |-> 1, k |-> 0, lost |-> FALSE, ok |-> TRUE, full |-> TRUE,
         tried |-> FALSE, unsaved |-> {}]
Executor ==
  [pc : {"idle", "row", "check", "op", "bad", "rb_row", "rb_check", "rb_op", "rb_after", "end"},
   i : 1 .. RadioCount + 1, k : 0 .. 40, lost : BOOLEAN, ok : BOOLEAN, full : BOOLEAN,
   tried : BOOLEAN, unsaved : SUBSET Radios]

\* Type invariant of the durable rows and the executors; an executor beyond the
\* last row holds no radio and has nothing in flight.
SetupTypeOK ==
  /\ LeaseTypeOK
  /\ proc \in [Procs -> {"unborn", "waiting", "holding", "up", "dead"}]
  /\ job \in [Jobs -> [status : Finals \cup {"none", "running"}, owner : Procs \cup {NoHolder},
                      cancel : BOOLEAN, plan : Plans]]
  /\ row \in [Jobs -> [Radios -> [state : SetupState, backup : BOOLEAN]]]
  /\ ex \in [Procs -> [Jobs -> Executor]]
  /\ lock \in [Radios -> (Procs \X Jobs) \cup {NoExecutor}]
  /\ begun \in [Jobs -> [Radios -> SUBSET Operations]]
  /\ changed \in [Jobs -> SUBSET Radios]
  /\ faults \in 0 .. MaxFaults
  /\ \A p \in Procs, j \in Jobs :
       ex[p][j].pc \in {"check", "op", "bad", "rb_check", "rb_op", "rb_after"} =>
         ex[p][j].i \in Radios /\ lock[ex[p][j].i] = <<p, j>>

Init ==
  /\ LeaseInit
  /\ proc = [p \in Procs |-> "unborn"]
  /\ job \in [Jobs -> {[status |-> "none", owner |-> NoHolder, cancel |-> FALSE, plan |-> pl]
                       : pl \in Plans}]
  /\ row = [j \in Jobs |-> [d \in Radios |-> [state |-> "UNKNOWN", backup |-> FALSE]]]
  /\ ex = [p \in Procs |-> [j \in Jobs |-> Idle]]
  /\ lock = [d \in Radios |-> NoExecutor]
  /\ begun = [j \in Jobs |-> [d \in Radios |-> {}]]
  /\ changed = [j \in Jobs |-> {}]
  /\ faults = 0

Alive(p) == proc[p] \in {"waiting", "holding", "up"}
At(p, j, pc) == ex[p][j].pc = pc
Radio(p, j) == ex[p][j].i
SetEx(p, j, e) == ex' = [ex EXCEPT ![p][j] = e]
SetStatus(j, s) == job' = [job EXCEPT ![j].status = s]
SetState(j, d, s) == row' = [row EXCEPT ![j][d].state = s]
Unlocked(d) == [lock EXCEPT ![d] = NoExecutor]

\* LeaseWatch.checkpoint(): not lost before, and owned in the database now.
StillOwned(p, j) == ~ex[p][j].lost /\ Owns(<<p, j>>)

\* The job loop after a row: go on unless the job was ended, by this executor
\* or, read again from the database, by another one.
AfterRow(p, j, status) ==
  SetEx(p, j, IF status \in {"cancelled", "failed"} THEN [Idle EXCEPT !.pc = "end"]
              ELSE [ex[p][j] EXCEPT !.pc = "row", !.i = @ + 1, !.k = 0])

-----------------------------------------------------------------------------
(***************************************************************************)
(* Starting and executing a job                                            *)
(***************************************************************************)

\* start(): the job, its rows and the lease are committed together, or nothing.
Start(p, j) ==
  /\ Alive(p)
  /\ job[j].status = "none"
  /\ Acquire(<<p, j>>)
  /\ job' = [job EXCEPT ![j].status = "running", ![j].owner = p]
  /\ UNCHANGED <<proc, row, ex, lock, begun, changed, faults>>

\* cancel(): the flag is read at the next checkpoint.
RequestCancel(j) ==
  /\ job[j].status # "none"
  /\ job' = [job EXCEPT ![j].cancel = TRUE]
  /\ UNCHANGED <<lease, proc, row, ex, lock, begun, changed, faults>>

\* A replay check that looks at nothing.
NeverStarted(j) == TRUE

\* No row of the job has a checkpoint yet.
Untouched(j) == \A d \in Radios : row[j][d].state = "UNKNOWN"

\* execute(): one executor per job in a process, only a running job, only with
\* the lease, and never from an existing checkpoint.  The router schedules it in
\* the process that started the job; a duplicate task may call it again there.
Execute(p, j) ==
  /\ Alive(p)
  /\ job[j].owner = p
  /\ At(p, j, "idle")
  /\ job[j].status = "running"
  /\ Untouched(j)
  /\ ~job[j].cancel
  /\ Acquire(<<p, j>>)
  /\ SetEx(p, j, [Idle EXCEPT !.pc = "row"])
  /\ UNCHANGED <<proc, job, row, lock, begun, changed, faults>>

\* execute() with the lease on a job it must not run: SETUP_REPLAY_DENIED, or
\* cancelled before the first radio.
ExecuteDenied(p, j) ==
  /\ Alive(p)
  /\ job[j].owner = p
  /\ At(p, j, "idle")
  /\ job[j].status = "running"
  /\ MayAcquire(<<p, j>>)
  /\ \/ ~Untouched(j) /\ SetStatus(j, "failed")
     \/ Untouched(j) /\ job[j].cancel /\ SetStatus(j, "cancelled")
  /\ lease' = FreeLease
  /\ UNCHANGED <<proc, row, ex, lock, begun, changed, faults>>

\* The next row: device_transaction() owns the radio before any operation.
EnterRadio(p, j) ==
  /\ At(p, j, "row")
  /\ Radio(p, j) \in Radios
  /\ ~job[j].cancel
  /\ lock[Radio(p, j)] = NoExecutor
  /\ lock' = [lock EXCEPT ![Radio(p, j)] = <<p, j>>]
  /\ SetEx(p, j, [ex[p][j] EXCEPT !.pc = "check"])
  /\ UNCHANGED <<lease, proc, job, row, begun, changed, faults>>

\* DeviceBusy or DeviceLockUnavailable, by this or any other user of the radio.
RadioDenied(p, j) ==
  /\ At(p, j, "row")
  /\ Radio(p, j) \in Radios
  /\ ~job[j].cancel
  /\ SetState(j, Radio(p, j), "FAILED")
  /\ AfterRow(p, j, job[j].status)
  /\ UNCHANGED <<lease, proc, job, lock, begun, changed, faults>>

CancelledAtRow(p, j) ==
  /\ At(p, j, "row")
  /\ Radio(p, j) \in Radios
  /\ job[j].cancel
  /\ SetStatus(j, "cancelled")
  /\ SetEx(p, j, [Idle EXCEPT !.pc = "end"])
  /\ UNCHANGED <<lease, proc, row, lock, begun, changed, faults>>

\* A summary that takes a radio that did not fail for a verified one.
NoneFailed(j) == \A d \in Radios : row[j][d].state # "FAILED"

AllVerified(j) == \A d \in Radios : row[j][d].state = "VERIFIED"

\* The loop ended without a break: the job's result is read from its rows.
Finish(p, j) ==
  /\ At(p, j, "row")
  /\ Radio(p, j) \notin Radios
  /\ SetStatus(j, IF AllVerified(j) THEN "completed"
                  ELSE IF \E d \in Radios : row[j][d].state = "VERIFIED"
                  THEN "partial_failure" ELSE "failed")
  /\ SetEx(p, j, [Idle EXCEPT !.pc = "end"])
  /\ UNCHANGED <<lease, proc, row, lock, begun, changed, faults>>

\* finally: the heartbeat ends and the lease is released if still held.
ReleaseLease(p, j) ==
  /\ At(p, j, "end")
  /\ Release(<<p, j>>)
  /\ SetEx(p, j, Idle)
  /\ UNCHANGED <<proc, job, row, lock, begun, changed, faults>>

-----------------------------------------------------------------------------
(***************************************************************************)
(* _run_device(): one radio                                                *)
(***************************************************************************)

NextStep(p, j) == Program(j)[ex[p][j].k + 1]
MorePlanned(p, j) == ex[p][j].k < Len(Program(j))
PriorState(p, j) == IF ex[p][j].k = 0 THEN "UNKNOWN" ELSE Program(j)[ex[p][j].k].to

\* A checkpoint passes and the next step has no operation: commit its state.
\* The checkpoint that ends a step and the one that begins the next follow each
\* other directly and are one here.
MarkState(p, j) ==
  /\ At(p, j, "check")
  /\ StillOwned(p, j)
  /\ ~job[j].cancel
  /\ MorePlanned(p, j)
  /\ NextStep(p, j).op \in {"none", "save"}
  /\ row' = [row EXCEPT ![j][Radio(p, j)] =
               [state |-> NextStep(p, j).to, backup |-> @.backup \/ NextStep(p, j).op = "save"]]
  /\ SetEx(p, j, [ex[p][j] EXCEPT !.k = @ + 1])
  /\ UNCHANGED <<lease, proc, job, lock, begun, changed, faults>>

\* A checkpoint passes and the adapter operation starts.
BeginOperation(p, j) ==
  LET op == NextStep(p, j).op
      d == Radio(p, j)
  IN /\ At(p, j, "check")
     /\ StillOwned(p, j)
     /\ ~job[j].cancel
     /\ MorePlanned(p, j)
     /\ op \notin {"none", "save"}
     /\ begun' = [begun EXCEPT ![j][d] = @ \cup {op}]
     /\ changed' = IF op = "route" THEN [changed EXCEPT ![j] = @ \cup {d}] ELSE changed
     /\ SetEx(p, j, [ex[p][j] EXCEPT !.pc = "op"])
     /\ UNCHANGED <<lease, proc, job, row, lock, faults>>

\* The operation returns and its state is committed, whoever wrote the row in
\* the meantime; a result that does not confirm is raised after the checkpoint.
\* The session stores only what changed from the state it had loaded.
OperationReturns(p, j) ==
  /\ At(p, j, "op")
  /\ IF NextStep(p, j).to = PriorState(p, j) THEN UNCHANGED row
     ELSE SetState(j, Radio(p, j), NextStep(p, j).to)
  /\ changed' = IF NextStep(p, j).op = "route"
                THEN [changed EXCEPT ![j] = @ \cup {Radio(p, j)}] ELSE changed
  /\ \E pc \in {"check", "bad"} : SetEx(p, j, [ex[p][j] EXCEPT !.pc = pc, !.k = @ + 1])
  /\ UNCHANGED <<lease, proc, job, lock, begun, faults>>

\* The operation or the check of its result raises: the row failed, the radio is
\* released and the job goes on with the next row.
RowFails(p, j) ==
  /\ \/ At(p, j, "op")
     \/ At(p, j, "bad") /\ StillOwned(p, j) /\ ~job[j].cancel
  /\ SetState(j, Radio(p, j), "FAILED")
  /\ lock' = Unlocked(Radio(p, j))
  /\ AfterRow(p, j, job[j].status)
  /\ UNCHANGED <<lease, proc, job, begun, changed, faults>>

\* SetupLeaseLost: the row and the job failed and need a review.
LeaseLost(p, j) ==
  /\ At(p, j, "check") \/ At(p, j, "bad")
  /\ ~StillOwned(p, j)
  /\ SetState(j, Radio(p, j), "FAILED")
  /\ SetStatus(j, "failed")
  /\ lock' = Unlocked(Radio(p, j))
  /\ AfterRow(p, j, "failed")
  /\ UNCHANGED <<lease, proc, begun, changed, faults>>

\* SetupCancellationRequested: a row that is verified already stays verified.
CancelledAtCheckpoint(p, j) ==
  /\ At(p, j, "check") \/ At(p, j, "bad")
  /\ StillOwned(p, j)
  /\ job[j].cancel
  /\ SetStatus(j, "cancelled")
  /\ SetState(j, Radio(p, j), IF row[j][Radio(p, j)].state = "VERIFIED" THEN "VERIFIED" ELSE "FAILED")
  /\ lock' = Unlocked(Radio(p, j))
  /\ AfterRow(p, j, "cancelled")
  /\ UNCHANGED <<lease, proc, begun, changed, faults>>

\* The sequence is complete: the action is recorded and the radio released.
RowDone(p, j) ==
  /\ At(p, j, "check")
  /\ StillOwned(p, j)
  /\ ~job[j].cancel
  /\ ~MorePlanned(p, j)
  /\ lock' = Unlocked(Radio(p, j))
  /\ AfterRow(p, j, job[j].status)
  /\ UNCHANGED <<lease, proc, job, row, begun, changed, faults>>

-----------------------------------------------------------------------------
(***************************************************************************)
(* _rollback()                                                             *)
(***************************************************************************)

\* rollback(): refused for a restore of the original and without the lease.
Rollback(p, j) ==
  /\ Alive(p)
  /\ At(p, j, "idle")
  /\ job[j].status # "none"
  /\ job[j].plan.mode # "original"
  /\ Acquire(<<p, j>>)
  /\ SetEx(p, j, [Idle EXCEPT !.pc = "rb_row"])
  /\ UNCHANGED <<proc, job, row, lock, begun, changed, faults>>

Reversible(j, d) == row[j][d].state \in {"VERIFIED", "FAILED"} /\ row[j][d].backup

\* The rows of job j with what the executor changed in memory committed.
Committed(p, j) ==
  [row EXCEPT ![j] = [d \in Radios |->
     IF d \in ex[p][j].unsaved THEN [row[j][d] EXCEPT !.state = "FAILED"] ELSE row[j][d]]]

SkipRow(p, j) ==
  /\ At(p, j, "rb_row")
  /\ Radio(p, j) \in Radios
  /\ ~Reversible(j, Radio(p, j))
  /\ SetEx(p, j, [ex[p][j] EXCEPT !.i = @ + 1])
  /\ UNCHANGED <<lease, proc, job, row, lock, begun, changed, faults>>

\* A rollback that does not own the radio.
UnownedRollback(d) == TRUE

RadioFree(d) == lock[d] = NoExecutor

RollbackEnters(p, j) ==
  /\ At(p, j, "rb_row")
  /\ Radio(p, j) \in Radios
  /\ Reversible(j, Radio(p, j))
  /\ RadioFree(Radio(p, j))
  /\ lock' = [lock EXCEPT ![Radio(p, j)] = <<p, j>>]
  /\ SetEx(p, j, [ex[p][j] EXCEPT !.pc = "rb_check", !.tried = TRUE])
  /\ UNCHANGED <<lease, proc, job, row, begun, changed, faults>>

\* The radio is denied, or the adapter raises: FAILED in memory, next row.
RollbackRaises(p, j) ==
  /\ \/ /\ At(p, j, "rb_row")
        /\ Radio(p, j) \in Radios
        /\ Reversible(j, Radio(p, j))
        /\ lock' = lock
     \/ /\ At(p, j, "rb_op")
        /\ lock' = Unlocked(Radio(p, j))
  /\ SetEx(p, j, [ex[p][j] EXCEPT !.pc = "rb_row", !.i = @ + 1, !.tried = TRUE,
                                  !.ok = FALSE, !.unsaved = @ \cup {Radio(p, j)}])
  /\ UNCHANGED <<lease, proc, job, row, begun, changed, faults>>

\* lease.checkpoint(), then adapter.rollback() starts.
RollbackBegins(p, j) ==
  /\ At(p, j, "rb_check")
  /\ StillOwned(p, j)
  /\ SetEx(p, j, [ex[p][j] EXCEPT !.pc = "rb_op"])
  /\ UNCHANGED <<lease, proc, job, row, lock, begun, changed, faults>>

\* A route command is in flight, which may still take effect.
Routing(j, d) ==
  \E p \in Procs : At(p, j, "op") /\ Radio(p, j) = d /\ NextStep(p, j).op = "route"

\* Its result, with the readback, is committed before ownership is released.
RollbackReturns(p, j) ==
  LET d == Radio(p, j) IN
  /\ At(p, j, "rb_op")
  /\ \E ok, full \in BOOLEAN :
       /\ row' = [Committed(p, j) EXCEPT ![j][d].state = IF ok THEN "ROLLED_BACK" ELSE "FAILED"]
       /\ changed' = IF ok /\ ~Routing(j, d) THEN [changed EXCEPT ![j] = @ \ {d}] ELSE changed
       /\ SetEx(p, j, [ex[p][j] EXCEPT !.pc = "rb_after", !.ok = @ /\ ok,
                                       !.full = @ /\ ok /\ full, !.unsaved = {}])
  /\ UNCHANGED <<lease, proc, job, lock, begun, faults>>

RollbackNext(p, j) ==
  /\ At(p, j, "rb_after")
  /\ StillOwned(p, j)
  /\ lock' = Unlocked(Radio(p, j))
  /\ SetEx(p, j, [ex[p][j] EXCEPT !.pc = "rb_row", !.i = @ + 1])
  /\ UNCHANGED <<lease, proc, job, row, begun, changed, faults>>

\* SetupLeaseLost: the loop breaks; the final commit stores the row as it is in
\* memory, ROLLBACK_PENDING when the operation had not begun.
RollbackLost(p, j) ==
  LET d == Radio(p, j) IN
  /\ At(p, j, "rb_check") \/ At(p, j, "rb_after")
  /\ ~StillOwned(p, j)
  /\ row' = IF At(p, j, "rb_check")
            THEN [Committed(p, j) EXCEPT ![j][d].state = "ROLLBACK_PENDING"]
            ELSE Committed(p, j)
  /\ SetStatus(j, "rollback_failed")
  /\ lock' = Unlocked(d)
  /\ SetEx(p, j, [Idle EXCEPT !.pc = "end"])
  /\ UNCHANGED <<lease, proc, begun, changed, faults>>

RollbackStatus(e) ==
  CASE ~e.tried -> "rollback_not_required"
    [] e.tried /\ e.ok /\ e.full -> "rolled_back"
    [] e.tried /\ e.ok /\ ~e.full -> "rollback_limited"
    [] OTHER -> "rollback_failed"

RollbackFinish(p, j) ==
  /\ At(p, j, "rb_row")
  /\ Radio(p, j) \notin Radios
  /\ row' = Committed(p, j)
  /\ SetStatus(j, RollbackStatus(ex[p][j]))
  /\ SetEx(p, j, [Idle EXCEPT !.pc = "end"])
  /\ UNCHANGED <<lease, proc, lock, begun, changed, faults>>

-----------------------------------------------------------------------------
(***************************************************************************)
(* Processes, the heartbeat and the startup review                         *)
(***************************************************************************)

Fault == faults < MaxFaults /\ faults' = faults + 1

\* heartbeat(): a renewal that fails, or finds the lease expired, latches lost.
HeartbeatLost(p, j) ==
  /\ ex[p][j].pc \notin {"idle", "end"}
  /\ ~ex[p][j].lost
  /\ SetEx(p, j, [ex[p][j] EXCEPT !.lost = TRUE])
  /\ UNCHANGED <<lease, proc, job, row, lock, begun, changed>>
  /\ Fault

\* A review is database work without a heartbeat: it ends within the 90 seconds
\* of its lease unless the process is suspended.
LeaseExpires ==
  /\ Expire
  /\ SlowReview \/ \A p \in Procs : proc[p] = "holding" => lease.holder # <<p, Review>>
  /\ UNCHANGED <<proc, job, row, ex, lock, begun, changed>>
  /\ Fault

\* A commit of the executor fails: nothing of it is stored, the session cannot
\* release the lease, and the background task marks a run as failed if it can.
CommitFails(p, j) ==
  /\ ~At(p, j, "idle")
  /\ \/ UNCHANGED job
     \/ ex[p][j].pc \in {"row", "check", "op", "bad"} /\ SetStatus(j, "failed")
  /\ lock' = [d \in Radios |-> IF lock[d] = <<p, j>> THEN NoExecutor ELSE lock[d]]
  /\ SetEx(p, j, Idle)
  /\ UNCHANGED <<lease, proc, row, begun, changed>>
  /\ Fault

Boot(p) ==
  /\ proc[p] = "unborn"
  /\ proc' = [proc EXCEPT ![p] = "waiting"]
  /\ UNCHANGED <<lease, job, row, ex, lock, begun, changed, faults>>

\* The process ends; an orderly shutdown also releases its lease.
Die(p) ==
  /\ Alive(p)
  /\ proc' = [proc EXCEPT ![p] = "dead"]
  /\ ex' = [ex EXCEPT ![p] = [j \in Jobs |-> Idle]]
  /\ lock' = [d \in Radios |-> IF lock[d] # NoExecutor /\ lock[d][1] = p THEN NoExecutor ELSE lock[d]]
  /\ \/ UNCHANGED lease
     \/ \E j \in Jobs : ~At(p, j, "idle") /\ Release(<<p, j>>)
  /\ UNCHANGED <<job, row, begun, changed>>
  /\ Fault

\* A review that takes the lease because a restart proves the others dead.
ReviewSeizes(p) ==
  /\ proc[p] = "waiting"
  /\ lease' = HeldBy(<<p, Review>>)
  /\ proc' = [proc EXCEPT ![p] = "holding"]
  /\ UNCHANGED <<job, row, ex, lock, begun, changed, faults>>

\* A review that does not ask for the lease.
ReviewUnleased(p) ==
  /\ proc[p] = "waiting"
  /\ proc' = [proc EXCEPT ![p] = "holding"]
  /\ UNCHANGED <<lease, job, row, ex, lock, begun, changed, faults>>

\* _review_interrupted_jobs(): only with the lease; else tried again for a while.
ReviewAcquires(p) ==
  /\ proc[p] = "waiting"
  /\ Acquire(<<p, Review>>)
  /\ proc' = [proc EXCEPT ![p] = "holding"]
  /\ UNCHANGED <<job, row, ex, lock, begun, changed, faults>>

ReviewGivesUp(p) ==
  /\ proc[p] = "waiting"
  /\ ~MayAcquire(<<p, Review>>)
  /\ proc' = [proc EXCEPT ![p] = "up"]
  /\ UNCHANGED <<lease, job, row, ex, lock, begun, changed, faults>>

\* Every unfinished row and job is marked for review and nothing is replayed.
ReviewJobs(p) ==
  /\ proc[p] = "holding"
  /\ row' = [j \in Jobs |-> [d \in Radios |->
       IF job[j].status = "running" /\ row[j][d].state \notin {"VERIFIED", "FAILED", "ROLLED_BACK"}
       THEN [row[j][d] EXCEPT !.state = "FAILED"] ELSE row[j][d]]]
  /\ job' = [j \in Jobs |->
       IF job[j].status # "running" THEN job[j]
       ELSE [job[j] EXCEPT !.status = IF job[j].cancel THEN "cancelled" ELSE "failed"]]
  /\ Release(<<p, Review>>)
  /\ proc' = [proc EXCEPT ![p] = "up"]
  /\ UNCHANGED <<ex, lock, begun, changed, faults>>

ExecutorStep(p, j) ==
  \/ EnterRadio(p, j) \/ RadioDenied(p, j) \/ CancelledAtRow(p, j) \/ Finish(p, j)
  \/ ReleaseLease(p, j) \/ MarkState(p, j) \/ BeginOperation(p, j)
  \/ OperationReturns(p, j) \/ RowFails(p, j) \/ LeaseLost(p, j)
  \/ CancelledAtCheckpoint(p, j) \/ RowDone(p, j)
  \/ SkipRow(p, j) \/ RollbackEnters(p, j) \/ RollbackRaises(p, j)
  \/ RollbackBegins(p, j) \/ RollbackReturns(p, j) \/ RollbackNext(p, j)
  \/ RollbackLost(p, j) \/ RollbackFinish(p, j)

Next ==
  \/ \E p \in Procs, j \in Jobs :
       \/ Start(p, j) \/ Execute(p, j) \/ ExecuteDenied(p, j) \/ Rollback(p, j)
       \/ ExecutorStep(p, j) \/ HeartbeatLost(p, j) \/ CommitFails(p, j)
  \/ \E j \in Jobs : RequestCancel(j)
  \/ \E p \in Procs :
       Boot(p) \/ Die(p) \/ ReviewAcquires(p) \/ ReviewGivesUp(p) \/ ReviewJobs(p)
  \/ LeaseExpires

Spec == Init /\ [][Next]_svars

-----------------------------------------------------------------------------
(***************************************************************************)
(* Properties                                                              *)
(***************************************************************************)

\* An operation of _run_device() starts in this step.
Begins(p, j) == ~At(p, j, "op") /\ ex'[p][j].pc = "op"

\* coordinator.py, _review_interrupted_jobs(), "without replaying a hardware
\* operation": over restarts, duplicate executions, stalls and reviews, no
\* operation after the identification is started twice for a radio of a job.
NoReplay ==
  [][\A p \in Procs, j \in Jobs :
       Begins(p, j) => NextStep(p, j).op \notin begun[j][Radio(p, j)] \ {"identify"}]_svars

\* coordinator.py:459, "Active jobs are left untouched": a review never ends a
\* job while an executor holds the lease for it.
ActiveUntouched ==
  [][\A p \in Procs, j \in Jobs :
       ReviewJobs(p) /\ job'[j] # job[j] => \A q \in Procs : ~Owns(<<q, j>>)]_svars

\* README, "before critical writes": whenever a radio may have been written, the
\* path of its backup is durable, so that a rollback finds it after any crash.
BackupBeforeWrite ==
  \A j \in Jobs, d \in Radios : begun[j][d] \cap Writes # {} => row[j][d].backup

\* _execute(): a job that is reported complete has run every operation of its
\* plan on every radio.
CompletedMeansDone ==
  \A j \in Jobs, d \in Radios :
    job[j].status = "completed" =>
      {Program(j)[k].op : k \in DOMAIN Program(j)} \ {"none", "save"} \subseteq begun[j][d]

\* _rollback(): a radio reported ROLLED_BACK no longer has this job's routing,
\* although an executor that lost its lease may still have had it in flight.
RolledBackIsBack ==
  \A j \in Jobs, d \in Radios : row[j][d].state = "ROLLED_BACK" => d \notin changed[j]

\* CHANGELOG.md, "Rollback reports its proven scope": a job reported as rolled
\* back, or as needing no rollback, left no radio with its routing.
RollbackReportsScope ==
  \A j \in Jobs :
    job[j].status \in {"rolled_back", "rollback_not_required"} => changed[j] = {}
=============================================================================
