---------------------------- MODULE RadioReboots ----------------------------
(***************************************************************************)
(* Reboot batches (services/radio_reboots.py): RadioRebootManager starts a *)
(* batch by hand or by schedule, backs every radio up, checks them again,  *)
(* and only then sends one restart command to each, a bounded number at a  *)
(* time.  The active batch, the occurrence claims and the job records are  *)
(* rows of the database; the setup lease is the one of SetupLease.         *)
(*                                                                         *)
(* Several processes run a manager on the same database.  A batch belongs  *)
(* to the process that started it.  What a task does between two awaits is *)
(* one action; a batch starts all its children together (asyncio.gather).  *)
(***************************************************************************)
EXTENDS Naturals, FiniteSets, SetupLease

CONSTANTS
  Procs,        \* processes with a reboot manager
  Batches,      \* job identifiers
  RadioCount,   \* radios, in the order of their identifiers
  Occurrences,  \* scheduled local dates
  Setup,        \* a setup job or review that competes for the lease
  Permits,      \* size of the semaphore
  MaxFaults     \* bound: shutdowns, crashes, failed saves and expiries

Radios == 1 .. RadioCount
Manual == "manual"

ASSUME RebootAssumption ==
  /\ RadioCount \in Nat \ {0}
  /\ Permits \in Nat \ {0}
  /\ MaxFaults \in Nat
  /\ Setup \notin Batches
  /\ Holders = Batches \cup {Setup}
  /\ Manual \notin Occurrences
  /\ {"free", "skipped"} \cap Batches = {}

VARIABLES
  alive,   \* [Procs -> "up", "stopping" or "dead"]
  active,  \* the ACTIVE_KEY row: batch and whether it has not expired
  claim,   \* [Occurrences -> its durable claim]
  rec,     \* [Batches -> durable job record]
  run,     \* [Batches -> place of execute() and the job in memory]
  child,   \* [Batches -> [Radios -> place of one()]]
  lock,    \* [Radios -> owner of the device lock]
  sent,    \* history: [Batches -> [Radios -> commands that may have been sent]]
  faults   \* faults so far

rvars == <<lease, alive, active, claim, rec, run, child, lock, sent, faults>>

-----------------------------------------------------------------------------
Results == {"none", "BACKED_UP", "COMMAND_ATTEMPTED", "WAITING_FOR_RESTART", "VERIFIED",
            "COMMAND_UNCONFIRMED_NO_RETRY", "VERIFICATION_FAILED"}
Statuses == {"none", "PREPARING", "DISPATCHING", "VERIFIED", "PARTIAL_OR_UNCONFIRMED",
             "BLOCKED_NO_REBOOT", "INTERRUPTED_NO_REPLAY"}
Record == [status : Statuses, res : [Radios -> Results]]
Job(status, res) == [status |-> status, res |-> res]
NoRecord == Job("none", [r \in Radios |-> "none"])
NoActive == [id |-> NoHolder, live |-> FALSE]
Places == {"new", "lock", "backup", "recheck", "gather", "finally", "ended"}

\* Type invariant; before its finally a batch past its locks holds every radio it
\* was started for.
RebootTypeOK ==
  /\ LeaseTypeOK
  /\ alive \in [Procs -> {"up", "stopping", "dead"}]
  /\ active \in [id : Batches \cup {NoHolder}, live : BOOLEAN]
  /\ claim \in [Occurrences -> Batches \cup {"free", "skipped"}]
  /\ rec \in [Batches -> Record]
  /\ run \in [Batches -> [pc : Places, ids : SUBSET Radios, left : SUBSET Radios,
                          proc : Procs \cup {NoHolder}, occ : Occurrences \cup {Manual}, job : Record]]
  /\ child \in [Batches -> [Radios -> {"none", "waiting", "attempted", "sending", "verify", "done"}]]
  /\ lock \in [Radios -> Batches \cup {NoHolder}]
  /\ sent \in [Batches -> [Radios -> Nat]]
  /\ faults \in 0 .. MaxFaults
  /\ \A b \in Batches :
       run[b].pc \in {"backup", "recheck", "gather"} => \A r \in run[b].ids : lock[r] = b

Init ==
  /\ LeaseInit
  /\ alive = [p \in Procs |-> "up"]
  /\ active = NoActive
  /\ claim = [o \in Occurrences |-> "free"]
  /\ rec = [b \in Batches |-> NoRecord]
  /\ run = [b \in Batches |-> [pc |-> "new", ids |-> {}, left |-> {}, proc |-> NoHolder,
                               occ |-> Manual, job |-> NoRecord]]
  /\ child = [b \in Batches |-> [r \in Radios |-> "none"]]
  /\ lock = [r \in Radios |-> NoHolder]
  /\ sent = [b \in Batches |-> [r \in Radios |-> 0]]
  /\ faults = 0

Running(b) == run[b].pc \notin {"new", "ended"}
Lives(b) == run[b].proc # NoHolder /\ alive[run[b].proc] # "dead"
Fault == faults < MaxFaults /\ faults' = faults + 1

\* persist(): the whole job in memory replaces the durable record.
Persist(b, job) == rec' = [rec EXCEPT ![b] = job]

\* The task of batch b at another place, with the radios its loop has not reached
\* and another job in memory.
Placed(b, pc, left, job) ==
  [pc |-> pc, ids |-> run[b].ids, left |-> left, proc |-> run[b].proc, occ |-> run[b].occ,
   job |-> job]
Goes(b, pc, left, job) == run' = [run EXCEPT ![b] = Placed(b, pc, left, job)]
SetJob(b, job) == Goes(b, run[b].pc, run[b].left, job)
Noted(b, r, result) == Job(run[b].job.status, [run[b].job.res EXCEPT ![r] = result])
Restated(b, status) == Job(status, run[b].job.res)

-----------------------------------------------------------------------------
(***************************************************************************)
(* start() and tick()                                                      *)
(***************************************************************************)

RadioFree(r) == lock[r] = NoHolder

\* The unique key of a scheduled occurrence is free.
Claimable(o) == o # Manual => claim[o] = "free"

\* A start() that does not look at the device locks.
Unchecked(ids) == TRUE

\* No radio of the selection is locked; other radios may be.
NotBusy(ids) == \A r \in ids : RadioFree(r)

\* start(): any selection of radios; the active row, the setup lease, the claim and the record are one
\* transaction.  An expired batch is marked as interrupted, never resumed; its task
\* may still run, on radios that are not selected.
Start(p, b, o, ids) ==
  /\ alive[p] = "up"
  /\ run[b].pc = "new"
  /\ NotBusy(ids)
  /\ ~active.live
  /\ Claimable(o)
  /\ Acquire(b)
  /\ active' = [id |-> b, live |-> TRUE]
  /\ claim' = IF o = Manual THEN claim ELSE [claim EXCEPT ![o] = b]
  /\ LET job == Job("PREPARING", NoRecord.res) IN
       /\ run' = [run EXCEPT ![b] = [pc |-> "lock", ids |-> ids, left |-> ids, proc |-> p,
                                     occ |-> o, job |-> job]]
       /\ rec' = [c \in Batches |->
            IF c = b THEN job
            ELSE IF c = active.id THEN Job("INTERRUPTED_NO_REPLAY", rec[c].res) ELSE rec[c]]
  /\ UNCHANGED <<alive, child, lock, sent, faults>>

\* tick(): a scheduled start that is refused, for any reason, is skipped for good.
SkipOccurrence(p, o) ==
  /\ alive[p] = "up"
  /\ claim[o] = "free"
  /\ claim' = [claim EXCEPT ![o] = "skipped"]
  /\ UNCHANGED <<lease, alive, active, rec, run, child, lock, sent, faults>>

-----------------------------------------------------------------------------
(***************************************************************************)
(* execute(): the preparation                                              *)
(***************************************************************************)

At(b, pc) == run[b].pc = pc /\ Lives(b)

\* Every lock in the order of the identifiers.
LockRadio(b) ==
  \E r \in run[b].left :
    LET left == run[b].left \ {r} IN
    /\ At(b, "lock")
    /\ \A q \in left : r < q
    /\ RadioFree(r)
    /\ lock' = [lock EXCEPT ![r] = b]
    /\ IF left = {} THEN Goes(b, "backup", run[b].ids, run[b].job)
       ELSE Goes(b, "lock", left, run[b].job)
    /\ UNCHANGED <<lease, alive, active, claim, rec, child, sent, faults>>

\* The snapshot of the next radio of the request is complete and its state permits
\* a restart.
BackUp(b) ==
  \E r \in run[b].left :
    LET left == run[b].left \ {r}
        job == Noted(b, r, "BACKED_UP")
    IN /\ At(b, "backup")
       /\ Persist(b, job)
       /\ Goes(b, IF left = {} THEN "recheck" ELSE "backup", left, job)
       /\ UNCHANGED <<lease, alive, active, claim, child, lock, sent, faults>>

\* Every radio is read again and unchanged: the batch is armed and its children
\* start.
Arm(b) ==
  LET job == Restated(b, "DISPATCHING") IN
  /\ At(b, "recheck")
  /\ Persist(b, job)
  /\ Goes(b, "gather", {}, job)
  /\ child' = [child EXCEPT ![b] = [r \in Radios |-> IF r \in run[b].ids THEN "waiting" ELSE "none"]]
  /\ UNCHANGED <<lease, alive, active, claim, lock, sent, faults>>

\* A batch that is always reported as blocked when it fails.
AlwaysBlocked(status) == "BLOCKED_NO_REBOOT"

\* The handler of execute(): nothing was sent while it was still preparing.
FailureStatus(status) ==
  IF status = "PREPARING" THEN "BLOCKED_NO_REBOOT" ELSE "PARTIAL_OR_UNCONFIRMED"

\* Cancellation of execute() reaches every child that has not finished.
Cancelled(b) == [r \in Radios |-> IF child[b][r] = "none" THEN "none" ELSE "done"]

\* A refusal, an exception, a busy lock or the timeout of the whole batch.
Fail(b) ==
  /\ Lives(b)
  /\ run[b].pc \in {"lock", "backup", "recheck", "gather"}
  /\ Goes(b, "finally", {}, Restated(b, FailureStatus(run[b].job.status)))
  /\ child' = [child EXCEPT ![b] = Cancelled(b)]
  /\ UNCHANGED <<lease, alive, active, claim, rec, lock, sent, faults>>

\* A save fails after the batch was armed in memory.
ArmFails(b) ==
  /\ At(b, "recheck")
  /\ Goes(b, "finally", {}, Restated(b, FailureStatus("DISPATCHING")))
  /\ Fault
  /\ UNCHANGED <<lease, alive, active, claim, rec, child, lock, sent>>

-----------------------------------------------------------------------------
(***************************************************************************)
(* one(): a child of the batch                                             *)
(***************************************************************************)

ChildAt(b, r, place) == child[b][r] = place /\ Lives(b)
SetChild(b, r, place) == child' = [child EXCEPT ![b][r] = place]
Permitted(b) == Cardinality({r \in Radios : child[b][r] \in {"attempted", "sending"}}) < Permits

\* The active row is still this batch's and has not expired.
StillActive(b) == active.id = b /\ active.live

\* The attempt is saved before anything irreversible.
Attempt(b, r) ==
  LET job == Noted(b, r, "COMMAND_ATTEMPTED") IN
  /\ ChildAt(b, r, "waiting")
  /\ Permitted(b)
  /\ StillActive(b)
  /\ SetJob(b, job)
  /\ Persist(b, job)
  /\ SetChild(b, r, "attempted")
  /\ UNCHANGED <<lease, alive, active, claim, lock, sent, faults>>

\* send(): the identity is confirmed and the command leaves.
Send(b, r) ==
  /\ ChildAt(b, r, "attempted")
  /\ sent' = [sent EXCEPT ![b][r] = @ + 1]
  /\ SetChild(b, r, "sending")
  /\ UNCHANGED <<lease, alive, active, claim, rec, run, lock, faults>>

SendReturns(b, r) ==
  LET job == Noted(b, r, "WAITING_FOR_RESTART") IN
  /\ ChildAt(b, r, "sending")
  /\ SetJob(b, job)
  /\ Persist(b, job)
  /\ SetChild(b, r, "verify")
  /\ UNCHANGED <<lease, alive, active, claim, lock, sent, faults>>

\* A handler that gives an ambiguous command another chance.
RetryAfter == "waiting"

\* Where a child goes after a command that was not confirmed: never again.
AfterUnconfirmed == "done"

\* The lease is lost, the radio cannot be identified, the answer is ambiguous, or
\* one save failed: no retry.
Unconfirmed(b, r) ==
  LET job == Noted(b, r, "COMMAND_UNCONFIRMED_NO_RETRY") IN
  /\ Lives(b)
  /\ \/ child[b][r] = "waiting" /\ Permitted(b)
     \/ child[b][r] \in {"attempted", "sending"}
  /\ SetJob(b, job)
  /\ Persist(b, job)
  /\ SetChild(b, r, AfterUnconfirmed)
  /\ UNCHANGED <<lease, alive, active, claim, lock, sent, faults>>

\* verify(): the radio was seen gone and back with its settings, or it was not.
Verify(b, r) ==
  \E result \in {"VERIFIED", "VERIFICATION_FAILED"} :
    LET job == Noted(b, r, result) IN
    /\ ChildAt(b, r, "verify")
    /\ SetJob(b, job)
    /\ Persist(b, job)
    /\ SetChild(b, r, "done")
    /\ UNCHANGED <<lease, alive, active, claim, lock, sent, faults>>

\* No save succeeds: the child raises, gather() raises in execute() and the other
\* children go on without it.
ChildSaveFails(b, r) ==
  /\ Lives(b)
  /\ \/ child[b][r] = "waiting" /\ Permitted(b)
     \/ child[b][r] \in {"attempted", "sending", "verify"}
  /\ SetChild(b, r, "done")
  /\ IF run[b].pc # "gather" THEN UNCHANGED run
     ELSE Goes(b, "finally", {}, Restated(b, FailureStatus(run[b].job.status)))
  /\ Fault
  /\ UNCHANGED <<lease, alive, active, claim, rec, lock, sent>>

-----------------------------------------------------------------------------
(***************************************************************************)
(* The end of a batch, other users of the lease, and faults                *)
(***************************************************************************)

AllVerified(b) == \A r \in run[b].ids : run[b].job.res[r] = "VERIFIED"

Gathered(b) ==
  /\ At(b, "gather")
  /\ \A r \in run[b].ids : child[b][r] = "done"
  /\ Goes(b, "finally", {},
          Restated(b, IF AllVerified(b) THEN "VERIFIED" ELSE "PARTIAL_OR_UNCONFIRMED"))
  /\ UNCHANGED <<lease, alive, active, claim, rec, child, lock, sent, faults>>

FreeLocks(b) == [r \in Radios |-> IF lock[r] = b THEN NoHolder ELSE lock[r]]
Orphaned(b) == \E r \in Radios : child[b][r] \in {"waiting", "attempted", "sending", "verify"}

\* The task is over; only children it left behind still use the job in memory.
Ended(b) == Goes(b, "ended", {}, IF Orphaned(b) THEN run[b].job ELSE NoRecord)

\* finally: locks, record, the active row and the lease, if they are still its own.
Conclude(b) ==
  /\ At(b, "finally")
  /\ lock' = FreeLocks(b)
  /\ Persist(b, run[b].job)
  /\ active' = IF active.id = b THEN NoActive ELSE active
  /\ Release(b)
  /\ Ended(b)
  /\ UNCHANGED <<alive, claim, child, sent, faults>>

\* The database fails in the finally: both leases stay until they expire.
ConcludeFails(b) ==
  /\ At(b, "finally")
  /\ lock' = FreeLocks(b)
  /\ Persist(b, run[b].job) \/ UNCHANGED rec
  /\ Ended(b)
  /\ Fault
  /\ UNCHANGED <<lease, alive, active, claim, child, sent>>

\* shutdown(): no new batch, and every task of the process is cancelled.
Shutdown(p) ==
  /\ alive[p] = "up"
  /\ alive' = [alive EXCEPT ![p] = "stopping"]
  /\ run' = [b \in Batches |->
       IF run[b].proc = p /\ run[b].pc \in {"lock", "backup", "recheck", "gather"}
       THEN Placed(b, "finally", {}, Restated(b, "INTERRUPTED_NO_REPLAY")) ELSE run[b]]
  /\ child' = [b \in Batches |->
       IF run[b].proc = p /\ run[b].pc = "gather" THEN Cancelled(b) ELSE child[b]]
  /\ Fault
  /\ UNCHANGED <<lease, active, claim, rec, lock, sent>>

Crash(p) ==
  /\ alive[p] # "dead"
  /\ alive' = [alive EXCEPT ![p] = "dead"]
  /\ run' = [b \in Batches |-> 
       IF run[b].proc = p THEN Placed(b, "ended", {}, NoRecord) ELSE run[b]]
  /\ child' = [b \in Batches |-> IF run[b].proc = p THEN Cancelled(b) ELSE child[b]]
  /\ lock' = [r \in Radios |->
       IF lock[r] # NoHolder /\ run[lock[r]].proc = p THEN NoHolder ELSE lock[r]]
  /\ Fault
  /\ UNCHANGED <<lease, active, claim, rec, sent>>

\* The twenty minutes of the active row pass.
BatchExpires ==
  /\ active.live
  /\ active' = [id |-> active.id, live |-> FALSE]
  /\ Fault
  /\ UNCHANGED <<lease, alive, claim, rec, run, child, lock, sent>>

\* Those of the lease began later, in the same transaction; a setup may stall too.
LeaseExpires ==
  /\ lease.holder = active.id => ~active.live
  /\ Expire
  /\ UNCHANGED <<alive, active, claim, rec, run, child, lock, sent, faults>>

\* A setup job or a startup review takes the lease, keeps it and releases it.
SetupTakesLease ==
  /\ lease.holder # Setup
  /\ Acquire(Setup)
  /\ UNCHANGED <<alive, active, claim, rec, run, child, lock, sent, faults>>

SetupReleasesLease ==
  /\ lease.holder = Setup
  /\ Release(Setup)
  /\ UNCHANGED <<alive, active, claim, rec, run, child, lock, sent, faults>>

BatchStep(b) ==
  \/ LockRadio(b) \/ BackUp(b) \/ Arm(b) \/ Fail(b) \/ Gathered(b) \/ Conclude(b)
  \/ \E r \in Radios :
       Attempt(b, r) \/ Send(b, r) \/ SendReturns(b, r) \/ Unconfirmed(b, r) \/ Verify(b, r)

Next ==
  \/ \E p \in Procs, b \in Batches, o \in Occurrences \cup {Manual}, ids \in SUBSET Radios \ {{}} :
       Start(p, b, o, ids)
  \/ \E p \in Procs, o \in Occurrences : SkipOccurrence(p, o)
  \/ \E b \in Batches : BatchStep(b) \/ ArmFails(b) \/ ConcludeFails(b)
  \/ \E b \in Batches, r \in Radios : ChildSaveFails(b, r)
  \/ \E p \in Procs : Shutdown(p) \/ Crash(p)
  \/ BatchExpires \/ LeaseExpires \/ SetupTakesLease \/ SetupReleasesLease

Spec == Init /\ [][Next]_rvars

-----------------------------------------------------------------------------
(***************************************************************************)
(* Properties                                                              *)
(***************************************************************************)

\* Module docstring, "A missed/ambiguous operation is never replayed": a batch
\* commands a radio at most once, and the batches of one scheduled occurrence
\* together at most once, over crashes, takeovers and expiries.
OneCommand ==
  \A r \in Radios :
    /\ \A b \in Batches : sent[b][r] <= 1
    /\ \A b, c \in Batches :
         b # c /\ run[b].occ = run[c].occ /\ run[b].occ # Manual => sent[b][r] + sent[c][r] <= 1

\* execute(): a batch recorded as BLOCKED_NO_REBOOT sent nothing, and one recorded
\* as VERIFIED commanded every radio it was started for.
StatusTruthful ==
  \A b \in Batches :
    /\ rec[b].status = "BLOCKED_NO_REBOOT" => \A r \in Radios : sent[b][r] = 0
    /\ rec[b].status = "VERIFIED" => \A r \in run[b].ids : sent[b][r] = 1

\* start() and one(): a batch that was superseded after its row expired may still
\* send a command it had attempted, since only other radios replaced it: however
\* late it wakes up, it never commands a radio it owns that the active batch was
\* started for.  start() looks at the locks of its own selection, and a child
\* checks the active row under them.
SupersededQuiet ==
  [][\A b \in Batches, r \in Radios :
       sent'[b][r] # sent[b][r] /\ lock[r] = b =>
         active.id \in {b, NoHolder} \/ r \notin run[active.id].ids]_rvars

\* A child checks the active row only.  That excludes setup jobs because the row
\* is never valid without the setup lease, whoever expires, concludes late or
\* releases in between.
LeaseTogether == active.live => Owns(active.id)

=============================================================================
