------------------------- MODULE RadioRebootsProofs -------------------------
(***************************************************************************)
(* Proofs about RadioReboots, for any number of processes, batches,        *)
(* radios, occurrences, permits and faults.                                *)
(***************************************************************************)
EXTENDS RadioReboots, TLAPS

\* A batch holds the locks its first loop is past.
LockProgress ==
  \A b \in Batches : run[b].pc = "lock" => \A r \in run[b].ids \ run[b].left : lock[r] = b

\* A batch has no child before it is armed, and a child that has not sent its
\* command cannot have been here before.
ChildrenOnce ==
  /\ \A b \in Batches : run[b].pc \in {"new", "lock", "backup", "recheck"} =>
       \A r \in Radios : child[b][r] = "none"
  /\ \A b \in Batches, r \in Radios :
       /\ child[b][r] \in {"none", "waiting", "attempted"} => sent[b][r] = 0
       /\ sent[b][r] <= 1

\* A scheduled batch keeps the only claim of its occurrence.
ClaimKept ==
  \A b \in Batches : run[b].occ # Manual => claim[run[b].occ] = b

\* The active batch, if it is another one, was not started for radio r.
Unwanted(b, r) == active.id \in {b, NoHolder} \/ r \notin run[active.id].ids

\* A command that was saved as attempted by a batch that owns the radio belongs
\* to the active batch, or the active batch does not want the radio.
AttemptsActive ==
  \A b \in Batches, r \in Radios : child[b][r] = "attempted" /\ lock[r] = b => Unwanted(b, r)

\* What the job in memory and the record say about the children of a batch.
StatusAt(b) ==
  /\ run[b].pc \in {"lock", "backup", "recheck"} => run[b].job.status = "PREPARING"
  /\ run[b].pc = "gather" => run[b].job.status = "DISPATCHING"
  /\ run[b].job.status = "BLOCKED_NO_REBOOT" \/ rec[b].status = "BLOCKED_NO_REBOOT" =>
       run[b].pc \in {"finally", "ended"} /\ \A r \in Radios : child[b][r] = "none"
  /\ run[b].job.status = "VERIFIED" =>
       run[b].pc \in {"finally", "ended"} /\ \A r \in run[b].ids : sent[b][r] = 1
  /\ rec[b].status = "VERIFIED" => \A r \in run[b].ids : sent[b][r] = 1

StatusKnown == \A b \in Batches : StatusAt(b)

\* A radio noted as verified, or whose child waits for an answer, was commanded.
ResultKnown ==
  \A b \in Batches, r \in Radios :
    run[b].job.res[r] = "VERIFIED" \/ child[b][r] \in {"sending", "verify"} => sent[b][r] = 1

\* The last part of the type invariant.
HeldAll ==
  \A b \in Batches :
    run[b].pc \in {"backup", "recheck", "gather"} => \A r \in run[b].ids : lock[r] = b

\* The state of a task.
Task == [pc : Places, ids : SUBSET Radios, left : SUBSET Radios, proc : Procs \cup {NoHolder},
         occ : Occurrences \cup {Manual}, job : Record]

RebootInv == RebootTypeOK /\ LockProgress

\* Every initial state has the types and no progress.
LEMMA InitInv == Init => RebootInv
  BY RebootAssumption, LeaseAssumption
  DEF Init, RebootInv, RebootTypeOK, LockProgress, LeaseInit, LeaseTypeOK, FreeLease, NoActive,
      NoRecord, Job, Record, Statuses, Results, Places

USE RebootAssumption, LeaseAssumption DEF Job, Goes, Placed

\* The radio that the first loop locks next, and the one that the second backs up.
LocksOne(b, r) ==
  LET left == run[b].left \ {r} IN
  /\ run[b].pc = "lock" /\ lock[r] = NoHolder
  /\ run' = [run EXCEPT ![b] =
       Placed(b, IF left = {} THEN "backup" ELSE "lock", IF left = {} THEN run[b].ids ELSE left,
              run[b].job)]
  /\ lock' = [lock EXCEPT ![r] = b]
  /\ UNCHANGED <<lease, alive, active, claim, rec, child, sent, faults>>

BacksUpOne(b, r) ==
  LET left == run[b].left \ {r}
      job == Noted(b, r, "BACKED_UP")
  IN /\ run[b].pc = "backup"
     /\ run' = [run EXCEPT ![b] = Placed(b, IF left = {} THEN "recheck" ELSE "backup", left, job)]
     /\ rec' = [rec EXCEPT ![b] = job]
     /\ UNCHANGED <<lease, alive, active, claim, child, lock, sent, faults>>

\* Every round of the two loops treats one radio.
LEMMA LockRadioOne == ASSUME NEW b, LockRadio(b) PROVE \E r \in run[b].left : LocksOne(b, r)
  BY DEF LockRadio, LocksOne, At, RadioFree

LEMMA BackUpOne == ASSUME NEW b, BackUp(b) PROVE \E r \in run[b].left : BacksUpOne(b, r)
  BY DEF BackUp, BacksUpOne, At, Persist

\* The end of a task frees its locks and nobody else's.
LEMMA EndedKeeps ==
  ASSUME RebootInv, NEW b \in Batches, Ended(b), lock' = FreeLocks(b), run[b].pc = "finally"
  PROVE  /\ run' \in [Batches -> Task] /\ lock' \in [Radios -> Batches \cup {NoHolder}]
         /\ HeldAll' /\ LockProgress'
<1> USE DEF RebootInv, RebootTypeOK, LockProgress
<1> DEFINE job == IF Orphaned(b) THEN run[b].job ELSE NoRecord
<1>1. job \in Record
  BY DEF NoRecord, Record, Statuses, Results
<1>2. run' = [run EXCEPT ![b] = Placed(b, "ended", {}, job)]
  BY DEF Ended
<1>. HIDE DEF job
<1>3. run' \in [Batches -> Task]
  BY <1>1, <1>2 DEF Task, Places
<1>4. run'[b].pc = "ended" /\ \A c \in Batches \ {b} : run'[c] = run[c]
  BY <1>2
<1>5. \A c \in Batches \ {b}, r \in Radios : lock[r] = c => lock'[r] = c
  BY DEF FreeLocks
<1>6. HeldAll'
  <2>1. SUFFICES ASSUME NEW c \in Batches, run'[c].pc \in {"backup", "recheck", "gather"},
                        NEW r \in run'[c].ids
                 PROVE lock'[r] = c
    BY DEF HeldAll
  <2>2. c # b /\ run'[c] = run[c] /\ run[c].ids \in SUBSET Radios
    BY <2>1, <1>4
  <2>. QED
    BY <2>1, <2>2, <1>5
<1>7. LockProgress'
  <2>1. SUFFICES ASSUME NEW c \in Batches, run'[c].pc = "lock", NEW r \in run'[c].ids \ run'[c].left
                 PROVE lock'[r] = c
    OBVIOUS
  <2>2. c # b /\ run'[c] = run[c] /\ run[c].ids \in SUBSET Radios
    BY <2>1, <1>4
  <2>. QED
    BY <2>1, <2>2, <1>5
<1>8. lock' \in [Radios -> Batches \cup {NoHolder}]
  BY DEF FreeLocks
<1>. QED
  BY <1>3, <1>6, <1>7, <1>8

\* Every step keeps the types and the locks of the batches.
LEMMA NextInv == RebootInv /\ [Next]_rvars => RebootInv'
<1> SUFFICES ASSUME RebootInv, [Next]_rvars PROVE RebootInv'
  OBVIOUS
<1> USE DEF RebootInv, RebootTypeOK, LockProgress, LeaseTypeOK
<1>1. ASSUME NEW p \in Procs, NEW b \in Batches, NEW o \in Occurrences \cup {Manual},
             NEW ids \in SUBSET Radios \ {{}}, Start(p, b, o, ids)
      PROVE RebootInv'
  BY <1>1 DEF Start, Acquire, HeldBy, NoRecord, Record, Statuses, Results, Places
<1>2. ASSUME NEW p \in Procs, NEW o \in Occurrences, SkipOccurrence(p, o) PROVE RebootInv'
  BY <1>2 DEF SkipOccurrence
<1>3. ASSUME NEW b \in Batches, LockRadio(b) PROVE RebootInv'
  <2>1. PICK q \in run[b].left : LocksOne(b, q)
    BY <1>3, LockRadioOne
  <2> DEFINE left == run[b].left \ {q}
             pc == IF left = {} THEN "backup" ELSE "lock"
             next == IF left = {} THEN run[b].ids ELSE left
  <2>2. /\ run[b].pc = "lock" /\ q \in Radios /\ lock[q] = NoHolder /\ b # NoHolder
        /\ run' = [run EXCEPT ![b] = Placed(b, pc, next, run[b].job)] /\ lock' = [lock EXCEPT ![q] = b]
        /\ UNCHANGED <<lease, alive, active, claim, rec, child, sent, faults>>
    BY <2>1 DEF LocksOne
  <2>3. pc \in Places /\ next \in SUBSET Radios
    BY DEF Places
  <2>4. run' \in [Batches -> Task]
    <3> HIDE DEF pc, next
    <3>. QED BY <2>2, <2>3 DEF Task, Record
  <2>5. /\ \A c \in Batches \ {b} : run'[c] = run[c]
        /\ run'[b].pc = pc /\ run'[b].left = next /\ run'[b].ids = run[b].ids
    BY <2>2
  <2>6. /\ \A c \in Batches, t \in Radios : lock[t] = c => lock'[t] = c
        /\ lock'[q] = b
    BY <2>2
  <2>7. \A t \in run[b].ids \ left : lock'[t] = b
    <3> SUFFICES ASSUME NEW t \in run[b].ids \ left PROVE lock'[t] = b
      OBVIOUS
    <3>1. t \in Radios /\ (t = q \/ t \in run[b].ids \ run[b].left)
      OBVIOUS
    <3>. QED BY <3>1, <2>2, <2>6
  <2>8. HeldAll'
    <3> SUFFICES ASSUME NEW c \in Batches, run'[c].pc \in {"backup", "recheck", "gather"},
                        NEW t \in run'[c].ids
                 PROVE lock'[t] = c
      BY DEF HeldAll
    <3>1. CASE c = b
      <4>1. left = {} /\ t \in run[b].ids \ left
        BY <2>5, <3>1
      <4>. QED BY <4>1, <3>1, <2>7
    <3>2. CASE c # b
      <4>1. run'[c] = run[c] /\ t \in Radios
        BY <2>5, <3>2
      <4>. QED BY <4>1, <2>6
    <3>. QED BY <3>1, <3>2
  <2>9. LockProgress'
    <3> SUFFICES ASSUME NEW c \in Batches, run'[c].pc = "lock", NEW t \in run'[c].ids \ run'[c].left
                 PROVE lock'[t] = c
      OBVIOUS
    <3>1. CASE c = b
      <4>1. t \in run[b].ids \ left
        BY <2>5, <3>1
      <4>. QED BY <4>1, <3>1, <2>7
    <3>2. CASE c # b
      <4>1. run'[c] = run[c] /\ t \in Radios
        BY <2>5, <3>2
      <4>. QED BY <4>1, <2>6
    <3>. QED BY <3>1, <3>2
  <2>10. lock' \in [Radios -> Batches \cup {NoHolder}]
    BY <2>2
  <2>. QED
    BY <2>2, <2>4, <2>8, <2>9, <2>10 DEF Task, HeldAll
<1>4. ASSUME NEW b \in Batches, BackUp(b) PROVE RebootInv'
  <2>1. PICK q \in run[b].left : BacksUpOne(b, q)
    BY <1>4, BackUpOne
  <2> DEFINE left == run[b].left \ {q}
             job == Noted(b, q, "BACKED_UP")
             pc == IF left = {} THEN "recheck" ELSE "backup"
  <2>2. job \in Record
    BY DEF Noted, Record, Results
  <2>3. pc \in {"recheck", "backup"} /\ left \in SUBSET Radios
    OBVIOUS
  <2>4. /\ run[b].pc = "backup"
        /\ run' = [run EXCEPT ![b] = Placed(b, pc, left, job)] /\ rec' = [rec EXCEPT ![b] = job]
        /\ UNCHANGED <<lease, alive, active, claim, child, lock, sent, faults>>
    BY <2>1 DEF BacksUpOne
  <2>. HIDE DEF job, pc, left
  <2>. QED
    BY <2>2, <2>3, <2>4 DEF Places
<1>5. ASSUME NEW b \in Batches, Arm(b) PROVE RebootInv'
  BY <1>5 DEF Arm, At, Radios, Places, Persist, Restated, Record, Statuses
<1>6. ASSUME NEW b \in Batches, Fail(b) PROVE RebootInv'
  BY <1>6 DEF Fail, FailureStatus, Restated, Cancelled, Places, Record, Statuses
<1>7. ASSUME NEW b \in Batches, ArmFails(b) PROVE RebootInv'
  BY <1>7 DEF ArmFails, At, FailureStatus, Restated, Fault, Places, Record, Statuses
<1>8. ASSUME NEW b \in Batches, NEW r \in Radios, Attempt(b, r) PROVE RebootInv'
  BY <1>8 DEF Attempt, ChildAt, SetJob, SetChild, Persist, Noted, Record, Results
<1>9. ASSUME NEW b \in Batches, NEW r \in Radios, Send(b, r) PROVE RebootInv'
  BY <1>9 DEF Send, SetChild
<1>10. ASSUME NEW b \in Batches, NEW r \in Radios, SendReturns(b, r) PROVE RebootInv'
  BY <1>10 DEF SendReturns, SetJob, SetChild, Persist, Noted, Record, Results
<1>11. ASSUME NEW b \in Batches, NEW r \in Radios, Unconfirmed(b, r) PROVE RebootInv'
  BY <1>11 DEF Unconfirmed, AfterUnconfirmed, SetJob, SetChild, Persist, Noted, Record, Results
<1>12. ASSUME NEW b \in Batches, NEW r \in Radios, Verify(b, r) PROVE RebootInv'
  BY <1>12 DEF Verify, SetJob, SetChild, Persist, Noted, Record, Results
<1>13. ASSUME NEW b \in Batches, NEW r \in Radios, ChildSaveFails(b, r) PROVE RebootInv'
  <2>1. CASE run[b].pc # "gather"
    BY <1>13, <2>1 DEF ChildSaveFails, SetChild, Fault
  <2>2. CASE run[b].pc = "gather"
    <3> DEFINE job == Restated(b, FailureStatus(run[b].job.status))
    <3>1. job \in Record
      BY DEF FailureStatus, Restated, Record, Statuses
    <3>2. run' = [run EXCEPT ![b] = Placed(b, "finally", {}, job)]
      BY <1>13, <2>2 DEF ChildSaveFails
    <3>. HIDE DEF job
    <3>. QED
      BY <1>13, <3>1, <3>2 DEF ChildSaveFails, SetChild, Fault, Places
  <2>. QED
    BY <2>1, <2>2
<1>14. ASSUME NEW b \in Batches, Gathered(b) PROVE RebootInv'
  BY <1>14 DEF Gathered, At, Restated, Places, Record, Statuses
<1>15. ASSUME NEW b \in Batches, Conclude(b) PROVE RebootInv'
  <2>1. Ended(b) /\ lock' = FreeLocks(b) /\ run[b].pc = "finally"
    BY <1>15 DEF Conclude, At
  <2>2. /\ run' \in [Batches -> Task] /\ lock' \in [Radios -> Batches \cup {NoHolder}]
        /\ HeldAll' /\ LockProgress'
    BY <2>1, EndedKeeps
  <2>3. rec' \in [Batches -> Record]
    BY <1>15 DEF Conclude, Persist
  <2>4. LeaseTypeOK'
    BY <1>15 DEF Conclude, Release, Released, FreeLease
  <2>5. active' \in [id : Batches \cup {NoHolder}, live : BOOLEAN]
    BY <1>15 DEF Conclude, NoActive
  <2>6. UNCHANGED <<alive, claim, child, sent, faults>>
    BY <1>15 DEF Conclude
  <2>. QED
    BY <2>2, <2>3, <2>4, <2>5, <2>6 DEF Task, HeldAll
<1>16. ASSUME NEW b \in Batches, ConcludeFails(b) PROVE RebootInv'
  <2>1. Ended(b) /\ lock' = FreeLocks(b) /\ run[b].pc = "finally"
    BY <1>16 DEF ConcludeFails, At
  <2>2. /\ run' \in [Batches -> Task] /\ lock' \in [Radios -> Batches \cup {NoHolder}]
        /\ HeldAll' /\ LockProgress'
    BY <2>1, EndedKeeps
  <2>3. rec' \in [Batches -> Record]
    <3>1. rec \in [Batches -> Record] /\ run[b].job \in Record
      BY <1>16 DEF Task
    <3>2. rec' = [rec EXCEPT ![b] = run[b].job] \/ rec' = rec
      BY <1>16 DEF ConcludeFails, Persist
    <3>. QED BY <3>1, <3>2
  <2>4. faults' \in 0 .. MaxFaults
    BY <1>16 DEF ConcludeFails, Fault
  <2>5. UNCHANGED <<lease, alive, active, claim, child, sent>>
    BY <1>16 DEF ConcludeFails
  <2>. QED
    BY <2>2, <2>3, <2>4, <2>5 DEF Task, HeldAll
<1>17. ASSUME NEW p \in Procs, Shutdown(p) PROVE RebootInv'
  BY <1>17 DEF Shutdown, Fault, Restated, Cancelled, Places, Record, Statuses
<1>18. ASSUME NEW p \in Procs, Crash(p) PROVE RebootInv'
  <2>1. run' \in [Batches -> Task]
    BY <1>18 DEF Crash, Task, NoRecord, Places, Record, Statuses, Results
  <2>2. \A c \in Batches : \/ run'[c] = run[c] /\ run[c].proc # p
                           \/ run'[c].pc = "ended"
    BY <1>18 DEF Crash
  <2>3. \A c \in Batches, t \in Radios : lock[t] = c /\ run[c].proc # p => lock'[t] = c
    BY <1>18 DEF Crash
  <2>4. LockProgress'
    <3>1. SUFFICES ASSUME NEW c \in Batches, run'[c].pc = "lock", NEW r \in run'[c].ids \ run'[c].left
                   PROVE lock'[r] = c
      OBVIOUS
    <3>2. run'[c] = run[c] /\ run[c].proc # p /\ run[c].ids \in SUBSET Radios
      BY <3>1, <2>2
    <3>. QED
      BY <3>1, <3>2, <2>3
  <2>5. HeldAll'
    BY <2>2, <2>3 DEF HeldAll
  <2>6. lock' \in [Radios -> Batches \cup {NoHolder}]
    BY <1>18 DEF Crash
  <2>7. child' \in [Batches -> [Radios -> {"none", "waiting", "attempted", "sending", "verify", "done"}]]
    BY <1>18 DEF Crash, Cancelled
  <2>8. alive' \in [Procs -> {"up", "stopping", "dead"}] /\ faults' \in 0 .. MaxFaults
    BY <1>18 DEF Crash, Fault
  <2>9. UNCHANGED <<lease, active, claim, rec, sent>>
    BY <1>18 DEF Crash
  <2>. QED
    BY <2>1, <2>4, <2>5, <2>6, <2>7, <2>8, <2>9 DEF Task, HeldAll
<1>19. CASE BatchExpires
  BY <1>19 DEF BatchExpires, Fault
<1>20. CASE LeaseExpires
  BY <1>20 DEF LeaseExpires, Expire
<1>21. CASE SetupTakesLease
  BY <1>21 DEF SetupTakesLease, Acquire, HeldBy
<1>22. CASE SetupReleasesLease
  BY <1>22 DEF SetupReleasesLease, Release, Released, FreeLease
<1>23. CASE UNCHANGED rvars
  BY <1>23 DEF rvars
<1>. QED
  BY <1>1, <1>2, <1>3, <1>4, <1>5, <1>6, <1>7, <1>8, <1>9, <1>10, <1>11, <1>12, <1>13, <1>14,
     <1>15, <1>16, <1>17, <1>18, <1>19, <1>20, <1>21, <1>22, <1>23
  DEF Next, BatchStep

\* Every step keeps the children of a batch to one command each.
LEMMA NextOnce == RebootInv /\ ChildrenOnce /\ [Next]_rvars => ChildrenOnce'
<1> SUFFICES ASSUME RebootInv, ChildrenOnce, [Next]_rvars PROVE ChildrenOnce'
  OBVIOUS
<1> USE DEF RebootInv, RebootTypeOK, ChildrenOnce
<1>1. ASSUME NEW p \in Procs, NEW b \in Batches, NEW o \in Occurrences \cup {Manual},
             NEW ids \in SUBSET Radios \ {{}}, Start(p, b, o, ids) PROVE ChildrenOnce'
  BY <1>1 DEF Start
<1>2. ASSUME NEW p \in Procs, NEW o \in Occurrences, SkipOccurrence(p, o) PROVE ChildrenOnce'
  BY <1>2 DEF SkipOccurrence
<1>3. ASSUME NEW b \in Batches, LockRadio(b) PROVE ChildrenOnce'
  <2>0. PICK q \in run[b].left : LocksOne(b, q)
    BY <1>3, LockRadioOne
  <2>1. run[b].pc = "lock" /\ UNCHANGED <<child, sent>>
    BY <2>0 DEF LocksOne
  <2>2. \A c \in Batches \ {b} : run'[c] = run[c]
    BY <2>0 DEF LocksOne
  <2>3. \A c \in Batches : run'[c].pc \in {"new", "lock", "backup", "recheck"} =>
          \A r \in Radios : child[c][r] = "none"
    <3> SUFFICES ASSUME NEW c \in Batches, run'[c].pc \in {"new", "lock", "backup", "recheck"}
                 PROVE \A r \in Radios : child[c][r] = "none"
      OBVIOUS
    <3>1. CASE c = b
      BY <3>1, <2>1
    <3>2. CASE c # b
      BY <3>2, <2>2
    <3>. QED BY <3>1, <3>2
  <2>. QED
    BY <2>1, <2>3
<1>4. ASSUME NEW b \in Batches, BackUp(b) PROVE ChildrenOnce'
  <2>0. PICK q \in run[b].left : BacksUpOne(b, q)
    BY <1>4, BackUpOne
  <2>1. run[b].pc = "backup" /\ UNCHANGED <<child, sent>>
    BY <2>0 DEF BacksUpOne
  <2>2. \A c \in Batches \ {b} : run'[c] = run[c]
    BY <2>0 DEF BacksUpOne
  <2>3. \A c \in Batches : run'[c].pc \in {"new", "lock", "backup", "recheck"} =>
          \A r \in Radios : child[c][r] = "none"
    <3> SUFFICES ASSUME NEW c \in Batches, run'[c].pc \in {"new", "lock", "backup", "recheck"}
                 PROVE \A r \in Radios : child[c][r] = "none"
      OBVIOUS
    <3>1. CASE c = b
      BY <3>1, <2>1
    <3>2. CASE c # b
      BY <3>2, <2>2
    <3>. QED BY <3>1, <3>2
  <2>. QED
    BY <2>1, <2>3
<1>5. ASSUME NEW b \in Batches, Arm(b) PROVE ChildrenOnce'
  BY <1>5 DEF Arm, At
<1>6. ASSUME NEW b \in Batches, Fail(b) PROVE ChildrenOnce'
  BY <1>6 DEF Fail, Cancelled
<1>7. ASSUME NEW b \in Batches, ArmFails(b) PROVE ChildrenOnce'
  BY <1>7 DEF ArmFails, At
<1>8. ASSUME NEW b \in Batches, NEW r \in Radios, Attempt(b, r) PROVE ChildrenOnce'
  BY <1>8 DEF Attempt, ChildAt, SetJob, SetChild
<1>9. ASSUME NEW b \in Batches, NEW r \in Radios, Send(b, r) PROVE ChildrenOnce'
  BY <1>9 DEF Send, ChildAt, SetChild
<1>10. ASSUME NEW b \in Batches, NEW r \in Radios, SendReturns(b, r) PROVE ChildrenOnce'
  BY <1>10 DEF SendReturns, ChildAt, SetJob, SetChild
<1>11. ASSUME NEW b \in Batches, NEW r \in Radios, Unconfirmed(b, r) PROVE ChildrenOnce'
  BY <1>11 DEF Unconfirmed, AfterUnconfirmed, SetJob, SetChild
<1>12. ASSUME NEW b \in Batches, NEW r \in Radios, Verify(b, r) PROVE ChildrenOnce'
  <2>1. child[b][r] = "verify" /\ child' = [child EXCEPT ![b][r] = "done"] /\ UNCHANGED sent
    BY <1>12 DEF Verify, ChildAt, SetChild
  <2>2. \A c \in Batches : run'[c].pc = run[c].pc
    BY <1>12 DEF Verify, SetJob
  <2>. QED
    BY <2>1, <2>2
<1>13. ASSUME NEW b \in Batches, NEW r \in Radios, ChildSaveFails(b, r) PROVE ChildrenOnce'
  BY <1>13 DEF ChildSaveFails, SetChild
<1>14. ASSUME NEW b \in Batches, Gathered(b) PROVE ChildrenOnce'
  BY <1>14 DEF Gathered, At
<1>15. ASSUME NEW b \in Batches, Conclude(b) PROVE ChildrenOnce'
  BY <1>15 DEF Conclude, At, Ended
<1>16. ASSUME NEW b \in Batches, ConcludeFails(b) PROVE ChildrenOnce'
  BY <1>16 DEF ConcludeFails, At, Ended
<1>17. ASSUME NEW p \in Procs, Shutdown(p) PROVE ChildrenOnce'
  BY <1>17 DEF Shutdown, Cancelled
<1>18. ASSUME NEW p \in Procs, Crash(p) PROVE ChildrenOnce'
  BY <1>18 DEF Crash, Cancelled
<1>19. CASE BatchExpires
  BY <1>19 DEF BatchExpires
<1>20. CASE LeaseExpires
  BY <1>20 DEF LeaseExpires
<1>21. CASE SetupTakesLease
  BY <1>21 DEF SetupTakesLease
<1>22. CASE SetupReleasesLease
  BY <1>22 DEF SetupReleasesLease
<1>23. CASE UNCHANGED rvars
  BY <1>23 DEF rvars
<1>. QED
  BY <1>1, <1>2, <1>3, <1>4, <1>5, <1>6, <1>7, <1>8, <1>9, <1>10, <1>11, <1>12,
     <1>13, <1>14, <1>15, <1>16, <1>17, <1>18, <1>19, <1>20, <1>21, <1>22, <1>23
  DEF Next, BatchStep

\* No step takes a claim away or gives it to a second batch.
LEMMA NextClaim == RebootInv /\ ClaimKept /\ [Next]_rvars => ClaimKept'
<1> SUFFICES ASSUME RebootInv, ClaimKept, [Next]_rvars PROVE ClaimKept'
  OBVIOUS
<1> USE DEF RebootInv, RebootTypeOK, ClaimKept
<1>1. ASSUME NEW p \in Procs, NEW b \in Batches, NEW o \in Occurrences \cup {Manual},
             NEW ids \in SUBSET Radios \ {{}}, Start(p, b, o, ids) PROVE ClaimKept'
  BY <1>1 DEF Start, Claimable
<1>2. ASSUME NEW p \in Procs, NEW o \in Occurrences, SkipOccurrence(p, o) PROVE ClaimKept'
  BY <1>2 DEF SkipOccurrence
<1>3. ASSUME NEW b \in Batches, LockRadio(b) PROVE ClaimKept'
  <2>1. PICK q \in run[b].left : LocksOne(b, q)
    BY <1>3, LockRadioOne
  <2>2. UNCHANGED claim /\ \A c \in Batches : run'[c].occ = run[c].occ
    BY <2>1 DEF LocksOne
  <2>. QED
    BY <2>2
<1>4. ASSUME NEW b \in Batches, BackUp(b) PROVE ClaimKept'
  <2>1. UNCHANGED claim /\ \A c \in Batches : run'[c].occ = run[c].occ
    <3>1. PICK q \in run[b].left : BacksUpOne(b, q)
      BY <1>4, BackUpOne
    <3>. QED BY <3>1 DEF BacksUpOne
  <2>. QED
    BY <2>1
<1>5. ASSUME NEW b \in Batches, Arm(b) PROVE ClaimKept'
  BY <1>5 DEF Arm, At
<1>6. ASSUME NEW b \in Batches, Fail(b) PROVE ClaimKept'
  BY <1>6 DEF Fail, Cancelled
<1>7. ASSUME NEW b \in Batches, ArmFails(b) PROVE ClaimKept'
  BY <1>7 DEF ArmFails, At
<1>8. ASSUME NEW b \in Batches, NEW r \in Radios, Attempt(b, r) PROVE ClaimKept'
  BY <1>8 DEF Attempt, ChildAt, SetJob, SetChild
<1>9. ASSUME NEW b \in Batches, NEW r \in Radios, Send(b, r) PROVE ClaimKept'
  BY <1>9 DEF Send, ChildAt, SetChild
<1>10. ASSUME NEW b \in Batches, NEW r \in Radios, SendReturns(b, r) PROVE ClaimKept'
  BY <1>10 DEF SendReturns, ChildAt, SetJob, SetChild
<1>11. ASSUME NEW b \in Batches, NEW r \in Radios, Unconfirmed(b, r) PROVE ClaimKept'
  BY <1>11 DEF Unconfirmed, AfterUnconfirmed, SetJob, SetChild
<1>12. ASSUME NEW b \in Batches, NEW r \in Radios, Verify(b, r) PROVE ClaimKept'
  BY <1>12 DEF Verify, SetJob, SetChild
<1>13. ASSUME NEW b \in Batches, NEW r \in Radios, ChildSaveFails(b, r) PROVE ClaimKept'
  <2>1. UNCHANGED claim /\ \A c \in Batches : run'[c].occ = run[c].occ
    <3>1. CASE run[b].pc # "gather"
      BY <1>13, <3>1 DEF ChildSaveFails
    <3>2. CASE run[b].pc = "gather"
      <4>1. UNCHANGED claim /\ run' = [run EXCEPT ![b] = Placed(b, "finally", {}, Restated(b, FailureStatus(run[b].job.status)))]
        BY <1>13, <3>2 DEF ChildSaveFails
      <4>. QED BY <4>1
    <3>. QED BY <3>1, <3>2
  <2>. QED
    BY <2>1
<1>14. ASSUME NEW b \in Batches, Gathered(b) PROVE ClaimKept'
  BY <1>14 DEF Gathered, At
<1>15. ASSUME NEW b \in Batches, Conclude(b) PROVE ClaimKept'
  BY <1>15 DEF Conclude, At, Ended
<1>16. ASSUME NEW b \in Batches, ConcludeFails(b) PROVE ClaimKept'
  BY <1>16 DEF ConcludeFails, At, Ended
<1>17. ASSUME NEW p \in Procs, Shutdown(p) PROVE ClaimKept'
  BY <1>17 DEF Shutdown, Cancelled
<1>18. ASSUME NEW p \in Procs, Crash(p) PROVE ClaimKept'
  BY <1>18 DEF Crash, Cancelled
<1>19. CASE BatchExpires
  BY <1>19 DEF BatchExpires
<1>20. CASE LeaseExpires
  BY <1>20 DEF LeaseExpires
<1>21. CASE SetupTakesLease
  BY <1>21 DEF SetupTakesLease
<1>22. CASE SetupReleasesLease
  BY <1>22 DEF SetupReleasesLease
<1>23. CASE UNCHANGED rvars
  BY <1>23 DEF rvars
<1>. QED
  BY <1>1, <1>2, <1>3, <1>4, <1>5, <1>6, <1>7, <1>8, <1>9, <1>10, <1>11, <1>12,
     <1>13, <1>14, <1>15, <1>16, <1>17, <1>18, <1>19, <1>20, <1>21, <1>22, <1>23
  DEF Next, BatchStep

\* No step leaves the active row valid without the lease.
LEMMA NextLease == RebootInv /\ LeaseTogether /\ [Next]_rvars => LeaseTogether'
<1> SUFFICES ASSUME RebootInv, LeaseTogether, [Next]_rvars PROVE LeaseTogether'
  OBVIOUS
<1> USE DEF RebootInv, RebootTypeOK, LeaseTypeOK, LeaseTogether, Owns
<1>1. ASSUME NEW p \in Procs, NEW b \in Batches, NEW o \in Occurrences \cup {Manual},
             NEW ids \in SUBSET Radios \ {{}}, Start(p, b, o, ids) PROVE LeaseTogether'
  BY <1>1 DEF Start, Acquire, HeldBy, Owns
<1>2. ASSUME NEW p \in Procs, NEW o \in Occurrences, SkipOccurrence(p, o) PROVE LeaseTogether'
  BY <1>2 DEF SkipOccurrence
<1>3. ASSUME NEW b \in Batches, LockRadio(b) PROVE LeaseTogether'
  BY <1>3 DEF LockRadio
<1>4. ASSUME NEW b \in Batches, BackUp(b) PROVE LeaseTogether'
  BY <1>4 DEF BackUp
<1>5. ASSUME NEW b \in Batches, Arm(b) PROVE LeaseTogether'
  BY <1>5 DEF Arm
<1>6. ASSUME NEW b \in Batches, Fail(b) PROVE LeaseTogether'
  BY <1>6 DEF Fail
<1>7. ASSUME NEW b \in Batches, ArmFails(b) PROVE LeaseTogether'
  BY <1>7 DEF ArmFails
<1>8. ASSUME NEW b \in Batches, NEW r \in Radios, Attempt(b, r) PROVE LeaseTogether'
  BY <1>8 DEF Attempt
<1>9. ASSUME NEW b \in Batches, NEW r \in Radios, Send(b, r) PROVE LeaseTogether'
  BY <1>9 DEF Send
<1>10. ASSUME NEW b \in Batches, NEW r \in Radios, SendReturns(b, r) PROVE LeaseTogether'
  BY <1>10 DEF SendReturns
<1>11. ASSUME NEW b \in Batches, NEW r \in Radios, Unconfirmed(b, r) PROVE LeaseTogether'
  BY <1>11 DEF Unconfirmed
<1>12. ASSUME NEW b \in Batches, NEW r \in Radios, Verify(b, r) PROVE LeaseTogether'
  BY <1>12 DEF Verify
<1>13. ASSUME NEW b \in Batches, NEW r \in Radios, ChildSaveFails(b, r) PROVE LeaseTogether'
  BY <1>13 DEF ChildSaveFails
<1>14. ASSUME NEW b \in Batches, Gathered(b) PROVE LeaseTogether'
  BY <1>14 DEF Gathered
<1>15. ASSUME NEW b \in Batches, Conclude(b) PROVE LeaseTogether'
  BY <1>15 DEF Conclude, Release, Released, FreeLease, NoActive
<1>16. ASSUME NEW b \in Batches, ConcludeFails(b) PROVE LeaseTogether'
  BY <1>16 DEF ConcludeFails
<1>17. ASSUME NEW p \in Procs, Shutdown(p) PROVE LeaseTogether'
  BY <1>17 DEF Shutdown
<1>18. ASSUME NEW p \in Procs, Crash(p) PROVE LeaseTogether'
  BY <1>18 DEF Crash
<1>19. CASE BatchExpires
  BY <1>19 DEF BatchExpires
<1>20. CASE LeaseExpires
  BY <1>20 DEF LeaseExpires, Expire
<1>21. CASE SetupTakesLease
  BY <1>21 DEF SetupTakesLease, Acquire, MayAcquire, HeldBy
<1>22. CASE SetupReleasesLease
  BY <1>22 DEF SetupReleasesLease, Release, Released, FreeLease
<1>23. CASE UNCHANGED rvars
  BY <1>23 DEF rvars
<1>. QED
  BY <1>1, <1>2, <1>3, <1>4, <1>5, <1>6, <1>7, <1>8, <1>9, <1>10, <1>11, <1>12,
     <1>13, <1>14, <1>15, <1>16, <1>17, <1>18, <1>19, <1>20, <1>21, <1>22, <1>23
  DEF Next, BatchStep

\* No step leaves an owned attempt with a batch that is not active.
LEMMA NextAttempts == RebootInv /\ ChildrenOnce /\ AttemptsActive /\ [Next]_rvars => AttemptsActive'
<1> SUFFICES ASSUME RebootInv, ChildrenOnce, AttemptsActive, [Next]_rvars PROVE AttemptsActive'
  OBVIOUS
<1>0. ASSUME UNCHANGED active, \A c \in Batches : run'[c].ids = run[c].ids,
             NEW b \in Batches, NEW r \in Radios, Unwanted(b, r)
      PROVE Unwanted(b, r)'
  BY <1>0 DEF Unwanted, RebootInv, RebootTypeOK
<1> USE DEF RebootInv, RebootTypeOK, ChildrenOnce, AttemptsActive
<1>1. ASSUME NEW p \in Procs, NEW b \in Batches, NEW o \in Occurrences \cup {Manual},
             NEW ids \in SUBSET Radios \ {{}}, Start(p, b, o, ids) PROVE AttemptsActive'
  <2> SUFFICES ASSUME NEW c \in Batches, NEW r \in Radios, child'[c][r] = "attempted", lock'[r] = c
               PROVE Unwanted(c, r)'
    OBVIOUS
  <2>1. lock[r] = c /\ active'.id = b /\ run'[b].ids = ids
    BY <1>1 DEF Start
  <2>2. r \notin ids
    BY <1>1, <2>1 DEF Start, NotBusy, RadioFree
  <2>. QED BY <2>1, <2>2 DEF Unwanted
<1>2. ASSUME NEW p \in Procs, NEW o \in Occurrences, SkipOccurrence(p, o) PROVE AttemptsActive'
  BY <1>0, <1>2 DEF SkipOccurrence
<1>3. ASSUME NEW b \in Batches, LockRadio(b) PROVE AttemptsActive'
  <2>1. PICK q \in run[b].left : LocksOne(b, q)
    BY <1>3, LockRadioOne
  <2>2. \A r \in Radios : child[b][r] = "none"
    BY <2>1 DEF LocksOne
  <2>3. UNCHANGED <<active, child>> /\ \A c \in Batches : run'[c].ids = run[c].ids
    BY <2>1 DEF LocksOne
  <2>4. \A c \in Batches \ {b}, r \in Radios : lock'[r] = c => lock[r] = c
    BY <2>1 DEF LocksOne
  <2> SUFFICES ASSUME NEW c \in Batches, NEW r \in Radios, child'[c][r] = "attempted", lock'[r] = c
               PROVE Unwanted(c, r)'
    OBVIOUS
  <2>5. c # b /\ child[c][r] = "attempted"
    BY <2>2, <2>3
  <2>6. Unwanted(c, r)
    BY <2>4, <2>5
  <2>. QED BY <1>0, <2>3, <2>6
<1>4. ASSUME NEW b \in Batches, BackUp(b) PROVE AttemptsActive'
  <2>1. PICK q \in run[b].left : BacksUpOne(b, q)
    BY <1>4, BackUpOne
  <2>2. UNCHANGED <<active, child, lock>> /\ \A c \in Batches : run'[c].ids = run[c].ids
    BY <2>1 DEF BacksUpOne
  <2>. QED BY <1>0, <2>2
<1>5. ASSUME NEW b \in Batches, Arm(b) PROVE AttemptsActive'
  <2>1. UNCHANGED <<active, lock>> /\ \A c \in Batches : run'[c].ids = run[c].ids
    BY <1>5 DEF Arm, SetJob
  <2>2. \A c \in Batches, t \in Radios : child'[c][t] = "attempted" => child[c][t] = "attempted"
    BY <1>5 DEF Arm, At
  <2>. QED BY <1>0, <2>1, <2>2
<1>6. ASSUME NEW b \in Batches, Fail(b) PROVE AttemptsActive'
  <2>1. UNCHANGED <<active, lock>> /\ \A c \in Batches : run'[c].ids = run[c].ids
    BY <1>6 DEF Fail, SetJob
  <2>2. \A c \in Batches, t \in Radios : child'[c][t] = "attempted" => child[c][t] = "attempted"
    BY <1>6 DEF Fail, Cancelled
  <2>. QED BY <1>0, <2>1, <2>2
<1>7. ASSUME NEW b \in Batches, ArmFails(b) PROVE AttemptsActive'
  <2>1. UNCHANGED <<active, lock>> /\ \A c \in Batches : run'[c].ids = run[c].ids
    BY <1>7 DEF ArmFails, SetJob
  <2>2. \A c \in Batches, t \in Radios : child'[c][t] = "attempted" => child[c][t] = "attempted"
    BY <1>7 DEF ArmFails, At
  <2>. QED BY <1>0, <2>1, <2>2
<1>8. ASSUME NEW b \in Batches, NEW r \in Radios, Attempt(b, r) PROVE AttemptsActive'
  <2>1. UNCHANGED <<active, lock>> /\ \A c \in Batches : run'[c].ids = run[c].ids
    BY <1>8 DEF Attempt, SetJob
  <2>2. \A c \in Batches, t \in Radios :
          child'[c][t] = "attempted" => child[c][t] = "attempted" \/ c = b
    BY <1>8 DEF Attempt, SetChild
  <2>3. \A t \in Radios : Unwanted(b, t)
    BY <1>8 DEF Attempt, StillActive, Unwanted
  <2>. QED BY <1>0, <2>1, <2>2, <2>3
<1>9. ASSUME NEW b \in Batches, NEW r \in Radios, Send(b, r) PROVE AttemptsActive'
  <2>1. UNCHANGED <<active, lock>> /\ \A c \in Batches : run'[c].ids = run[c].ids
    BY <1>9 DEF Send, SetJob
  <2>2. \A c \in Batches, t \in Radios : child'[c][t] = "attempted" => child[c][t] = "attempted"
    BY <1>9 DEF Send, SetChild
  <2>. QED BY <1>0, <2>1, <2>2
<1>10. ASSUME NEW b \in Batches, NEW r \in Radios, SendReturns(b, r) PROVE AttemptsActive'
  <2>1. UNCHANGED <<active, lock>> /\ \A c \in Batches : run'[c].ids = run[c].ids
    BY <1>10 DEF SendReturns, SetJob
  <2>2. \A c \in Batches, t \in Radios : child'[c][t] = "attempted" => child[c][t] = "attempted"
    BY <1>10 DEF SendReturns, SetChild
  <2>. QED BY <1>0, <2>1, <2>2
<1>11. ASSUME NEW b \in Batches, NEW r \in Radios, Unconfirmed(b, r) PROVE AttemptsActive'
  <2>1. UNCHANGED <<active, lock>> /\ \A c \in Batches : run'[c].ids = run[c].ids
    BY <1>11 DEF Unconfirmed, SetJob
  <2>2. \A c \in Batches, t \in Radios : child'[c][t] = "attempted" => child[c][t] = "attempted"
    BY <1>11 DEF Unconfirmed, SetChild, AfterUnconfirmed
  <2>. QED BY <1>0, <2>1, <2>2
<1>12. ASSUME NEW b \in Batches, NEW r \in Radios, Verify(b, r) PROVE AttemptsActive'
  <2>1. UNCHANGED <<active, lock>> /\ \A c \in Batches : run'[c].ids = run[c].ids
    BY <1>12 DEF Verify, SetJob
  <2>2. \A c \in Batches, t \in Radios : child'[c][t] = "attempted" => child[c][t] = "attempted"
    BY <1>12 DEF Verify, SetChild
  <2>. QED BY <1>0, <2>1, <2>2
<1>13. ASSUME NEW b \in Batches, NEW r \in Radios, ChildSaveFails(b, r) PROVE AttemptsActive'
  <2>1. UNCHANGED <<active, lock>> /\ \A c \in Batches : run'[c].ids = run[c].ids
    <3>1. CASE run[b].pc # "gather"
      BY <1>13, <3>1 DEF ChildSaveFails
    <3>2. CASE run[b].pc = "gather"
      <4> DEFINE job == Restated(b, FailureStatus(run[b].job.status))
      <4>1. UNCHANGED <<active, lock>> /\ run' = [run EXCEPT ![b] = Placed(b, "finally", {}, job)]
        BY <1>13, <3>2 DEF ChildSaveFails
      <4> HIDE DEF job
      <4>. QED BY <4>1
    <3>. QED BY <3>1, <3>2
  <2>2. \A c \in Batches, t \in Radios : child'[c][t] = "attempted" => child[c][t] = "attempted"
    BY <1>13 DEF ChildSaveFails, SetChild
  <2>. QED BY <1>0, <2>1, <2>2
<1>14. ASSUME NEW b \in Batches, Gathered(b) PROVE AttemptsActive'
  <2>1. UNCHANGED <<active, lock>> /\ \A c \in Batches : run'[c].ids = run[c].ids
    BY <1>14 DEF Gathered, SetJob
  <2>2. \A c \in Batches, t \in Radios : child'[c][t] = "attempted" => child[c][t] = "attempted"
    BY <1>14 DEF Gathered, At
  <2>. QED BY <1>0, <2>1, <2>2
<1>15. ASSUME NEW b \in Batches, Conclude(b) PROVE AttemptsActive'
  <2> SUFFICES ASSUME NEW c \in Batches, NEW r \in Radios, child'[c][r] = "attempted", lock'[r] = c
               PROVE Unwanted(c, r)'
    OBVIOUS
  <2>1. lock[r] = c /\ child[c][r] = "attempted" /\ \A d \in Batches : run'[d].ids = run[d].ids
    BY <1>15 DEF Conclude, FreeLocks, Ended
  <2>2. Unwanted(c, r)
    BY <2>1
  <2>3. CASE active.id = b
    BY <1>15, <2>3 DEF Conclude, NoActive, Unwanted
  <2>4. CASE active.id # b
    BY <1>0, <1>15, <2>1, <2>2, <2>4 DEF Conclude
  <2>. QED BY <2>3, <2>4
<1>16. ASSUME NEW b \in Batches, ConcludeFails(b) PROVE AttemptsActive'
  <2>1. UNCHANGED <<active, child>> /\ \A c \in Batches : run'[c].ids = run[c].ids
    BY <1>16 DEF ConcludeFails, Ended
  <2>2. \A c \in Batches, r \in Radios : lock'[r] = c => lock[r] = c
    BY <1>16 DEF ConcludeFails, FreeLocks
  <2>. QED BY <1>0, <2>1, <2>2
<1>17. ASSUME NEW p \in Procs, Shutdown(p) PROVE AttemptsActive'
  <2>1. UNCHANGED <<active, lock>> /\ \A c \in Batches : run'[c].ids = run[c].ids
    BY <1>17 DEF Shutdown
  <2>2. \A c \in Batches, t \in Radios : child'[c][t] = "attempted" => child[c][t] = "attempted"
    BY <1>17 DEF Shutdown, Cancelled
  <2>. QED BY <1>0, <2>1, <2>2
<1>18. ASSUME NEW p \in Procs, Crash(p) PROVE AttemptsActive'
  <2>1. UNCHANGED active /\ \A c \in Batches : run'[c].ids = run[c].ids
    BY <1>18 DEF Crash
  <2>2. \A c \in Batches, t \in Radios : child'[c][t] = "attempted" => child[c][t] = "attempted"
    BY <1>18 DEF Crash, Cancelled
  <2>3. \A c \in Batches, t \in Radios : lock'[t] = c => lock[t] = c
    BY <1>18 DEF Crash
  <2>. QED BY <1>0, <2>1, <2>2, <2>3
<1>19. CASE BatchExpires
  BY <1>19 DEF BatchExpires, Unwanted
<1>20. CASE LeaseExpires
  BY <1>0, <1>20 DEF LeaseExpires
<1>21. CASE SetupTakesLease
  BY <1>0, <1>21 DEF SetupTakesLease
<1>22. CASE SetupReleasesLease
  BY <1>0, <1>22 DEF SetupReleasesLease
<1>23. CASE UNCHANGED rvars
  BY <1>0, <1>23 DEF rvars
<1>. QED
  BY <1>1, <1>2, <1>3, <1>4, <1>5, <1>6, <1>7, <1>8, <1>9, <1>10, <1>11, <1>12,
     <1>13, <1>14, <1>15, <1>16, <1>17, <1>18, <1>19, <1>20, <1>21, <1>22, <1>23
  DEF Next, BatchStep

\* The answer that verify() gives.
VerifiedAs(b, r, result) ==
  LET job == Noted(b, r, result) IN
    /\ ChildAt(b, r, "verify")
    /\ SetJob(b, job)
    /\ Persist(b, job)
    /\ SetChild(b, r, "done")
    /\ UNCHANGED sent

\* No step makes a job in memory or a record claim more than was sent, or less.
LEMMA NextStatus ==
  RebootInv /\ ChildrenOnce /\ StatusKnown /\ ResultKnown /\ [Next]_rvars => StatusKnown' /\ ResultKnown'
<1> DEFINE Truth == StatusKnown /\ ResultKnown
<1> SUFFICES ASSUME RebootInv, ChildrenOnce, Truth, [Next]_rvars PROVE Truth'
  OBVIOUS
<1> USE DEF RebootInv, RebootTypeOK, ChildrenOnce, StatusKnown, StatusAt, ResultKnown
<1>1. ASSUME NEW p \in Procs, NEW b \in Batches, NEW o \in Occurrences \cup {Manual},
             NEW ids \in SUBSET Radios \ {{}}, Start(p, b, o, ids) PROVE Truth'
  <2>1. run[b].pc = "new" /\ UNCHANGED <<child, sent>>
    BY <1>1 DEF Start
  <2>2. /\ run'[b].pc = "lock" /\ run'[b].job = Job("PREPARING", NoRecord.res)
        /\ rec'[b] = Job("PREPARING", NoRecord.res)
        /\ \A c \in Batches \ {b} : run'[c] = run[c] /\ rec'[c].status \in {rec[c].status, "INTERRUPTED_NO_REPLAY"}
    <3> DEFINE job == Job("PREPARING", NoRecord.res)
    <3>1. /\ run' = [run EXCEPT ![b] = [pc |-> "lock", ids |-> ids, left |-> ids, proc |-> p,
                                          occ |-> o, job |-> job]]
          /\ rec' = [c \in Batches |->
               IF c = b THEN job
               ELSE IF c = active.id THEN Job("INTERRUPTED_NO_REPLAY", rec[c].res) ELSE rec[c]]
      BY <1>1 DEF Start
    <3>. HIDE DEF job
    <3>2. rec'[b] = job /\ run'[b].pc = "lock" /\ run'[b].job = job /\ \A c \in Batches \ {b} : run'[c] = run[c]
      BY <3>1
    <3>3. \A c \in Batches \ {b} : rec'[c].status \in {rec[c].status, "INTERRUPTED_NO_REPLAY"}
      <4> SUFFICES ASSUME NEW c \in Batches \ {b}
                   PROVE rec'[c].status \in {rec[c].status, "INTERRUPTED_NO_REPLAY"}
        OBVIOUS
      <4>1. CASE c = active.id
        BY <3>1, <4>1
      <4>2. CASE c # active.id
        BY <3>1, <4>2
      <4>. QED BY <4>1, <4>2
    <3>. QED BY <3>2, <3>3 DEF job
  <2>3. \A r \in Radios : run'[b].job.res[r] = "none"
    BY <2>2 DEF NoRecord
  <2>8. StatusKnown'
    <3> SUFFICES ASSUME NEW c \in Batches PROVE StatusAt(c)'
      OBVIOUS
    <3>1. CASE c = b
      BY <2>1, <2>2, <2>3, <3>1
    <3>2. CASE c # b
      <4>1. StatusAt(c) /\ run'[c] = run[c]
        BY <2>1, <2>2, <2>3, <3>2
      <4>. QED BY <2>1, <2>2, <2>3, <3>2, <4>1
    <3>. QED BY <3>1, <3>2
  <2>9. ResultKnown'
    <3> SUFFICES ASSUME NEW c \in Batches, NEW r \in Radios
                 PROVE run'[c].job.res[r] = "VERIFIED" \/ child'[c][r] \in {"sending", "verify"} => sent'[c][r] = 1
      OBVIOUS
    <3>1. CASE c = b
      BY <2>1, <2>2, <2>3, <3>1
    <3>2. CASE c # b
      BY <2>1, <2>2, <2>3, <3>2
    <3>. QED BY <3>1, <3>2
  <2>. QED BY <2>8, <2>9
<1>2. ASSUME NEW p \in Procs, NEW o \in Occurrences, SkipOccurrence(p, o) PROVE Truth'
  BY <1>2 DEF SkipOccurrence
<1>3. ASSUME NEW b \in Batches, LockRadio(b) PROVE Truth'
  <2>0. PICK q \in run[b].left : LocksOne(b, q)
    BY <1>3, LockRadioOne
  <2>1. run[b].pc = "lock" /\ UNCHANGED <<rec, child, sent>>
    BY <2>0 DEF LocksOne
  <2>2. /\ run'[b].pc \in {"lock", "backup"} /\ run'[b].job = run[b].job /\ run'[b].ids = run[b].ids
        /\ \A c \in Batches \ {b} : run'[c] = run[c]
    BY <2>0 DEF LocksOne
  <2>8. StatusKnown'
    <3> SUFFICES ASSUME NEW c \in Batches PROVE StatusAt(c)'
      OBVIOUS
    <3>1. CASE c = b
      BY <2>1, <2>2, <3>1
    <3>2. CASE c # b
      <4>1. StatusAt(c) /\ run'[c] = run[c]
        BY <2>1, <2>2, <3>2
      <4>. QED BY <2>1, <2>2, <3>2, <4>1
    <3>. QED BY <3>1, <3>2
  <2>9. ResultKnown'
    <3> SUFFICES ASSUME NEW c \in Batches, NEW r \in Radios
                 PROVE run'[c].job.res[r] = "VERIFIED" \/ child'[c][r] \in {"sending", "verify"} => sent'[c][r] = 1
      OBVIOUS
    <3>1. CASE c = b
      BY <2>1, <2>2, <3>1
    <3>2. CASE c # b
      BY <2>1, <2>2, <3>2
    <3>. QED BY <3>1, <3>2
  <2>. QED BY <2>8, <2>9
<1>4. ASSUME NEW b \in Batches, BackUp(b) PROVE Truth'
  <2>0. PICK r \in run[b].left : BacksUpOne(b, r)
    BY <1>4, BackUpOne
  <2> DEFINE job == Noted(b, r, "BACKED_UP")
  <2>1. run[b].pc = "backup" /\ UNCHANGED <<child, sent>> /\ rec' = [rec EXCEPT ![b] = job]
    BY <2>0 DEF BacksUpOne
  <2>2. /\ run'[b].pc \in {"recheck", "backup"} /\ run'[b].job = job /\ run'[b].ids = run[b].ids
        /\ \A c \in Batches \ {b} : run'[c] = run[c]
    BY <2>0 DEF BacksUpOne
  <2>3. job.status = run[b].job.status /\ \A t \in Radios : job.res[t] \in {"BACKED_UP", run[b].job.res[t]}
    BY DEF Noted, Record
  <2>. HIDE DEF job
  <2>8. StatusKnown'
    <3> SUFFICES ASSUME NEW c \in Batches PROVE StatusAt(c)'
      OBVIOUS
    <3>1. CASE c = b
      BY <2>1, <2>2, <2>3, <3>1
    <3>2. CASE c # b
      <4>1. StatusAt(c) /\ run'[c] = run[c]
        BY <2>1, <2>2, <2>3, <3>2
      <4>. QED BY <2>1, <2>2, <2>3, <3>2, <4>1
    <3>. QED BY <3>1, <3>2
  <2>9. ResultKnown'
    <3> SUFFICES ASSUME NEW c \in Batches, NEW t \in Radios
                 PROVE run'[c].job.res[t] = "VERIFIED" \/ child'[c][t] \in {"sending", "verify"} => sent'[c][t] = 1
      OBVIOUS
    <3>1. CASE c = b
      <4>1. run'[c].job.res[t] \in {"BACKED_UP", run[c].job.res[t]}
        BY <2>2, <2>3, <3>1
      <4>. QED BY <2>1, <3>1, <4>1
    <3>2. CASE c # b
      BY <2>1, <2>2, <2>3, <3>2
    <3>. QED BY <3>1, <3>2
  <2>. QED BY <2>8, <2>9
<1>5. ASSUME NEW b \in Batches, Arm(b) PROVE Truth'
  BY <1>5 DEF Arm, At, Persist, Restated
<1>6. ASSUME NEW b \in Batches, Fail(b) PROVE Truth'
  <2>1. /\ run[b].pc \in {"lock", "backup", "recheck", "gather"}
        /\ run' = [run EXCEPT ![b] = Placed(b, "finally", {}, Restated(b, FailureStatus(run[b].job.status)))]
        /\ child' = [child EXCEPT ![b] = Cancelled(b)] /\ UNCHANGED <<rec, sent>>
    BY <1>6 DEF Fail
  <2>2. CASE run[b].pc = "gather"
    BY <2>1, <2>2 DEF Restated, FailureStatus, Cancelled
  <2>3. CASE run[b].pc # "gather"
    BY <2>1, <2>3 DEF Restated, FailureStatus, Cancelled
  <2>. QED BY <2>2, <2>3
<1>7. ASSUME NEW b \in Batches, ArmFails(b) PROVE Truth'
  BY <1>7 DEF ArmFails, At, Restated, FailureStatus
<1>8. ASSUME NEW b \in Batches, NEW r \in Radios, Attempt(b, r) PROVE Truth'
  <2> DEFINE job == Noted(b, r, "COMMAND_ATTEMPTED")
  <2>1. /\ child[b][r] = "waiting"
        /\ run' = [run EXCEPT ![b] = Placed(b, run[b].pc, run[b].left, job)]
        /\ rec' = [rec EXCEPT ![b] = job]
        /\ child' = [child EXCEPT ![b][r] = "attempted"]
        /\ UNCHANGED sent
    BY <1>8 DEF Attempt, ChildAt, SetJob, SetChild, Persist
  <2>2. job.status = run[b].job.status /\ \A t \in Radios : job.res[t] = IF t = r THEN "COMMAND_ATTEMPTED" ELSE run[b].job.res[t]
    BY DEF Noted, Record
  <2>. HIDE DEF job
  <2>8. StatusKnown'
    BY <2>1, <2>2
  <2>9. ResultKnown'
    BY <2>1, <2>2
  <2>. QED BY <2>8, <2>9
<1>9. ASSUME NEW b \in Batches, NEW r \in Radios, Send(b, r) PROVE Truth'
  <2>1. /\ child[b][r] = "attempted" /\ child' = [child EXCEPT ![b][r] = "sending"]
        /\ sent' = [sent EXCEPT ![b][r] = @ + 1] /\ UNCHANGED <<rec, run>>
    BY <1>9 DEF Send, ChildAt, SetChild
  <2>2. sent[b][r] = 0 /\ sent'[b][r] = 1
    BY <2>1
  <2>3. \A c \in Batches, t \in Radios : <<c, t>> # <<b, r>> =>
          sent'[c][t] = sent[c][t] /\ child'[c][t] = child[c][t]
    BY <2>1
  <2>4. run[b].job.status # "BLOCKED_NO_REBOOT" /\ rec[b].status # "BLOCKED_NO_REBOOT"
    BY <2>1
  <2>5. StatusKnown'
    <3> SUFFICES ASSUME NEW c \in Batches PROVE StatusAt(c)'
      OBVIOUS
    <3>0. run[c].ids \in SUBSET Radios
      OBVIOUS
    <3>1. CASE c = b
      BY <2>1, <2>2, <2>3, <2>4, <3>0, <3>1
    <3>2. CASE c # b
      BY <2>1, <2>3, <3>0, <3>2
    <3>. QED BY <3>1, <3>2
  <2>6. ResultKnown'
    BY <2>1, <2>2, <2>3
  <2>. QED BY <2>5, <2>6
<1>10. ASSUME NEW b \in Batches, NEW r \in Radios, SendReturns(b, r) PROVE Truth'
  <2> DEFINE job == Noted(b, r, "WAITING_FOR_RESTART")
  <2>1. /\ child[b][r] = "sending"
        /\ run' = [run EXCEPT ![b] = Placed(b, run[b].pc, run[b].left, job)]
        /\ rec' = [rec EXCEPT ![b] = job]
        /\ child' = [child EXCEPT ![b][r] = "verify"]
        /\ UNCHANGED sent
    BY <1>10 DEF SendReturns, ChildAt, SetJob, SetChild, Persist
  <2>2. job.status = run[b].job.status /\ \A t \in Radios : job.res[t] = IF t = r THEN "WAITING_FOR_RESTART" ELSE run[b].job.res[t]
    BY DEF Noted, Record
  <2>. HIDE DEF job
  <2>8. StatusKnown'
    BY <2>1, <2>2
  <2>9. ResultKnown'
    BY <2>1, <2>2
  <2>. QED BY <2>8, <2>9
<1>11. ASSUME NEW b \in Batches, NEW r \in Radios, Unconfirmed(b, r) PROVE Truth'
  <2> DEFINE job == Noted(b, r, "COMMAND_UNCONFIRMED_NO_RETRY")
  <2>1. /\ child[b][r] \in {"waiting", "attempted", "sending"}
        /\ run' = [run EXCEPT ![b] = Placed(b, run[b].pc, run[b].left, job)]
        /\ rec' = [rec EXCEPT ![b] = job]
        /\ child' = [child EXCEPT ![b][r] = "done"]
        /\ UNCHANGED sent
    BY <1>11 DEF Unconfirmed, ChildAt, SetJob, SetChild, Persist, AfterUnconfirmed
  <2>2. job.status = run[b].job.status /\ \A t \in Radios : job.res[t] = IF t = r THEN "COMMAND_UNCONFIRMED_NO_RETRY" ELSE run[b].job.res[t]
    BY DEF Noted, Record
  <2>. HIDE DEF job
  <2>8. StatusKnown'
    BY <2>1, <2>2
  <2>9. ResultKnown'
    BY <2>1, <2>2
  <2>. QED BY <2>8, <2>9
<1>12. ASSUME NEW b \in Batches, NEW r \in Radios, Verify(b, r) PROVE Truth'
  <2>0. PICK result \in {"VERIFIED", "VERIFICATION_FAILED"} : VerifiedAs(b, r, result)
    BY <1>12 DEF Verify, VerifiedAs
  <2> DEFINE job == Noted(b, r, result)
  <2>1. /\ child[b][r] = "verify"
        /\ run' = [run EXCEPT ![b] = Placed(b, run[b].pc, run[b].left, job)]
        /\ rec' = [rec EXCEPT ![b] = job]
        /\ child' = [child EXCEPT ![b][r] = "done"]
        /\ UNCHANGED sent
    BY <2>0 DEF VerifiedAs, ChildAt, SetJob, SetChild, Persist
  <2>2. job.status = run[b].job.status /\ \A t \in Radios : job.res[t] = IF t = r THEN result ELSE run[b].job.res[t]
    BY DEF Noted, Record
  <2>. HIDE DEF job
  <2>8. StatusKnown'
    BY <2>1, <2>2
  <2>9. ResultKnown'
    BY <2>1, <2>2
  <2>. QED BY <2>8, <2>9
<1>13. ASSUME NEW b \in Batches, NEW r \in Radios, ChildSaveFails(b, r) PROVE Truth'
  <2>1. /\ child[b][r] \in {"waiting", "attempted", "sending", "verify"}
        /\ child' = [child EXCEPT ![b][r] = "done"] /\ UNCHANGED <<rec, sent>>
    BY <1>13 DEF ChildSaveFails, SetChild
  <2>2. CASE run[b].pc # "gather"
    <3>1. UNCHANGED run
      BY <1>13, <2>2 DEF ChildSaveFails
    <3>. QED BY <2>1, <3>1
  <2>3. CASE run[b].pc = "gather"
    <3>1. run' = [run EXCEPT ![b] = Placed(b, "finally", {}, Restated(b, FailureStatus(run[b].job.status)))]
      BY <1>13, <2>3 DEF ChildSaveFails
    <3>. QED BY <2>1, <2>3, <3>1 DEF Restated, FailureStatus
  <2>. QED BY <2>2, <2>3
<1>14. ASSUME NEW b \in Batches, Gathered(b) PROVE Truth'
  <2>1. /\ run[b].pc = "gather" /\ UNCHANGED <<rec, child, sent>>
        /\ run'[b].pc = "finally" /\ run'[b].job.res = run[b].job.res /\ run'[b].ids = run[b].ids
        /\ run'[b].job.status = (IF AllVerified(b) THEN "VERIFIED" ELSE "PARTIAL_OR_UNCONFIRMED")
        /\ \A c \in Batches \ {b} : run'[c] = run[c]
    BY <1>14 DEF Gathered, At, Restated
  <2>2. AllVerified(b) => \A r \in run[b].ids : sent[b][r] = 1
    <3>1. run[b].ids \in SUBSET Radios
      OBVIOUS
    <3>. QED BY <3>1 DEF AllVerified
  <2>8. StatusKnown'
    <3>1. ASSUME NEW c \in Batches PROVE StatusAt(c)'
      <4>1. CASE c = b
        BY <2>1, <2>2, <4>1
      <4>2. CASE c # b
        BY <2>1, <4>2
      <4>. QED BY <4>1, <4>2
    <3>. QED BY <3>1
  <2>9. ResultKnown'
    <3>1. \A c \in Batches : run'[c].job.res = run[c].job.res
      BY <2>1
    <3>. QED BY <2>1, <3>1
  <2>. QED BY <2>8, <2>9
<1>15. ASSUME NEW b \in Batches, Conclude(b) PROVE Truth'
  <2> DEFINE job == IF Orphaned(b) THEN run[b].job ELSE NoRecord
  <2>1. /\ run[b].pc = "finally" /\ UNCHANGED <<child, sent>>
        /\ run' = [run EXCEPT ![b] = Placed(b, "ended", {}, job)]
        /\ rec' = [rec EXCEPT ![b] = run[b].job]
    BY <1>15 DEF Conclude, At, Ended, Persist
  <2>2. NoRecord.status = "none" /\ \A r \in Radios : NoRecord.res[r] = "none"
    BY DEF NoRecord
  <2>3. job = run[b].job \/ job = NoRecord
    OBVIOUS
  <2>. HIDE DEF job
  <2>8. StatusKnown'
    BY <2>1, <2>2, <2>3
  <2>9. ResultKnown'
    BY <2>1, <2>2, <2>3
  <2>. QED BY <2>8, <2>9
<1>16. ASSUME NEW b \in Batches, ConcludeFails(b) PROVE Truth'
  <2> DEFINE job == IF Orphaned(b) THEN run[b].job ELSE NoRecord
  <2>1. /\ run[b].pc = "finally" /\ UNCHANGED <<child, sent>>
        /\ run' = [run EXCEPT ![b] = Placed(b, "ended", {}, job)]
        /\ rec' = [rec EXCEPT ![b] = run[b].job] \/ UNCHANGED rec
    BY <1>16 DEF ConcludeFails, At, Ended, Persist
  <2>2. NoRecord.status = "none" /\ \A r \in Radios : NoRecord.res[r] = "none"
    BY DEF NoRecord
  <2>3. job = run[b].job \/ job = NoRecord
    OBVIOUS
  <2>. HIDE DEF job
  <2>8. StatusKnown'
    BY <2>1, <2>2, <2>3
  <2>9. ResultKnown'
    BY <2>1, <2>2, <2>3
  <2>. QED BY <2>8, <2>9
<1>17. ASSUME NEW p \in Procs, Shutdown(p) PROVE Truth'
  <2>1. UNCHANGED <<rec, sent>>
    BY <1>17 DEF Shutdown
  <2>2. \A b \in Batches :
          \/ run'[b] = run[b] /\ child'[b] = child[b]
          \/ /\ run[b].pc \in {"lock", "backup", "recheck", "gather"} /\ run'[b].pc = "finally"
             /\ run'[b].job.status = "INTERRUPTED_NO_REPLAY" /\ run'[b].job.res = run[b].job.res
             /\ run'[b].ids = run[b].ids
             /\ child'[b] \in {child[b], Cancelled(b)}
    BY <1>17 DEF Shutdown, Restated
  <2>3. \A b \in Batches, r \in Radios : Cancelled(b)[r] \in {"none", "done"} /\ (child[b][r] = "none" => Cancelled(b)[r] = "none")
    BY DEF Cancelled
  <2>8. StatusKnown'
    <3> SUFFICES ASSUME NEW c \in Batches PROVE StatusAt(c)'
      OBVIOUS
    <3>1. CASE run'[c] = run[c] /\ child'[c] = child[c]
      BY <2>1, <2>2, <2>3, <3>1
    <3>2. CASE ~(run'[c] = run[c] /\ child'[c] = child[c])
      BY <2>1, <2>2, <2>3, <3>2
    <3>. QED BY <3>1, <3>2
  <2>9. ResultKnown'
    <3> SUFFICES ASSUME NEW c \in Batches, NEW r \in Radios
                 PROVE run'[c].job.res[r] = "VERIFIED" \/ child'[c][r] \in {"sending", "verify"} => sent'[c][r] = 1
      OBVIOUS
    <3>1. CASE run'[c] = run[c] /\ child'[c] = child[c]
      BY <2>1, <2>2, <2>3, <3>1
    <3>2. CASE ~(run'[c] = run[c] /\ child'[c] = child[c])
      <4>1. run'[c].job.res = run[c].job.res /\ child'[c] \in {child[c], Cancelled(c)}
        BY <2>2, <3>2
      <4>2. child'[c][r] = child[c][r] \/ child'[c][r] \in {"none", "done"}
        BY <4>1, <2>3
      <4>. QED BY <2>1, <4>1, <4>2
    <3>. QED BY <3>1, <3>2
  <2>. QED BY <2>8, <2>9
<1>18. ASSUME NEW p \in Procs, Crash(p) PROVE Truth'
  <2>1. UNCHANGED <<rec, sent>>
    BY <1>18 DEF Crash
  <2>2. \A b \in Batches :
          \/ run'[b] = run[b] /\ child'[b] = child[b]
          \/ /\ run'[b].pc = "ended" /\ run'[b].job = NoRecord /\ run'[b].ids = run[b].ids
             /\ child'[b] = Cancelled(b)
    BY <1>18 DEF Crash
  <2>3. \A b \in Batches, r \in Radios : Cancelled(b)[r] \in {"none", "done"} /\ (child[b][r] = "none" => Cancelled(b)[r] = "none")
    BY DEF Cancelled
  <2>4. NoRecord.status = "none" /\ \A r \in Radios : NoRecord.res[r] = "none"
    BY DEF NoRecord
  <2>8. StatusKnown'
    <3> SUFFICES ASSUME NEW c \in Batches PROVE StatusAt(c)'
      OBVIOUS
    <3>1. CASE run'[c] = run[c] /\ child'[c] = child[c]
      BY <2>1, <2>2, <2>3, <2>4, <3>1
    <3>2. CASE ~(run'[c] = run[c] /\ child'[c] = child[c])
      BY <2>1, <2>2, <2>3, <2>4, <3>2
    <3>. QED BY <3>1, <3>2
  <2>9. ResultKnown'
    <3> SUFFICES ASSUME NEW c \in Batches, NEW r \in Radios
                 PROVE run'[c].job.res[r] = "VERIFIED" \/ child'[c][r] \in {"sending", "verify"} => sent'[c][r] = 1
      OBVIOUS
    <3>1. CASE run'[c] = run[c] /\ child'[c] = child[c]
      BY <2>1, <2>2, <2>3, <2>4, <3>1
    <3>2. CASE ~(run'[c] = run[c] /\ child'[c] = child[c])
      BY <2>1, <2>2, <2>3, <2>4, <3>2
    <3>. QED BY <3>1, <3>2
  <2>. QED BY <2>8, <2>9
<1>19. CASE BatchExpires
  BY <1>19 DEF BatchExpires
<1>20. CASE LeaseExpires
  BY <1>20 DEF LeaseExpires
<1>21. CASE SetupTakesLease
  BY <1>21 DEF SetupTakesLease
<1>22. CASE SetupReleasesLease
  BY <1>22 DEF SetupReleasesLease
<1>23. CASE UNCHANGED rvars
  BY <1>23 DEF rvars
<1>. QED
  BY <1>1, <1>2, <1>3, <1>4, <1>5, <1>6, <1>7, <1>8, <1>9, <1>10, <1>11, <1>12,
     <1>13, <1>14, <1>15, <1>16, <1>17, <1>18, <1>19, <1>20, <1>21, <1>22, <1>23
  DEF Next, BatchStep

\* RebootTypeOK: the rows, the records and the children keep their types, and a
\* batch that backs up, checks or commands its radios owns all of them, whatever
\* crashes, expires or fails to be saved.
THEOREM RebootTypeCorrect == Spec => []RebootTypeOK
<1>1. RebootInv => RebootTypeOK
  BY DEF RebootInv
<1>. QED
  BY InitInv, NextInv, <1>1, PTL DEF Spec

\* OneCommand: a batch commands a radio at most once, and two batches of one
\* scheduled occurrence never both do.
THEOREM OneCommandHolds == Spec => []OneCommand
<1>1. Init => ChildrenOnce /\ ClaimKept
  BY DEF Init, ChildrenOnce, ClaimKept
<1>2. RebootInv /\ ChildrenOnce /\ ClaimKept => OneCommand
  BY DEF RebootInv, RebootTypeOK, ChildrenOnce, ClaimKept, OneCommand
<1>. QED
  BY InitInv, NextInv, NextOnce, NextClaim, <1>1, <1>2, PTL DEF Spec

\* LeaseTogether: the active row is never valid without the setup lease, so the
\* check of the row in one() also excludes every setup job.
THEOREM LeaseTogetherHolds == Spec => []LeaseTogether
<1>1. Init => LeaseTogether
  BY DEF Init, LeaseTogether, NoActive
<1>. QED
  BY InitInv, NextInv, NextLease, <1>1, PTL DEF Spec

\* A command leaves in a Send only.
LEMMA OnlySendSends ==
  ASSUME [Next]_rvars, sent' # sent
  PROVE  \E c \in Batches, t \in Radios : Send(c, t)
<1>1. ASSUME NEW b \in Batches, BatchStep(b) PROVE \E r \in Radios : Send(b, r)
  BY <1>1 DEF BatchStep, LockRadio, BackUp, Arm, Fail, Gathered, Conclude, Attempt, SendReturns,
     Unconfirmed, Verify
<1>2. \A p \in Procs, b \in Batches, o \in Occurrences \cup {Manual}, ids \in SUBSET Radios \ {{}} :
        ~Start(p, b, o, ids)
  BY DEF Start
<1>3. \A p \in Procs, o \in Occurrences : ~SkipOccurrence(p, o)
  BY DEF SkipOccurrence
<1>4. \A b \in Batches : ~ArmFails(b) /\ ~ConcludeFails(b) /\ \A r \in Radios : ~ChildSaveFails(b, r)
  BY DEF ArmFails, ConcludeFails, ChildSaveFails
<1>5. \A p \in Procs : ~Shutdown(p) /\ ~Crash(p)
  BY DEF Shutdown, Crash
<1>6. ~BatchExpires /\ ~LeaseExpires /\ ~SetupTakesLease /\ ~SetupReleasesLease
  BY DEF BatchExpires, LeaseExpires, SetupTakesLease, SetupReleasesLease
<1>7. Next
  BY DEF rvars
<1> QED BY <1>1, <1>2, <1>3, <1>4, <1>5, <1>6, <1>7 DEF Next

\* SupersededQuiet: a command for an owned radio only leaves a batch that is the
\* active one, or when the active batch was not started for that radio.
THEOREM SupersededQuietHolds == Spec => SupersededQuiet
<1>1. Init => ChildrenOnce /\ AttemptsActive
  BY DEF Init, ChildrenOnce, AttemptsActive
<1>2. RebootInv /\ AttemptsActive /\ [Next]_rvars =>
        [\A b \in Batches, r \in Radios :
           sent'[b][r] # sent[b][r] /\ lock[r] = b =>
             active.id \in {b, NoHolder} \/ r \notin run[active.id].ids]_rvars
  <2> SUFFICES ASSUME RebootInv, AttemptsActive, [Next]_rvars,
                      NEW b \in Batches, NEW r \in Radios, sent'[b][r] # sent[b][r], lock[r] = b
               PROVE Unwanted(b, r)
    BY DEF Unwanted
  <2>1. sent' # sent
    OBVIOUS
  <2>2. PICK c \in Batches, t \in Radios : Send(c, t)
    BY <2>1, OnlySendSends
  <2>3. b = c /\ r = t
    BY <2>2 DEF Send, RebootInv, RebootTypeOK
  <2>. QED
    BY <2>2, <2>3 DEF Send, ChildAt, AttemptsActive
<1>. QED
  BY InitInv, NextInv, NextOnce, NextAttempts, <1>1, <1>2, PTL DEF Spec, SupersededQuiet

\* StatusTruthful: a batch recorded as blocked commanded nothing, and one recorded
\* as verified commanded every radio, whoever saved the record last.
THEOREM StatusTruthfulHolds == Spec => []StatusTruthful
<1>1. Init => ChildrenOnce /\ StatusKnown /\ ResultKnown
  BY DEF Init, ChildrenOnce, StatusKnown, StatusAt, ResultKnown, NoRecord
<1>2. ChildrenOnce /\ StatusKnown => StatusTruthful
  BY DEF ChildrenOnce, StatusKnown, StatusAt, StatusTruthful
<1>. QED
  BY InitInv, NextInv, NextOnce, NextStatus, <1>1, <1>2, PTL DEF Spec
=============================================================================
