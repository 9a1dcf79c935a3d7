---------------------------- MODULE UpdateProofs ----------------------------
(***************************************************************************)
(* Theorems about UpdateJournal, for any number of requests, versions and  *)
(* jobs, and that UpdateTransaction implements JournalSpec; and, in a      *)
(* section of its own, about AirPlayPilot, the other component with a      *)
(* journal in a file.                                                      *)
(***************************************************************************)
EXTENDS UpdateTransaction, AirPlayPilot, TLAPS

\* The inductive invariant of the journal: save() only ever replaces a valid
\* file by a valid one.
JournalInv == JournalTypeOK /\ Valid(jobs)

\* A move recorded in a job leaves a job.
LEMMA MovedType ==
  ASSUME NEW j \in Job, NEW s \in STATES
  PROVE  Moved(j, s) \in Job
<1> DEFINE ev == Append(j.events, s)
           bk == j.backup \/ s = "BACKED_UP"
           ar == j.artifact \/ s = "STAGED"
<1>1. ev \in Seq(STATES)
  BY DEF Job
<1>2. bk \in BOOLEAN /\ ar \in BOOLEAN
  OBVIOUS
<1>3. Moved(j, s) = [j EXCEPT !.state = s, !.events = ev, !.backup = bk, !.artifact = ar]
  BY DEF Moved
<1> HIDE DEF ev, bk, ar
<1>4. QED
  BY <1>1, <1>2, <1>3 DEF Job

\* NEXT leads to states only, and never out of a final state.
LEMMA NextStates ==
  ASSUME NEW s \in STATES
  PROVE  NEXT(s) \subseteq STATES /\ (s \in TERMINAL => NEXT(s) = {})
BY DEF NEXT, STATES, TERMINAL, BEFORE_CUTOVER, ForwardOf

\* One step of the journal keeps it a list of valid jobs.
LEMMA JournalStep ==
  ASSUME JournalInv, [JournalNext]_jobs
  PROVE  JournalInv'
<1> USE DEF JournalInv
<1>1. ASSUME NEW id \in Ids, NEW t \in Versions, NEW c \in Versions, Begin(id, t, c)
      PROVE  JournalInv'
  <2>1. NewJob(id, t, c) \in Job
    BY DEF NewJob, Job, STATES, ForwardOf
  <2>2. QED
    BY <1>1, <2>1 DEF Begin, JournalTypeOK, Valid
<1>2. ASSUME NEW k \in DOMAIN jobs, NEW s \in STATES, Transition(k, s)
      PROVE  JournalInv'
  <2>1. Moved(jobs[k], s) \in Job
    BY MovedType DEF JournalTypeOK
  <2>2. Written(k, s) \in Seq(Job)
    BY <2>1 DEF Written, JournalTypeOK
  <2>3. QED
    BY <1>2, <2>2 DEF Transition, Accepts, JournalTypeOK, Valid
<1>3. CASE Recover
  <2>1. PICK k \in DOMAIN jobs : Transition(k, RecoveryState(jobs[k].state))
    BY <1>3 DEF Recover
  <2>2. RecoveryState(jobs[k].state) \in STATES
    BY DEF RecoveryState, STATES, TERMINAL
  <2>3. QED
    BY <1>2, <2>1, <2>2
<1>4. CASE UNCHANGED jobs
  BY <1>4 DEF JournalTypeOK, Valid
<1>5. QED
  BY <1>1, <1>2, <1>3, <1>4 DEF JournalNext

\* Every state.json the helper can leave behind is one that read() accepts.
THEOREM JournalInvariant == JournalSpec => []JournalInv
<1>1. JournalInit => JournalInv
  BY JournalAssumption DEF JournalInit, JournalInv, JournalTypeOK, Valid
<1>2. JournalInv /\ [JournalNext]_jobs => JournalInv'
  BY JournalStep
<1>3. QED
  BY <1>1, <1>2, PTL DEF JournalSpec

\* The shape of a transition: one job of the list gets one more event.
LEMMA TransitionShape ==
  ASSUME JournalInv, NEW k \in DOMAIN jobs, NEW s, Transition(k, s)
  PROVE  /\ Len(jobs') = Len(jobs)
         /\ \A m \in DOMAIN jobs : m # k => jobs'[m] = jobs[m]
         /\ jobs'[k] = Moved(jobs[k], s)
         /\ jobs[k].state \notin TERMINAL
<1>1. jobs \in Seq(Job) /\ jobs[k] \in Job
  BY DEF JournalInv, JournalTypeOK
<1>2. jobs' = [jobs EXCEPT ![k] = Moved(jobs[k], s)] /\ s \in NEXT(jobs[k].state)
  BY DEF Transition, Written, Accepts
<1>3. jobs[k].state \in STATES
  BY <1>1 DEF Job
<1>4. QED
  BY <1>1, <1>2, <1>3, NextStates

\* What a step may do to the history, as an action.
HistoryAction ==
  /\ Len(jobs) <= Len(jobs')
  /\ \A k \in DOMAIN jobs :
       /\ jobs'[k].id = jobs[k].id
       /\ jobs[k].state \in TERMINAL => jobs'[k] = jobs[k]
       /\ \A i \in DOMAIN jobs[k].events :
            i \in DOMAIN jobs'[k].events /\ jobs'[k].events[i] = jobs[k].events[i]

\* A transition rewrites one job and keeps the others.
LEMMA HistoryTransition ==
  ASSUME JournalInv, NEW k \in DOMAIN jobs, NEW s \in STATES, Transition(k, s)
  PROVE  HistoryAction
<1>1. jobs \in Seq(Job) /\ Len(jobs) \in Nat
  BY DEF JournalInv, JournalTypeOK
<1>2. /\ Len(jobs') = Len(jobs)
      /\ \A m \in DOMAIN jobs : m # k => jobs'[m] = jobs[m]
      /\ jobs'[k] = Moved(jobs[k], s)
      /\ jobs[k].state \notin TERMINAL
  BY TransitionShape
<1>3. jobs[k] \in Job
  BY <1>1
<1>4. /\ jobs'[k].id = jobs[k].id
      /\ jobs'[k].events = Append(jobs[k].events, s)
  BY <1>2, <1>3 DEF Moved, Job
<1>5. jobs[k].events \in Seq(STATES)
  BY <1>3 DEF Job
<1>6. \A i \in DOMAIN jobs[k].events :
        i \in DOMAIN jobs'[k].events /\ jobs'[k].events[i] = jobs[k].events[i]
  BY <1>4, <1>5
<1>7. QED
  BY <1>1, <1>2, <1>4, <1>6 DEF HistoryAction

\* "Request IDs are retained": whatever the caller and the recovery do, no job
\* is dropped or rewritten and a settled job never changes.
THEOREM JournalHistoryKept == JournalSpec => HistoryKept
<1>1. JournalInv /\ [JournalNext]_jobs => [HistoryAction]_jobs
  <2> SUFFICES ASSUME JournalInv, JournalNext PROVE HistoryAction
    OBVIOUS
  <2>1. jobs \in Seq(Job)
    BY DEF JournalInv, JournalTypeOK
  <2>2. ASSUME NEW id \in Ids, NEW t \in Versions, NEW c \in Versions, Begin(id, t, c)
        PROVE  HistoryAction
    <3>1. /\ Len(jobs') = Len(jobs) + 1
          /\ \A k \in DOMAIN jobs : jobs'[k] = jobs[k]
      BY <2>1, <2>2 DEF Begin
    <3>2. QED
      BY <2>1, <3>1 DEF HistoryAction
  <2>3. ASSUME NEW k \in DOMAIN jobs, NEW s \in STATES, Transition(k, s)
        PROVE  HistoryAction
    BY <2>3, HistoryTransition
  <2>4. CASE Recover
    <3>1. PICK k \in DOMAIN jobs : Transition(k, RecoveryState(jobs[k].state))
      BY <2>4 DEF Recover
    <3>2. RecoveryState(jobs[k].state) \in STATES
      BY DEF RecoveryState, STATES, TERMINAL
    <3>3. QED
      BY <3>1, <3>2, HistoryTransition
  <2>5. QED
    BY <2>2, <2>3, <2>4 DEF JournalNext
<1>2. QED
  BY <1>1, JournalInvariant, PTL DEF JournalSpec, HistoryKept, HistoryAction

\* begin() after MANUAL_ACTION_REQUIRED: no request and no restart moves a
\* journal that waits for its operator.
THEOREM JournalManualBlocks == JournalSpec => ManualBlocks
<1> DEFINE A == \A k \in DOMAIN jobs :
                  jobs[k].state = "MANUAL_ACTION_REQUIRED" => jobs' = jobs
<1>1. JournalInv /\ [JournalNext]_jobs => [A]_jobs
  <2> SUFFICES ASSUME JournalInv, JournalNext, NEW k \in DOMAIN jobs,
                      jobs[k].state = "MANUAL_ACTION_REQUIRED"
               PROVE  jobs' = jobs
    OBVIOUS
  <2>1. jobs \in Seq(Job) /\ k \in 1 .. Len(jobs) /\ Len(jobs) \in Nat
    BY DEF JournalInv, JournalTypeOK
  <2>2. ASSUME NEW id \in Ids, NEW t \in Versions, NEW c \in Versions, Begin(id, t, c)
        PROVE  FALSE
    BY <2>2 DEF Begin, MayBegin, Open
  <2>3. ASSUME NEW m \in DOMAIN jobs, NEW s, Transition(m, s)
        PROVE  FALSE
    <3>1. jobs[m].state \notin TERMINAL /\ Len(jobs') = Len(jobs)
      BY <2>3, TransitionShape
    <3>2. Open(jobs[m]) /\ Open(jobs[k]) /\ m # k
      BY <3>1 DEF Open, TERMINAL
    <3>3. \A i \in DOMAIN jobs : Open(jobs[i]) => i = Len(jobs)
      BY DEF JournalInv, Valid
    <3>4. QED
      BY <3>2, <3>3
  <2>4. Recover => FALSE
    BY <2>3 DEF Recover
  <2>5. QED
    BY <2>2, <2>3, <2>4 DEF JournalNext
<1>2. QED
  BY <1>1, JournalInvariant, PTL DEF JournalSpec, ManualBlocks

\* NEXT is a path up to the start of the candidate: each of these states has
\* one predecessor only.
LEMMA OnlyPredecessor ==
  ASSUME NEW s \in STATES
  PROVE  /\ "START_REQUESTED" \in NEXT(s) => s = "BACKED_UP"
         /\ "BACKED_UP" \in NEXT(s) => s = "BACKUP_STARTED"
         /\ "BACKUP_STARTED" \in NEXT(s) => s = "STOPPED"
         /\ "STOPPED" \in NEXT(s) => s = "STOP_REQUESTED"
         /\ "STOP_REQUESTED" \in NEXT(s) => s = "STAGED"
BY DEF NEXT, STATES, TERMINAL, BEFORE_CUTOVER, ForwardOf

\* An event of a valid job other than the first follows from the one before.
LEMMA EventBefore ==
  ASSUME NEW j \in Job, ValidJob(j), NEW i \in DOMAIN j.events,
         j.events[i] # "REQUESTED"
  PROVE  /\ i - 1 \in DOMAIN j.events
         /\ j.events[i - 1] \in STATES
         /\ j.events[i] \in NEXT(j.events[i - 1])
<1>1. j.events \in Seq(STATES)
  BY DEF Job
<1>2. i \in 2 .. Len(j.events)
  BY <1>1 DEF ValidJob
<1>3. QED
  BY <1>1, <1>2 DEF ValidJob

\* Whoever drives the journal, the start of a candidate is recorded only for a
\* job whose artifact is staged and whose original is backed up.
THEOREM JournalBackupBeforeStart == JournalSpec => []BackupBeforeStart
<1>1. JournalInv => BackupBeforeStart
  <2> SUFFICES ASSUME JournalInv, NEW k \in DOMAIN jobs,
                      Recorded(jobs[k], "START_REQUESTED")
               PROVE  jobs[k].backup /\ jobs[k].artifact
    BY DEF BackupBeforeStart
  <2> DEFINE j == jobs[k]
  <2>1. j \in Job /\ ValidJob(j)
    BY DEF JournalInv, JournalTypeOK, Valid
  <2> HIDE DEF j
  <2>2. PICK i \in DOMAIN j.events : j.events[i] = "START_REQUESTED"
    BY DEF Recorded, j
  <2>3. i - 1 \in DOMAIN j.events /\ j.events[i - 1] = "BACKED_UP"
    BY <2>1, <2>2, EventBefore, OnlyPredecessor
  <2>4. \E a \in DOMAIN j.events : j.events[a] = "BACKUP_STARTED"
    BY <2>1, <2>3, EventBefore, OnlyPredecessor
  <2>5. \E a \in DOMAIN j.events : j.events[a] = "STOPPED"
    BY <2>1, <2>4, EventBefore, OnlyPredecessor
  <2>6. \E a \in DOMAIN j.events : j.events[a] = "STOP_REQUESTED"
    BY <2>1, <2>5, EventBefore, OnlyPredecessor
  <2>7. \E a \in DOMAIN j.events : j.events[a] = "STAGED"
    BY <2>1, <2>6, EventBefore, OnlyPredecessor
  <2>8. Recorded(j, "BACKED_UP") /\ Recorded(j, "STAGED")
    BY <2>3, <2>7 DEF Recorded
  <2>9. j.backup /\ j.artifact
    BY <2>1, <2>8 DEF ValidJob
  <2>10. QED
    BY <2>9 DEF j
<1>2. QED
  BY <1>1, JournalInvariant, PTL

-----------------------------------------------------------------------------
(***************************************************************************)
(* UpdateTransaction implements the journal                                *)
(***************************************************************************)

\* The runner works for a job that is in the journal.
Reserved == jobs \in Seq(Job) /\ (pc \notin {"idle", "down"} => Len(jobs) > 0)

\* Every step of the update is a step of the journal or leaves it alone.
LEMMA ReservedStep ==
  ASSUME Reserved, [Next]_tvars
  PROVE  Reserved' /\ [JournalNext]_jobs
<1> USE DEF Reserved
<1>1. ASSUME NEW id \in Ids, NEW t \in Versions, NEW c \in Versions, Begin(id, t, c)
      PROVE  jobs' \in Seq(Job) /\ Len(jobs') > 0 /\ JournalNext
  <2>1. NewJob(id, t, c) \in Job
    BY DEF NewJob, Job, STATES, ForwardOf
  <2>2. QED
    BY <1>1, <2>1 DEF Begin, JournalNext
<1>2. ASSUME NEW k \in DOMAIN jobs, NEW s \in STATES, Transition(k, s)
      PROVE  jobs' \in Seq(Job) /\ Len(jobs') = Len(jobs) /\ JournalNext
  <2>1. Moved(jobs[k], s) \in Job
    BY MovedType
  <2>2. jobs' = [jobs EXCEPT ![k] = Moved(jobs[k], s)]
    BY <1>2 DEF Transition, Written
  <2>3. jobs' \in Seq(Job) /\ Len(jobs') = Len(jobs)
    BY <2>1, <2>2
  <2>4. JournalNext
    BY <1>2 DEF JournalNext
  <2>5. QED
    BY <2>3, <2>4
<1>3. ASSUME Recover
      PROVE  jobs' \in Seq(Job) /\ Len(jobs') = Len(jobs) /\ JournalNext
  <2>1. PICK k \in DOMAIN jobs : Transition(k, RecoveryState(jobs[k].state))
    BY <1>3 DEF Recover
  <2>2. RecoveryState(jobs[k].state) \in STATES
    BY DEF RecoveryState, STATES, TERMINAL
  <2>3. QED
    BY <1>2, <1>3, <2>1, <2>2 DEF JournalNext
<1>4. ASSUME NEW id \in Ids, NEW t \in Versions, NEW c \in Versions,
             Submit(id, t, c) \/ SubmitFails(id, t, c)
      PROVE  Reserved' /\ [JournalNext]_jobs
  BY <1>1, <1>4 DEF Submit, SubmitFails
<1>5. ASSUME Record \/ RecordFails
      PROVE  Reserved' /\ [JournalNext]_jobs
  <2>1. This \in DOMAIN jobs /\ pc \in STATES
    BY <1>5 DEF Record, RecordFails, This, STATES, TERMINAL, ForwardOf
  <2>2. QED
    BY <1>2, <1>5, <2>1 DEF Record, RecordFails
<1>6. ASSUME Restart \/ RestartFails
      PROVE  Reserved' /\ [JournalNext]_jobs
  BY <1>3, <1>6 DEF Restart, RestartFails
<1>7. ASSUME UNCHANGED jobs, pc \notin {"idle", "down"} \/ pc' \in {pc, "idle", "down"}
      PROVE  Reserved' /\ [JournalNext]_jobs
  BY <1>7
<1>8. CASE Crash \/ ChangeCredentials \/ UNCHANGED tvars
  BY <1>7, <1>8 DEF Crash, ChangeCredentials, tvars
<1>9. ASSUME RunnerStep, ~Record
      PROVE  UNCHANGED jobs /\ pc \notin {"idle", "down"}
  BY <1>9 DEF RunnerStep, Handle, Rejected, ForwardSteps, RestoreSteps, Check1, Prepare,
     Check2, StopOriginal, BackupOriginal, ValidateCandidate, PrepareCutover,
     ExchangeDone, ExchangeEntry, CreateCandidate, StartCandidate, HealthCandidate,
     EnrollCandidate, RemoveOriginal, StopCandidate, CheckRollback, ReverseDone,
     ReverseEntry, RecreateOriginal, EnrollOriginal, StartOriginal, HealthOriginal,
     RemoveCandidate
<1>10. QED
  BY <1>4, <1>5, <1>6, <1>7, <1>8, <1>9 DEF Next

\* transaction.py and daemon.py use the journal as its contract says: every step
\* of the runner, of a failing write and of a restart is a step of JournalSpec.
THEOREM TransactionImplementsJournal == Spec => JournalSpec
<1>1. Init => JournalInit /\ Reserved
  BY DEF Init, JournalInit, Reserved
<1>2. Reserved /\ [Next]_tvars => Reserved' /\ [JournalNext]_jobs
  BY ReservedStep
<1>3. QED
  BY <1>1, <1>2, PTL DEF Spec, JournalSpec

\* The consequence for the host: no failure path, crash or recovery of the
\* helper starts a candidate without a recorded backup.
THEOREM TransactionBackupBeforeStart == Spec => []BackupBeforeStart
BY TransactionImplementsJournal, JournalBackupBeforeStart, PTL

-----------------------------------------------------------------------------
(***************************************************************************)
(* What the journal says of the host                                       *)
(***************************************************************************)

\* The last word of the journal, of the job that may be active.
Said == jobs[This].state

AllFiles(g) == \A n \in Entries : files[n] = g
RunsOnly(c) == \A b \in Cids : Running(b) => b = c
NoneRuns == \A b \in Cids : ~Running(b)

\* Identity and files of e come from a job before k.
Older(e, k) == e.gen < k /\ (e.cid < k \/ (MaxJobs < e.cid /\ e.cid < MaxJobs + k))

\* The enrolled container runs, alone, over its own generation of the files.
Whole ==
  /\ Inspected(enrolled)
  /\ RunsOnly(enrolled.cid)
  /\ containers[enrolled.cid].gen = enrolled.gen

Unchanged == BEFORE_CUTOVER
Finished == {"COMPLETE", "RESTORED", "FAILED"}

\* The journal is truthful, and what is enrolled cannot be mistaken for what the
\* next job will create.
Truthful ==
  /\ This = 0 => Whole /\ Older(enrolled, 1)
  /\ This > 0 /\ Said \in Unchanged => Whole /\ Older(enrolled, This)
  /\ This > 0 /\ Said \in Finished => Whole /\ Older(enrolled, This + 1)
  /\ This > 0 /\ Said \in {"COMPLETE", "RESTORED"} => enrolled.ver = PromisedVersion

\* The candidate's container runs the candidate's image only.
CandidateImage == This > 0 /\ Running(This) => containers[This].gen = This

\* The state that is durable when the runner is at pc.
DurableAt ==
  /\ pc \in {"check1", "VALIDATED"} => Said = "REQUESTED"
  /\ pc = "STAGING" => Said = "VALIDATED"
  /\ pc \in {"prepare", "STAGED"} => Said = "STAGING"
  /\ pc \in {"check2", "STOP_REQUESTED"} => Said = "STAGED"
  /\ pc \in {"stop", "STOPPED"} => Said = "STOP_REQUESTED"
  /\ pc = "BACKUP_STARTED" => Said = "STOPPED"
  /\ pc \in {"backup", "BACKED_UP"} => Said = "BACKUP_STARTED"
  /\ pc = "START_REQUESTED" => Said = "BACKED_UP"
  /\ pc \in {"validate", "cutover", "exchange", "create", "start", "STARTED"}
       => Said = "START_REQUESTED"
  /\ pc \in {"health", "enroll", "remove", "health2", "VERIFIED"} => Said = "STARTED"
  /\ pc = "COMPLETE" => Said = "VERIFIED"
  /\ pc = "FAILED" => Said \in Unchanged
  /\ pc \in {"failed", "ROLLING_BACK"} => Said \notin TERMINAL
  /\ pc = "ROLLING_BACK" => Said \notin Unchanged
  /\ pc \in RestoreSteps \cup {"RESTORED", "MANUAL_ACTION_REQUIRED"}
       => Said = "ROLLING_BACK"
  /\ pc # "REQUESTED"

\* Before anything is stopped the plan is the enrollment itself.
PlanFrozen ==
  pc \in {"VALIDATED", "STAGING", "prepare", "STAGED", "check2", "STOP_REQUESTED", "stop"}
    => /\ mem = NoPlan(enrolled)
       /\ enrolled.ver = jobs[This].current
       /\ Whole
       /\ Older(enrolled, This)

\* Once a stop was recorded, whatever failed: the host consists of the original
\* and the candidate of this plan, each runnable over its own generation only.
TwoGenerations ==
  pc \notin {"idle", "down"} /\ Said \notin Unchanged =>
    /\ Older(mem.orig, This)
    /\ mem.orig.ver = jobs[This].current
    /\ mem.live \in {0, This}
    /\ ~mem.cut => mem.live = 0 /\ AllFiles(mem.orig.gen)
    /\ \A n \in Entries : files[n] \in {mem.orig.gen, This}
    /\ \A b \in Cids : Running(b) => b \in {mem.orig.cid, This, mem.restore}
    /\ containers[mem.orig.cid].gen = mem.orig.gen
    /\ mem.live # 0 => containers[This].gen = This
    /\ mem.live = 0 => ~Running(This)
    /\ mem.restore \in {mem.orig.cid, MaxJobs + This}
    /\ containers[mem.restore].gen = mem.orig.gen

\* What the runner knows of the host on its way forward.
ForwardHost ==
  /\ pc \in {"STOPPED", "BACKUP_STARTED", "backup", "BACKED_UP", "START_REQUESTED",
             "validate", "cutover"}
       => NoneRuns /\ AllFiles(mem.orig.gen)
  /\ pc \in {"exchange", "create", "start"} => NoneRuns /\ mem.cut
  /\ pc \in {"create", "start", "STARTED", "health", "enroll", "remove", "health2",
             "VERIFIED", "COMPLETE"} => AllFiles(This) /\ mem.cut
  /\ pc \in {"start", "STARTED", "health", "enroll", "remove", "health2",
             "VERIFIED", "COMPLETE"} => mem.live = This
  /\ pc \in {"STARTED", "health", "enroll", "remove", "health2", "VERIFIED", "COMPLETE"}
       => RunsOnly(This)
  /\ pc \in {"remove", "health2", "VERIFIED", "COMPLETE"} => enrolled = LivePolicy
  /\ pc \in {"VERIFIED", "COMPLETE"} => Running(This)

\* And on its way back.
RestoreHost ==
  /\ pc \notin {"rb_enroll", "rb_start", "rb_health", "rb_clean", "RESTORED",
                "MANUAL_ACTION_REQUIRED", "idle", "down"} /\ Said \notin Unchanged
       => mem.restore = mem.orig.cid
  /\ pc \in {"rb_check", "rb_exchange", "rb_create"} => ~Running(This)
  /\ pc = "rb_exchange" => NoneRuns /\ ~cred
  /\ pc \in {"rb_create", "rb_enroll", "rb_start", "rb_health", "rb_clean", "RESTORED"}
       => AllFiles(mem.orig.gen)
  /\ pc \in {"rb_enroll", "rb_start", "rb_health", "rb_clean", "RESTORED"}
       => RunsOnly(mem.restore)
  /\ pc \in {"rb_start", "rb_health", "rb_clean", "RESTORED"}
       => enrolled = RestoredEnrollment
  /\ pc \in {"rb_clean", "RESTORED"} => Running(mem.restore)

\* The inductive invariant of the update.
TransactionInv ==
  /\ TransactionTypeOK
  /\ Valid(jobs)
  /\ pc \notin {"idle", "down"} => This > 0
  /\ Truthful
  /\ CandidateImage
  /\ OneGeneration
  /\ CredentialsKept
  /\ DurableAt
  /\ PlanFrozen
  /\ TwoGenerations
  /\ ForwardHost
  /\ RestoreHost

\* The active job is a job of the journal.
LEMMA ActiveJob ==
  ASSUME TransactionInv
  PROVE  /\ This \in Nat /\ This <= MaxJobs /\ MaxJobs \in Nat \ {0}
         /\ This > 0 => This \in DOMAIN jobs /\ jobs[This] \in Job /\ Said \in STATES
<1>1. jobs \in Seq(Job) /\ Len(jobs) <= MaxJobs /\ Len(jobs) \in Nat
  BY DEF TransactionInv, TransactionTypeOK, JournalTypeOK, Valid
<1>2. This > 0 => This \in DOMAIN jobs /\ jobs[This] \in Job
  BY <1>1 DEF This
<1> QED BY <1>1, <1>2, JournalAssumption DEF This, Said, Job

\* What the steps that leave journal and host alone keep.
LEMMA HostRests ==
  ASSUME TransactionInv, UNCHANGED <<jobs, hostVars>>
  PROVE  /\ This' = This /\ Said' = Said /\ Valid(jobs)' /\ JournalTypeOK'
         /\ Truthful' /\ CandidateImage' /\ OneGeneration' /\ CredentialsKept'
<1>1. /\ jobs' = jobs /\ containers' = containers /\ files' = files
      /\ enrolled' = enrolled /\ cred' = cred
  BY DEF hostVars
<1>2. This' = This /\ Said' = Said
  BY DEF This, Said
<1>3. Truthful' /\ CandidateImage'
  BY <1>1, <1>2 DEF TransactionInv, Truthful, CandidateImage, Whole, Inspected,
     RunsOnly, Running, PromisedVersion
<1>4. OneGeneration' /\ CredentialsKept'
  BY <1>1 DEF TransactionInv, OneGeneration, CredentialsKept, Running, Candidate,
     This
<1> QED BY <1>1, <1>2, <1>3, <1>4 DEF TransactionInv, TransactionTypeOK, JournalTypeOK, Valid

\* Steps that only look at the host and move the runner on.
LEMMA LookStep ==
  ASSUME TransactionInv,
         \/ Handle \/ Rejected \/ Prepare \/ Check2 \/ BackupOriginal
         \/ ValidateCandidate \/ ExchangeDone \/ HealthCandidate \/ CheckRollback
         \/ ReverseDone \/ HealthOriginal
  PROVE  TransactionInv'
<1> USE DEF Handle, Rejected, Prepare, Check2, BackupOriginal, ValidateCandidate,
        ExchangeDone, HealthCandidate, CheckRollback, ReverseDone, HealthOriginal,
        ForwardSteps, RestoreSteps, Forward, Restoring, FailureState
<1>1. UNCHANGED <<jobs, mem, ioFailed, faults, hostVars>> /\ pc \notin {"idle", "down"}
  OBVIOUS
<1>2. /\ mem' = mem /\ ioFailed' = ioFailed /\ faults' = faults /\ files' = files
      /\ containers' = containers /\ enrolled' = enrolled /\ cred' = cred /\ jobs' = jobs
  BY DEF hostVars
<1>3. /\ This' = This /\ Said' = Said /\ Valid(jobs)' /\ JournalTypeOK'
      /\ Truthful' /\ CandidateImage' /\ OneGeneration' /\ CredentialsKept'
  BY HostRests
<1>4. Said \in STATES /\ This > 0
  BY ActiveJob DEF TransactionInv
<1>5. TransactionTypeOK'
  BY <1>2, <1>3 DEF TransactionInv, TransactionTypeOK, STATES, TERMINAL, ForwardOf
<1>6. DurableAt'
  BY <1>3 DEF TransactionInv, DurableAt, Unchanged, TERMINAL, Said
<1>7. PlanFrozen'
  BY <1>2, <1>3 DEF TransactionInv, PlanFrozen, Whole, Inspected, Running,
     RunsOnly
<1>8. TwoGenerations'
  BY <1>2, <1>3 DEF TransactionInv, TwoGenerations, AllFiles, Running
<1>9. ForwardHost'
  BY <1>2, <1>3 DEF TransactionInv, ForwardHost, AllFiles, NoneRuns, RunsOnly,
     Running, LivePolicy, Candidate, AllExchanged
<1>10. RestoreHost'
  BY <1>2, <1>3 DEF TransactionInv, RestoreHost, AllFiles, NoneRuns, RunsOnly,
     Running, RestoredEnrollment, Quiet, CredentialsKept, CredentialsContinue,
     TwoGenerations, DurableAt, Unchanged, BEFORE_CUTOVER
<1> QED BY <1>1, <1>3, <1>4, <1>5, <1>6, <1>7, <1>8, <1>9, <1>10 DEF TransactionInv

\* What the steps that leave the journal alone keep.
LEMMA JournalRests ==
  ASSUME TransactionInv, UNCHANGED jobs
  PROVE  /\ This' = This /\ Said' = Said /\ jobs[This]' = jobs[This]
         /\ Valid(jobs)' /\ JournalTypeOK' /\ PromisedVersion' = PromisedVersion
BY DEF TransactionInv, TransactionTypeOK, JournalTypeOK, This, Said,
   PromisedVersion

\* preflight(): the plan is frozen while nothing was touched.
LEMMA Check1Step ==
  ASSUME TransactionInv, Check1
  PROVE  TransactionInv'
<1> USE DEF Check1, Forward, Restoring, SetState, Candidate
<1>1. /\ This' = This /\ Said' = Said /\ jobs[This]' = jobs[This] /\ jobs' = jobs
      /\ Valid(jobs)' /\ JournalTypeOK' /\ PromisedVersion' = PromisedVersion
  BY JournalRests
<1>2. /\ This \in Nat /\ This <= MaxJobs /\ MaxJobs \in Nat /\ This > 0
      /\ jobs[This] \in Job /\ Said \in STATES
  BY ActiveJob DEF TransactionInv
<1>3. /\ mem \in Memory /\ enrolled \in Enrollment /\ files \in [Entries -> Gens]
      /\ containers \in [Cids -> Container] /\ cred \in BOOLEAN
  BY DEF TransactionInv, TransactionTypeOK
<1>4. This \in Cids /\ This \in Gens /\ MaxJobs + This \in Cids /\ Data \in Entries
  BY <1>2, TransactionAssumption DEF Cids, Gens
<1>5. TransactionTypeOK'
  <2>1. NoPlan(enrolled) \in Memory
    BY <1>2, <1>3 DEF NoPlan, Memory, Enrollment, Gens
  <2> QED BY <2>1, <1>1, <1>3 DEF TransactionInv, TransactionTypeOK, STATES, TERMINAL, ForwardOf, hostVars
<1>6. DurableAt'
  BY <1>1 DEF TransactionInv, DurableAt, RestoreSteps
<1>7. Truthful'
  BY <1>1 DEF TransactionInv, Truthful, hostVars, Whole, Inspected, RunsOnly,
     Running
<1>8. CandidateImage' /\ OneGeneration' /\ CredentialsKept'
  BY <1>1 DEF TransactionInv, CandidateImage, OneGeneration, CredentialsKept,
     hostVars, Running
<1>9. PlanFrozen'
  BY <1>1 DEF TransactionInv, PlanFrozen, Whole, Inspected, Running, RunsOnly,
     DurableAt, Truthful, Unchanged, BEFORE_CUTOVER, hostVars
<1>10. TwoGenerations'
  BY <1>1 DEF TransactionInv, TwoGenerations, DurableAt, Unchanged, BEFORE_CUTOVER
<1>11. ForwardHost'
  BY DEF ForwardHost
<1>12. RestoreHost'
  BY DEF RestoreHost, NoPlan
<1> QED BY <1>1, <1>2, <1>5, <1>6, <1>7, <1>8, <1>9, <1>10, <1>11, <1>12 DEF TransactionInv

\* The original is stopped; from here on the plan is all there is to go back to.
LEMMA StopOriginalStep ==
  ASSUME TransactionInv, StopOriginal
  PROVE  TransactionInv'
<1> USE DEF StopOriginal, Forward, Restoring, SetState, Candidate
<1>1. /\ This' = This /\ Said' = Said /\ jobs[This]' = jobs[This] /\ jobs' = jobs
      /\ Valid(jobs)' /\ JournalTypeOK' /\ PromisedVersion' = PromisedVersion
  BY JournalRests
<1>2. /\ This \in Nat /\ This <= MaxJobs /\ MaxJobs \in Nat /\ This > 0
      /\ jobs[This] \in Job /\ Said \in STATES
  BY ActiveJob DEF TransactionInv
<1>3. /\ mem \in Memory /\ enrolled \in Enrollment /\ files \in [Entries -> Gens]
      /\ containers \in [Cids -> Container] /\ cred \in BOOLEAN
  BY DEF TransactionInv, TransactionTypeOK
<1>4. This \in Cids /\ This \in Gens /\ MaxJobs + This \in Cids /\ Data \in Entries
  BY <1>2, TransactionAssumption DEF Cids, Gens
<1>5. TransactionTypeOK'
  BY <1>1 DEF TransactionInv, TransactionTypeOK, Container, STATES, ForwardOf
<1>6. DurableAt'
  BY <1>1 DEF TransactionInv, DurableAt, RestoreSteps, TERMINAL
<1>7. Truthful'
  BY <1>1 DEF TransactionInv, Truthful, DurableAt, Unchanged, BEFORE_CUTOVER,
     Finished
<1>8. CandidateImage' /\ OneGeneration' /\ CredentialsKept'
  BY <1>1 DEF TransactionInv, CandidateImage, OneGeneration, CredentialsKept,
     Running
<1>9. PlanFrozen'
  BY DEF PlanFrozen
<1>10. TwoGenerations'
  BY <1>1 DEF TransactionInv, TwoGenerations, AllFiles, Running
<1>11. ForwardHost'
  BY <1>3 DEF TransactionInv, ForwardHost, AllFiles, NoneRuns, RunsOnly, Running,
     PlanFrozen, Whole, Inspected
<1>12. RestoreHost'
  BY <1>1 DEF TransactionInv, RestoreHost
<1> QED BY <1>1, <1>2, <1>5, <1>6, <1>7, <1>8, <1>9, <1>10, <1>11, <1>12 DEF TransactionInv

\* The cutover plan changes no file yet.
LEMMA PrepareCutoverStep ==
  ASSUME TransactionInv, PrepareCutover
  PROVE  TransactionInv'
<1> USE DEF PrepareCutover, Forward, Restoring, SetState, Candidate
<1>1. /\ This' = This /\ Said' = Said /\ jobs[This]' = jobs[This] /\ jobs' = jobs
      /\ Valid(jobs)' /\ JournalTypeOK' /\ PromisedVersion' = PromisedVersion
  BY JournalRests
<1>2. /\ This \in Nat /\ This <= MaxJobs /\ MaxJobs \in Nat /\ This > 0
      /\ jobs[This] \in Job /\ Said \in STATES
  BY ActiveJob DEF TransactionInv
<1>3. /\ mem \in Memory /\ enrolled \in Enrollment /\ files \in [Entries -> Gens]
      /\ containers \in [Cids -> Container] /\ cred \in BOOLEAN
  BY DEF TransactionInv, TransactionTypeOK
<1>4. This \in Cids /\ This \in Gens /\ MaxJobs + This \in Cids /\ Data \in Entries
  BY <1>2, TransactionAssumption DEF Cids, Gens
<1>5. TransactionTypeOK'
  BY <1>1 DEF TransactionInv, TransactionTypeOK, Memory, ForwardSteps, hostVars
<1>6. DurableAt'
  BY <1>1 DEF TransactionInv, DurableAt, RestoreSteps, TERMINAL
<1>7. Truthful'
  BY <1>1 DEF TransactionInv, Truthful, hostVars, Whole, Inspected, RunsOnly,
     Running
<1>8. CandidateImage' /\ OneGeneration' /\ CredentialsKept'
  BY <1>1 DEF TransactionInv, CandidateImage, OneGeneration, CredentialsKept,
     hostVars, Running
<1>9. PlanFrozen'
  BY DEF PlanFrozen
<1>10. TwoGenerations'
  BY <1>1 DEF TransactionInv, TwoGenerations, Running, hostVars
<1>11. ForwardHost'
  BY DEF ForwardHost, NoneRuns, Running, Quiet, hostVars
<1>12. RestoreHost'
  BY <1>1 DEF TransactionInv, RestoreHost
<1> QED BY <1>1, <1>2, <1>5, <1>6, <1>7, <1>8, <1>9, <1>10, <1>11, <1>12 DEF TransactionInv

\* One entry changes its generation while no container runs.
LEMMA ExchangeEntryStep ==
  ASSUME TransactionInv, NEW n \in Entries, ExchangeEntry(n)
  PROVE  TransactionInv'
<1> USE DEF ExchangeEntry, Forward, Restoring, SetState, Candidate
<1>1. /\ This' = This /\ Said' = Said /\ jobs[This]' = jobs[This] /\ jobs' = jobs
      /\ Valid(jobs)' /\ JournalTypeOK' /\ PromisedVersion' = PromisedVersion
  BY JournalRests
<1>2. /\ This \in Nat /\ This <= MaxJobs /\ MaxJobs \in Nat /\ This > 0
      /\ jobs[This] \in Job /\ Said \in STATES
  BY ActiveJob DEF TransactionInv
<1>3. /\ mem \in Memory /\ enrolled \in Enrollment /\ files \in [Entries -> Gens]
      /\ containers \in [Cids -> Container] /\ cred \in BOOLEAN
  BY DEF TransactionInv, TransactionTypeOK
<1>4. This \in Cids /\ This \in Gens /\ MaxJobs + This \in Cids /\ Data \in Entries
  BY <1>2, TransactionAssumption DEF Cids, Gens
<1>5. TransactionTypeOK'
  BY <1>1, <1>4 DEF TransactionInv, TransactionTypeOK
<1>6. DurableAt'
  BY <1>1 DEF TransactionInv, DurableAt, RestoreSteps, TERMINAL
<1>7. Truthful'
  BY <1>1 DEF TransactionInv, Truthful, DurableAt, Unchanged, BEFORE_CUTOVER,
     Finished
<1>8. CandidateImage' /\ OneGeneration' /\ CredentialsKept'
  BY <1>1 DEF TransactionInv, CandidateImage, OneGeneration, CredentialsKept,
     Running, ForwardHost, NoneRuns
<1>9. PlanFrozen'
  BY DEF PlanFrozen
<1>10. TwoGenerations'
  BY <1>1 DEF TransactionInv, TwoGenerations, Running, ForwardHost
<1>11. ForwardHost'
  BY DEF TransactionInv, ForwardHost, NoneRuns, Running
<1>12. RestoreHost'
  BY <1>1 DEF TransactionInv, RestoreHost
<1> QED BY <1>1, <1>2, <1>5, <1>6, <1>7, <1>8, <1>9, <1>10, <1>11, <1>12 DEF TransactionInv

\* The candidate is created, known or not.
LEMMA CreateCandidateStep ==
  ASSUME TransactionInv, CreateCandidate
  PROVE  TransactionInv'
<1> USE DEF CreateCandidate, Forward, Restoring, SetState, Candidate
<1>1. /\ This' = This /\ Said' = Said /\ jobs[This]' = jobs[This] /\ jobs' = jobs
      /\ Valid(jobs)' /\ JournalTypeOK' /\ PromisedVersion' = PromisedVersion
  BY JournalRests
<1>2. /\ This \in Nat /\ This <= MaxJobs /\ MaxJobs \in Nat /\ This > 0
      /\ jobs[This] \in Job /\ Said \in STATES
  BY ActiveJob DEF TransactionInv
<1>3. /\ mem \in Memory /\ enrolled \in Enrollment /\ files \in [Entries -> Gens]
      /\ containers \in [Cids -> Container] /\ cred \in BOOLEAN
  BY DEF TransactionInv, TransactionTypeOK
<1>4. This \in Cids /\ This \in Gens /\ MaxJobs + This \in Cids /\ Data \in Entries
  BY <1>2, TransactionAssumption DEF Cids, Gens
<1>5. TransactionTypeOK'
  BY <1>1, <1>4 DEF TransactionInv, TransactionTypeOK, Memory, Container,
     ForwardSteps
<1>6. DurableAt'
  BY <1>1 DEF TransactionInv, DurableAt, RestoreSteps, TERMINAL
<1>7. Truthful'
  BY <1>1, <1>2 DEF TransactionInv, Truthful, DurableAt, Finished, Whole,
     Inspected, RunsOnly, Running, Older
<1>8. CandidateImage' /\ OneGeneration' /\ CredentialsKept'
  BY <1>1 DEF TransactionInv, CandidateImage, OneGeneration, CredentialsKept,
     Running
<1>9. PlanFrozen'
  BY DEF PlanFrozen
<1>10. TwoGenerations'
  BY <1>1, <1>2, <1>3, <1>4 DEF TransactionInv, TwoGenerations, Older, Running,
     Memory, ForwardHost
<1>11. ForwardHost'
  BY <1>1, <1>3 DEF TransactionInv, ForwardHost, AllFiles, NoneRuns, Running,
     Memory
<1>12. RestoreHost'
  BY <1>1, <1>3 DEF TransactionInv, RestoreHost, Memory
<1> QED BY <1>1, <1>2, <1>5, <1>6, <1>7, <1>8, <1>9, <1>10, <1>11, <1>12 DEF TransactionInv

\* The candidate starts over files that are all its own.
LEMMA StartCandidateStep ==
  ASSUME TransactionInv, StartCandidate
  PROVE  TransactionInv'
<1> USE DEF StartCandidate, Forward, Restoring, SetState, Candidate
<1>1. /\ This' = This /\ Said' = Said /\ jobs[This]' = jobs[This] /\ jobs' = jobs
      /\ Valid(jobs)' /\ JournalTypeOK' /\ PromisedVersion' = PromisedVersion
  BY JournalRests
<1>2. /\ This \in Nat /\ This <= MaxJobs /\ MaxJobs \in Nat /\ This > 0
      /\ jobs[This] \in Job /\ Said \in STATES
  BY ActiveJob DEF TransactionInv
<1>3. /\ mem \in Memory /\ enrolled \in Enrollment /\ files \in [Entries -> Gens]
      /\ containers \in [Cids -> Container] /\ cred \in BOOLEAN
  BY DEF TransactionInv, TransactionTypeOK
<1>4. This \in Cids /\ This \in Gens /\ MaxJobs + This \in Cids /\ Data \in Entries
  BY <1>2, TransactionAssumption DEF Cids, Gens
<1>5. TransactionTypeOK'
  BY <1>1 DEF TransactionInv, TransactionTypeOK, Memory, Enrollment, Container,
     NoPlan, STATES, TERMINAL, ForwardOf, ForwardSteps, RestoreSteps, hostVars,
     LivePolicy
<1>6. DurableAt'
  BY <1>1 DEF TransactionInv, DurableAt, RestoreSteps, TERMINAL
<1>7. Truthful'
  BY <1>1 DEF TransactionInv, Truthful, DurableAt, Unchanged, BEFORE_CUTOVER,
     Finished
<1>8. CandidateImage' /\ OneGeneration' /\ CredentialsKept'
  BY <1>1 DEF TransactionInv, CandidateImage, OneGeneration, CredentialsKept,
     Running, ForwardHost, AllFiles, TwoGenerations, DurableAt, Unchanged,
     BEFORE_CUTOVER
<1>9. PlanFrozen'
  BY DEF PlanFrozen
<1>10. TwoGenerations'
  BY <1>1 DEF TransactionInv, TwoGenerations, Running, ForwardHost
<1>11. ForwardHost'
  BY <1>1 DEF TransactionInv, ForwardHost, AllFiles, NoneRuns, RunsOnly, Running
<1>12. RestoreHost'
  BY <1>1 DEF TransactionInv, RestoreHost
<1> QED BY <1>1, <1>2, <1>5, <1>6, <1>7, <1>8, <1>9, <1>10, <1>11, <1>12 DEF TransactionInv

\* The enrollment follows the verified candidate.
LEMMA EnrollCandidateStep ==
  ASSUME TransactionInv, EnrollCandidate
  PROVE  TransactionInv'
<1> USE DEF EnrollCandidate, Forward, Restoring, SetState, Candidate
<1>1. /\ This' = This /\ Said' = Said /\ jobs[This]' = jobs[This] /\ jobs' = jobs
      /\ Valid(jobs)' /\ JournalTypeOK' /\ PromisedVersion' = PromisedVersion
  BY JournalRests
<1>2. /\ This \in Nat /\ This <= MaxJobs /\ MaxJobs \in Nat /\ This > 0
      /\ jobs[This] \in Job /\ Said \in STATES
  BY ActiveJob DEF TransactionInv
<1>3. /\ mem \in Memory /\ enrolled \in Enrollment /\ files \in [Entries -> Gens]
      /\ containers \in [Cids -> Container] /\ cred \in BOOLEAN
  BY DEF TransactionInv, TransactionTypeOK
<1>4. This \in Cids /\ This \in Gens /\ MaxJobs + This \in Cids /\ Data \in Entries
  BY <1>2, TransactionAssumption DEF Cids, Gens
<1>5. TransactionTypeOK'
  <2>1. LivePolicy \in Enrollment
    BY <1>2, <1>3 DEF LivePolicy, Memory, Enrollment, Gens, Cids, Job
  <2> QED BY <2>1, <1>1, <1>3 DEF TransactionInv, TransactionTypeOK, ForwardSteps
<1>6. DurableAt'
  BY <1>1 DEF TransactionInv, DurableAt, RestoreSteps, TERMINAL
<1>7. Truthful'
  BY <1>1 DEF TransactionInv, Truthful, DurableAt, Unchanged, BEFORE_CUTOVER,
     Finished
<1>8. CandidateImage' /\ OneGeneration' /\ CredentialsKept'
  BY <1>1 DEF TransactionInv, CandidateImage, OneGeneration, CredentialsKept,
     Running
<1>9. PlanFrozen'
  BY DEF PlanFrozen
<1>10. TwoGenerations'
  BY <1>1 DEF TransactionInv, TwoGenerations, Running, ForwardHost
<1>11. ForwardHost'
  BY <1>1 DEF TransactionInv, ForwardHost, AllFiles, RunsOnly, Running, LivePolicy
<1>12. RestoreHost'
  BY <1>1 DEF TransactionInv, RestoreHost
<1> QED BY <1>1, <1>2, <1>5, <1>6, <1>7, <1>8, <1>9, <1>10, <1>11, <1>12 DEF TransactionInv

\* The original goes once the candidate is enrolled.
LEMMA RemoveOriginalStep ==
  ASSUME TransactionInv, RemoveOriginal
  PROVE  TransactionInv'
<1> USE DEF RemoveOriginal, Forward, Restoring, SetState, Candidate
<1>1. /\ This' = This /\ Said' = Said /\ jobs[This]' = jobs[This] /\ jobs' = jobs
      /\ Valid(jobs)' /\ JournalTypeOK' /\ PromisedVersion' = PromisedVersion
  BY JournalRests
<1>2. /\ This \in Nat /\ This <= MaxJobs /\ MaxJobs \in Nat /\ This > 0
      /\ jobs[This] \in Job /\ Said \in STATES
  BY ActiveJob DEF TransactionInv
<1>3. /\ mem \in Memory /\ enrolled \in Enrollment /\ files \in [Entries -> Gens]
      /\ containers \in [Cids -> Container] /\ cred \in BOOLEAN
  BY DEF TransactionInv, TransactionTypeOK
<1>4. This \in Cids /\ This \in Gens /\ MaxJobs + This \in Cids /\ Data \in Entries
  BY <1>2, TransactionAssumption DEF Cids, Gens
<1>5. TransactionTypeOK'
  <2>1. mem' \in Memory
    BY <1>3 DEF Memory
  <2>2. containers' \in [Cids -> Container]
    BY <1>3 DEF Container
  <2> QED BY <2>1, <2>2, <1>1, <1>3 DEF TransactionInv, TransactionTypeOK, ForwardSteps
<1>6. DurableAt'
  BY <1>1 DEF TransactionInv, DurableAt, RestoreSteps, TERMINAL
<1>7. Truthful'
  BY <1>1 DEF TransactionInv, Truthful, DurableAt, Unchanged, BEFORE_CUTOVER,
     Finished
<1>8. CandidateImage' /\ OneGeneration' /\ CredentialsKept'
  BY <1>1, <1>3, <1>4 DEF TransactionInv, CandidateImage, OneGeneration,
     CredentialsKept, Running, Container
<1>9. PlanFrozen'
  BY DEF PlanFrozen
<1>10. TwoGenerations'
  BY <1>1, <1>3, <1>4 DEF TransactionInv, TwoGenerations, Running, Container,
     ForwardHost
<1>11. ForwardHost'
  BY <1>1, <1>3 DEF TransactionInv, ForwardHost, AllFiles, RunsOnly, Running,
     LivePolicy, Container
<1>12. RestoreHost'
  BY <1>1 DEF TransactionInv, RestoreHost
<1> QED BY <1>1, <1>2, <1>5, <1>6, <1>7, <1>8, <1>9, <1>10, <1>11, <1>12 DEF TransactionInv

\* The candidate stops before a file goes back.
LEMMA StopCandidateStep ==
  ASSUME TransactionInv, StopCandidate
  PROVE  TransactionInv'
<1> USE DEF StopCandidate, Forward, Restoring, SetState, Candidate
<1>1. /\ This' = This /\ Said' = Said /\ jobs[This]' = jobs[This] /\ jobs' = jobs
      /\ Valid(jobs)' /\ JournalTypeOK' /\ PromisedVersion' = PromisedVersion
  BY JournalRests
<1>2. /\ This \in Nat /\ This <= MaxJobs /\ MaxJobs \in Nat /\ This > 0
      /\ jobs[This] \in Job /\ Said \in STATES
  BY ActiveJob DEF TransactionInv
<1>3. /\ mem \in Memory /\ enrolled \in Enrollment /\ files \in [Entries -> Gens]
      /\ containers \in [Cids -> Container] /\ cred \in BOOLEAN
  BY DEF TransactionInv, TransactionTypeOK
<1>4. This \in Cids /\ This \in Gens /\ MaxJobs + This \in Cids /\ Data \in Entries
  BY <1>2, TransactionAssumption DEF Cids, Gens
<1>5. TransactionTypeOK'
  BY <1>1 DEF TransactionInv, TransactionTypeOK, Container, STATES, TERMINAL,
     RestoreSteps
<1>6. DurableAt'
  BY <1>1 DEF TransactionInv, DurableAt, RestoreSteps
<1>7. Truthful'
  BY <1>1 DEF TransactionInv, Truthful, DurableAt, RestoreSteps, Unchanged,
     BEFORE_CUTOVER, Finished
<1>8. CandidateImage' /\ OneGeneration' /\ CredentialsKept'
  BY <1>1, <1>3, <1>4 DEF TransactionInv, CandidateImage, OneGeneration,
     CredentialsKept, Running, Container
<1>9. PlanFrozen'
  BY DEF PlanFrozen
<1>10. TwoGenerations'
  BY <1>1, <1>3 DEF TransactionInv, TwoGenerations, AllFiles, Running, Container,
     Memory, RestoreHost
<1>11. ForwardHost'
  BY DEF ForwardHost
<1>12. RestoreHost'
  BY <1>1, <1>3, <1>4 DEF TransactionInv, RestoreHost, Running, TwoGenerations,
     DurableAt, RestoreSteps, Unchanged, BEFORE_CUTOVER, Container
<1> QED BY <1>1, <1>2, <1>5, <1>6, <1>7, <1>8, <1>9, <1>10, <1>11, <1>12 DEF TransactionInv

\* One entry goes back while no container runs and no credential changed.
LEMMA ReverseEntryStep ==
  ASSUME TransactionInv, NEW n \in Entries, ReverseEntry(n)
  PROVE  TransactionInv'
<1> USE DEF ReverseEntry, Forward, Restoring, SetState, Candidate
<1>1. /\ This' = This /\ Said' = Said /\ jobs[This]' = jobs[This] /\ jobs' = jobs
      /\ Valid(jobs)' /\ JournalTypeOK' /\ PromisedVersion' = PromisedVersion
  BY JournalRests
<1>2. /\ This \in Nat /\ This <= MaxJobs /\ MaxJobs \in Nat /\ This > 0
      /\ jobs[This] \in Job /\ Said \in STATES
  BY ActiveJob DEF TransactionInv
<1>3. /\ mem \in Memory /\ enrolled \in Enrollment /\ files \in [Entries -> Gens]
      /\ containers \in [Cids -> Container] /\ cred \in BOOLEAN
  BY DEF TransactionInv, TransactionTypeOK
<1>4. This \in Cids /\ This \in Gens /\ MaxJobs + This \in Cids /\ Data \in Entries
  BY <1>2, TransactionAssumption DEF Cids, Gens
<1>5. TransactionTypeOK'
  BY <1>1 DEF TransactionInv, TransactionTypeOK, Memory, Enrollment, STATES,
     TERMINAL
<1>6. DurableAt'
  BY <1>1 DEF TransactionInv, DurableAt, RestoreSteps
<1>7. Truthful'
  BY <1>1, <1>2 DEF TransactionInv, Truthful, DurableAt, RestoreSteps, Finished,
     Whole, Inspected, Older
<1>8. CandidateImage' /\ OneGeneration' /\ CredentialsKept'
  BY <1>1 DEF TransactionInv, CandidateImage, OneGeneration, CredentialsKept,
     Running, RestoreHost, TwoGenerations, DurableAt, RestoreSteps, Unchanged,
     BEFORE_CUTOVER
<1>9. PlanFrozen'
  BY DEF PlanFrozen
<1>10. TwoGenerations'
  BY <1>1 DEF TransactionInv, TwoGenerations, AllFiles, Running
<1>11. ForwardHost'
  BY DEF ForwardHost
<1>12. RestoreHost'
  BY <1>1 DEF TransactionInv, RestoreHost, NoneRuns, Running
<1> QED BY <1>1, <1>2, <1>5, <1>6, <1>7, <1>8, <1>9, <1>10, <1>11, <1>12 DEF TransactionInv

\* The original is still there, or its runtime is created again.
LEMMA RecreateOriginalStep ==
  ASSUME TransactionInv, RecreateOriginal
  PROVE  TransactionInv'
<1> USE DEF RecreateOriginal, Forward, Restoring, SetState, Candidate
<1>1. /\ This' = This /\ Said' = Said /\ jobs[This]' = jobs[This] /\ jobs' = jobs
      /\ Valid(jobs)' /\ JournalTypeOK' /\ PromisedVersion' = PromisedVersion
  BY JournalRests
<1>2. /\ This \in Nat /\ This <= MaxJobs /\ MaxJobs \in Nat /\ This > 0
      /\ jobs[This] \in Job /\ Said \in STATES
  BY ActiveJob DEF TransactionInv
<1>3. /\ mem \in Memory /\ enrolled \in Enrollment /\ files \in [Entries -> Gens]
      /\ containers \in [Cids -> Container] /\ cred \in BOOLEAN
  BY DEF TransactionInv, TransactionTypeOK
<1>4. This \in Cids /\ This \in Gens /\ MaxJobs + This \in Cids /\ Data \in Entries
  BY <1>2, TransactionAssumption DEF Cids, Gens
<1>5. TransactionTypeOK'
  BY <1>1, <1>4 DEF TransactionInv, TransactionTypeOK, Memory, Enrollment,
     Container, NoPlan, STATES, TERMINAL, RestoreSteps
<1>6. DurableAt'
  BY <1>1 DEF TransactionInv, DurableAt, RestoreSteps
<1>7. Truthful'
  BY <1>1 DEF TransactionInv, Truthful, DurableAt, RestoreSteps, Unchanged,
     BEFORE_CUTOVER, Finished
<1>8. CandidateImage' /\ OneGeneration' /\ CredentialsKept'
  BY <1>1, <1>3, <1>4 DEF TransactionInv, CandidateImage, OneGeneration,
     CredentialsKept, Running
<1>9. PlanFrozen'
  BY DEF PlanFrozen
<1>10. TwoGenerations'
  BY <1>1, <1>2, <1>3, <1>4 DEF TransactionInv, TwoGenerations, AllFiles, Running,
     Memory, RestoreHost
<1>11. ForwardHost'
  BY DEF ForwardHost
<1>12. RestoreHost'
  BY <1>3 DEF TransactionInv, RestoreHost, AllFiles, RunsOnly, Running,
     TwoGenerations, DurableAt, RestoreSteps, Unchanged, BEFORE_CUTOVER, Memory,
     OldExists
<1> QED BY <1>1, <1>2, <1>5, <1>6, <1>7, <1>8, <1>9, <1>10, <1>11, <1>12 DEF TransactionInv

\* The enrollment goes back to the restored runtime.
LEMMA EnrollOriginalStep ==
  ASSUME TransactionInv, EnrollOriginal
  PROVE  TransactionInv'
<1> USE DEF EnrollOriginal, Forward, Restoring, SetState, Candidate
<1>1. /\ This' = This /\ Said' = Said /\ jobs[This]' = jobs[This] /\ jobs' = jobs
      /\ Valid(jobs)' /\ JournalTypeOK' /\ PromisedVersion' = PromisedVersion
  BY JournalRests
<1>2. /\ This \in Nat /\ This <= MaxJobs /\ MaxJobs \in Nat /\ This > 0
      /\ jobs[This] \in Job /\ Said \in STATES
  BY ActiveJob DEF TransactionInv
<1>3. /\ mem \in Memory /\ enrolled \in Enrollment /\ files \in [Entries -> Gens]
      /\ containers \in [Cids -> Container] /\ cred \in BOOLEAN
  BY DEF TransactionInv, TransactionTypeOK
<1>4. This \in Cids /\ This \in Gens /\ MaxJobs + This \in Cids /\ Data \in Entries
  BY <1>2, TransactionAssumption DEF Cids, Gens
<1>5. TransactionTypeOK'
  BY <1>1 DEF TransactionInv, TransactionTypeOK, Memory, Enrollment, STATES,
     TERMINAL, RestoreSteps, RestoredEnrollment
<1>6. DurableAt'
  BY <1>1 DEF TransactionInv, DurableAt, RestoreSteps
<1>7. Truthful'
  BY <1>1 DEF TransactionInv, Truthful, DurableAt, RestoreSteps, Unchanged,
     BEFORE_CUTOVER, Finished
<1>8. CandidateImage' /\ OneGeneration' /\ CredentialsKept'
  BY <1>1 DEF TransactionInv, CandidateImage, OneGeneration, CredentialsKept,
     Running
<1>9. PlanFrozen'
  BY DEF PlanFrozen
<1>10. TwoGenerations'
  BY <1>1 DEF TransactionInv, TwoGenerations, AllFiles, Running
<1>11. ForwardHost'
  BY DEF ForwardHost
<1>12. RestoreHost'
  BY DEF TransactionInv, RestoreHost, AllFiles, RunsOnly, Running,
     RestoredEnrollment
<1> QED BY <1>1, <1>2, <1>5, <1>6, <1>7, <1>8, <1>9, <1>10, <1>11, <1>12 DEF TransactionInv

\* The original starts over files that are all its own.
LEMMA StartOriginalStep ==
  ASSUME TransactionInv, StartOriginal
  PROVE  TransactionInv'
<1> USE DEF StartOriginal, Forward, Restoring, SetState, Candidate
<1>1. /\ This' = This /\ Said' = Said /\ jobs[This]' = jobs[This] /\ jobs' = jobs
      /\ Valid(jobs)' /\ JournalTypeOK' /\ PromisedVersion' = PromisedVersion
  BY JournalRests
<1>2. /\ This \in Nat /\ This <= MaxJobs /\ MaxJobs \in Nat /\ This > 0
      /\ jobs[This] \in Job /\ Said \in STATES
  BY ActiveJob DEF TransactionInv
<1>3. /\ mem \in Memory /\ enrolled \in Enrollment /\ files \in [Entries -> Gens]
      /\ containers \in [Cids -> Container] /\ cred \in BOOLEAN
  BY DEF TransactionInv, TransactionTypeOK
<1>4. This \in Cids /\ This \in Gens /\ MaxJobs + This \in Cids /\ Data \in Entries
  BY <1>2, TransactionAssumption DEF Cids, Gens
<1>5. TransactionTypeOK'
  BY <1>1 DEF TransactionInv, TransactionTypeOK, Memory, Enrollment, Container,
     STATES, TERMINAL, RestoreSteps
<1>6. DurableAt'
  BY <1>1 DEF TransactionInv, DurableAt, RestoreSteps
<1>7. Truthful'
  BY <1>1 DEF TransactionInv, Truthful, DurableAt, RestoreSteps, Unchanged,
     BEFORE_CUTOVER, Finished
<1>8. CandidateImage' /\ OneGeneration' /\ CredentialsKept'
  BY <1>1, <1>2 DEF TransactionInv, CandidateImage, OneGeneration,
     CredentialsKept, Running, RestoreHost, AllFiles, TwoGenerations, DurableAt,
     RestoreSteps, Unchanged, BEFORE_CUTOVER, Older
<1>9. PlanFrozen'
  BY DEF PlanFrozen
<1>10. TwoGenerations'
  BY <1>1, <1>2 DEF TransactionInv, TwoGenerations, Older, AllFiles, Running
<1>11. ForwardHost'
  BY DEF ForwardHost
<1>12. RestoreHost'
  BY DEF TransactionInv, RestoreHost, AllFiles, RunsOnly, Running,
     RestoredEnrollment
<1> QED BY <1>1, <1>2, <1>5, <1>6, <1>7, <1>8, <1>9, <1>10, <1>11, <1>12 DEF TransactionInv

\* The candidate's container goes once the original runs.
LEMMA RemoveCandidateStep ==
  ASSUME TransactionInv, RemoveCandidate
  PROVE  TransactionInv'
<1> USE DEF RemoveCandidate, Forward, Restoring, SetState, Candidate
<1>1. /\ This' = This /\ Said' = Said /\ jobs[This]' = jobs[This] /\ jobs' = jobs
      /\ Valid(jobs)' /\ JournalTypeOK' /\ PromisedVersion' = PromisedVersion
  BY JournalRests
<1>2. /\ This \in Nat /\ This <= MaxJobs /\ MaxJobs \in Nat /\ This > 0
      /\ jobs[This] \in Job /\ Said \in STATES
  BY ActiveJob DEF TransactionInv
<1>3. /\ mem \in Memory /\ enrolled \in Enrollment /\ files \in [Entries -> Gens]
      /\ containers \in [Cids -> Container] /\ cred \in BOOLEAN
  BY DEF TransactionInv, TransactionTypeOK
<1>4. This \in Cids /\ This \in Gens /\ MaxJobs + This \in Cids /\ Data \in Entries
  BY <1>2, TransactionAssumption DEF Cids, Gens
<1>5. TransactionTypeOK'
  BY <1>1 DEF TransactionInv, TransactionTypeOK, Container, STATES, TERMINAL
<1>6. DurableAt'
  BY <1>1 DEF TransactionInv, DurableAt, RestoreSteps
<1>7. Truthful'
  BY <1>1 DEF TransactionInv, Truthful, DurableAt, RestoreSteps, Unchanged,
     BEFORE_CUTOVER, Finished
<1>8. CandidateImage' /\ OneGeneration' /\ CredentialsKept'
  BY <1>1, <1>3, <1>4 DEF TransactionInv, CandidateImage, OneGeneration,
     CredentialsKept, Running, Container
<1>9. PlanFrozen'
  BY DEF PlanFrozen
<1>10. TwoGenerations'
  BY <1>1, <1>3 DEF TransactionInv, TwoGenerations, AllFiles, Running, Container,
     Memory, Enrollment
<1>11. ForwardHost'
  BY DEF ForwardHost
<1>12. RestoreHost'
  BY <1>3 DEF TransactionInv, RestoreHost, AllFiles, RunsOnly, Running,
     RestoredEnrollment, Container, Enrollment
<1> QED BY <1>1, <1>2, <1>5, <1>6, <1>7, <1>8, <1>9, <1>10, <1>11, <1>12 DEF TransactionInv

\* A transition of the active job: nothing but its state and its events change.
LEMMA ActiveTransition ==
  ASSUME TransactionInv, This > 0, NEW s \in STATES, Transition(This, s)
  PROVE  /\ jobs' \in Seq(Job) /\ Valid(jobs)' /\ This' = This /\ Said' = s
         /\ jobs'[This].target = jobs[This].target
         /\ jobs'[This].current = jobs[This].current
         /\ s \in NEXT(Said) /\ Said \notin TERMINAL
<1>1. JournalInv /\ This \in DOMAIN jobs /\ jobs[This] \in Job
  BY ActiveJob DEF TransactionInv, TransactionTypeOK, JournalInv
<1>2. Len(jobs') = Len(jobs) /\ jobs'[This] = Moved(jobs[This], s) /\ Said \notin TERMINAL
  BY <1>1, TransitionShape DEF Said
<1>3. JournalNext
  BY <1>1 DEF JournalNext
<1>4. JournalInv'
  BY <1>1, <1>3, JournalStep
<1>5. This' = This
  BY <1>2 DEF This
<1>6. /\ Moved(jobs[This], s).state = s
      /\ Moved(jobs[This], s).target = jobs[This].target
      /\ Moved(jobs[This], s).current = jobs[This].current
  BY <1>1 DEF Moved, Job
<1>7. jobs[This]' = Moved(jobs[This], s)
  BY <1>2, <1>5
<1> QED BY <1>2, <1>4, <1>5, <1>6, <1>7 DEF JournalInv, JournalTypeOK, Said, Transition, Accepts

\* The truth of the journal survives the write of the next state, whether the
\* runner then goes on or ends.
LEMMA RecordTruthful ==
  ASSUME TransactionInv, pc \in STATES, Transition(This, pc), UNCHANGED hostVars
  PROVE  /\ Truthful' /\ CandidateImage' /\ OneGeneration' /\ CredentialsKept'
<1>1. /\ containers' = containers /\ files' = files /\ enrolled' = enrolled /\ cred' = cred
  BY DEF hostVars
<1>2. /\ This > 0 /\ This \in Nat /\ This <= MaxJobs /\ MaxJobs \in Nat
      /\ mem \in Memory /\ enrolled \in Enrollment
  BY ActiveJob DEF TransactionInv, TransactionTypeOK, STATES, TERMINAL, ForwardOf
<1>3. /\ This' = This /\ Said' = pc /\ Said \notin TERMINAL
      /\ jobs'[This].target = jobs[This].target
      /\ jobs'[This].current = jobs[This].current
  BY <1>2, ActiveTransition
<1>4. CandidateImage' /\ OneGeneration' /\ CredentialsKept'
  BY <1>1, <1>3 DEF TransactionInv, CandidateImage, OneGeneration, CredentialsKept,
     Running, Candidate
<1>5. CASE pc \in Unchanged
  <2>1. Whole' /\ Older(enrolled, This)'
    BY <1>1, <1>2, <1>3, <1>5 DEF TransactionInv, DurableAt, Truthful, Unchanged,
       BEFORE_CUTOVER, Whole, Inspected, RunsOnly, Running, Older
  <2> QED
    BY <1>2, <1>3, <1>4, <1>5, <2>1 DEF Truthful, Unchanged, BEFORE_CUTOVER, Finished
<1>6. CASE pc = "FAILED"
  <2>1. Whole' /\ Older(enrolled, This + 1)'
    BY <1>1, <1>2, <1>3, <1>6 DEF TransactionInv, DurableAt, Truthful, Enrollment, Cids,
       Gens, Whole, Inspected, RunsOnly, Running, Older
  <2> QED
    BY <1>2, <1>3, <1>4, <1>6, <2>1 DEF Truthful, Unchanged, BEFORE_CUTOVER, Finished
<1>7. CASE pc = "COMPLETE"
  <2>1. /\ enrolled = LivePolicy /\ mem.live = This /\ Running(This) /\ RunsOnly(This)
        /\ AllFiles(This) /\ containers[This].gen = This
    BY <1>2, <1>7 DEF TransactionInv, ForwardHost, CandidateImage
  <2>2. Whole' /\ Older(enrolled, This + 1)'
    BY <1>1, <1>2, <1>3, <2>1 DEF LivePolicy, Candidate, Whole, Inspected, RunsOnly,
       Running, Older, AllFiles
  <2>3. enrolled'.ver = PromisedVersion'
    BY <1>1, <1>3, <1>7, <2>1 DEF PromisedVersion, LivePolicy, Said
  <2> QED
    BY <1>2, <1>3, <1>4, <1>7, <2>2, <2>3 DEF Truthful, Unchanged, BEFORE_CUTOVER, Finished
<1>8. CASE pc = "RESTORED"
  <2>1. Said = "ROLLING_BACK"
    BY <1>8 DEF TransactionInv, DurableAt
  <2>2. /\ enrolled = RestoredEnrollment /\ Running(mem.restore) /\ RunsOnly(mem.restore)
        /\ AllFiles(mem.orig.gen) /\ containers[mem.restore].gen = mem.orig.gen
        /\ Older(mem.orig, This) /\ mem.orig.ver = jobs[This].current
        /\ mem.restore \in {mem.orig.cid, MaxJobs + This}
    BY <1>8, <2>1 DEF TransactionInv, RestoreHost, TwoGenerations, Unchanged, BEFORE_CUTOVER
  <2>3. /\ enrolled.cid = mem.restore /\ enrolled.gen = mem.orig.gen
        /\ enrolled.ver = mem.orig.ver
    BY <1>2, <2>2 DEF RestoredEnrollment, Memory, Enrollment
  <2>4. Whole'
    BY <1>1, <2>2, <2>3 DEF Whole, Inspected, RunsOnly, Running, AllFiles
  <2>5. Older(enrolled, This + 1)'
    BY <1>1, <1>2, <1>3, <2>2, <2>3 DEF Older, Memory, Enrollment, Cids, Gens
  <2>6. enrolled'.ver = PromisedVersion'
    BY <1>1, <1>3, <1>8, <2>2, <2>3 DEF PromisedVersion, Said
  <2> QED
    BY <1>2, <1>3, <1>4, <1>8, <2>4, <2>5, <2>6 DEF Truthful, Unchanged, BEFORE_CUTOVER, Finished
<1>9. CASE pc \notin Unchanged \cup Finished
  BY <1>2, <1>3, <1>4, <1>9 DEF Truthful, Finished
<1> QED BY <1>4, <1>5, <1>6, <1>7, <1>8, <1>9 DEF Finished

\* step(): the state is durable, and the runner goes on with what it stands for.
LEMMA RecordStep ==
  ASSUME TransactionInv, Record
  PROVE  TransactionInv'
<1> USE DEF Record
<1>1. /\ mem' = mem /\ ioFailed' = ioFailed /\ faults' = faults /\ files' = files
      /\ containers' = containers /\ enrolled' = enrolled /\ cred' = cred
  BY DEF hostVars
<1>2. /\ This > 0 /\ This \in Nat /\ This <= MaxJobs /\ MaxJobs \in Nat
      /\ mem \in Memory /\ enrolled \in Enrollment
  BY ActiveJob DEF TransactionInv, TransactionTypeOK, STATES, TERMINAL, ForwardOf
<1>3. /\ This' = This /\ Said' = pc /\ Said \notin TERMINAL
      /\ jobs' \in Seq(Job) /\ Valid(jobs)'
      /\ jobs'[This].target = jobs[This].target
      /\ jobs'[This].current = jobs[This].current
  BY <1>2, ActiveTransition
<1>4. pc \in STATES \ {"REQUESTED"}
  BY DEF TransactionInv, DurableAt
<1>5. Truthful' /\ CandidateImage' /\ OneGeneration' /\ CredentialsKept'
  BY RecordTruthful
<1>6. TransactionTypeOK'
  BY <1>1, <1>3, <1>4 DEF TransactionInv, TransactionTypeOK, JournalTypeOK, AfterRecord,
     STATES, TERMINAL, ForwardOf, ForwardSteps, RestoreSteps
<1>7. DurableAt'
  BY <1>3, <1>4 DEF DurableAt, AfterRecord, STATES, TERMINAL, ForwardOf, RestoreSteps,
     Unchanged, BEFORE_CUTOVER
<1>8. PlanFrozen'
  BY <1>1, <1>2, <1>3, <1>4 DEF TransactionInv, PlanFrozen, AfterRecord, STATES, TERMINAL,
     ForwardOf, NoPlan, Whole, Inspected, Running, RunsOnly, Older
<1>9. TwoGenerations'
  <2>1. CASE pc = "STOP_REQUESTED"
    BY <1>1, <1>2, <1>3, <2>1 DEF TransactionInv, PlanFrozen, TwoGenerations, AfterRecord,
       NoPlan, Whole, Inspected, Running, RunsOnly, Older, AllFiles, CandidateImage,
       Memory, Enrollment, Cids, Gens
  <2>2. CASE pc # "STOP_REQUESTED" /\ pc \notin Unchanged \cup TERMINAL
    <3>1. Said \notin Unchanged /\ pc \notin {"idle", "down"}
      BY <1>4, <2>2 DEF TransactionInv, DurableAt, STATES, TERMINAL, ForwardOf,
         Unchanged, BEFORE_CUTOVER
    <3> QED BY <1>1, <1>3, <3>1 DEF TransactionInv, TwoGenerations, Older, AllFiles, Running
  <2>3. CASE pc \in Unchanged
    BY <1>3, <2>3 DEF TwoGenerations
  <2>4. CASE pc \in TERMINAL
    BY <2>4 DEF TwoGenerations, TERMINAL, AfterRecord
  <2> QED BY <2>1, <2>2, <2>3, <2>4
<1>10. ForwardHost'
  BY <1>1, <1>3, <1>4 DEF TransactionInv, ForwardHost, AfterRecord, STATES, TERMINAL,
     ForwardOf, AllFiles, NoneRuns, RunsOnly, Running, LivePolicy, Candidate
<1>11. RestoreHost'
  BY <1>1, <1>3, <1>4 DEF TransactionInv, RestoreHost, AfterRecord, STATES, TERMINAL,
     ForwardOf, Unchanged, BEFORE_CUTOVER, PlanFrozen, NoPlan, DurableAt
<1> QED BY <1>2, <1>3, <1>5, <1>6, <1>7, <1>8, <1>9, <1>10, <1>11 DEF TransactionInv

\* A runner that is gone leaves a host that the journal alone accounts for.
LEMMA RunnerGone ==
  ASSUME TransactionInv, pc' \in {"idle", "down"}, Truthful', CandidateImage',
         OneGeneration', CredentialsKept', jobs' \in Seq(Job), Valid(jobs)',
         mem' \in Memory, ioFailed' \in BOOLEAN, faults' \in 0 .. MaxFaults,
         containers' = containers, files' = files, enrolled' = enrolled,
         cred' \in BOOLEAN
  PROVE  TransactionInv'
<1>1. TransactionTypeOK'
  BY DEF TransactionInv, TransactionTypeOK, JournalTypeOK
<1>2. DurableAt' /\ PlanFrozen' /\ TwoGenerations' /\ ForwardHost' /\ RestoreHost'
  BY DEF DurableAt, PlanFrozen, TwoGenerations, ForwardHost, RestoreHost, RestoreSteps
<1> QED BY <1>1, <1>2 DEF TransactionInv

\* A journal write that fails ends the runner, written or not.
LEMMA RecordFailsStep ==
  ASSUME TransactionInv, RecordFails
  PROVE  TransactionInv'
<1> USE DEF RecordFails
<1>1. /\ pc' \in {"idle", "down"} /\ mem' \in Memory /\ ioFailed' \in BOOLEAN
      /\ faults' \in 0 .. MaxFaults /\ containers' = containers /\ files' = files
      /\ enrolled' = enrolled /\ cred' \in BOOLEAN
  BY TransactionAssumption DEF TransactionInv, TransactionTypeOK, hostVars
<1>2. CASE Transition(This, pc)
  <2>1. This > 0
    BY DEF TransactionInv, STATES, TERMINAL, ForwardOf
  <2>2. jobs' \in Seq(Job) /\ Valid(jobs)'
    BY <1>2, <2>1, ActiveTransition
  <2> QED BY <1>1, <1>2, <2>2, RecordTruthful, RunnerGone
<1>3. CASE UNCHANGED jobs
  BY <1>1, <1>3, HostRests, RunnerGone DEF JournalTypeOK
<1> QED BY <1>2, <1>3

\* The process dies: what the journal last said of the host is still true.
LEMMA CrashStep ==
  ASSUME TransactionInv, Crash
  PROVE  TransactionInv'
<1> USE DEF Crash
<1>1. NoPlan(FirstEnrollment) \in Memory
  BY TransactionAssumption, JournalAssumption DEF NoPlan, FirstEnrollment, Memory, Enrollment, Cids, Gens
<1>2. /\ pc' \in {"idle", "down"} /\ mem' \in Memory /\ ioFailed' \in BOOLEAN
      /\ faults' \in 0 .. MaxFaults /\ containers' = containers /\ files' = files
      /\ enrolled' = enrolled /\ cred' \in BOOLEAN
  <2>1. faults' \in 0 .. MaxFaults
    BY TransactionAssumption DEF TransactionInv, TransactionTypeOK
  <2> QED BY <1>1, <2>1 DEF TransactionInv, TransactionTypeOK, hostVars
<1> QED BY <1>2, HostRests, RunnerGone DEF JournalTypeOK

\* recover_interrupted(): the interrupted job is the last one; it is closed as
\* failed only if its state says that nothing was touched.
LEMMA RestartStep ==
  ASSUME TransactionInv, Restart \/ RestartFails
  PROVE  TransactionInv'
<1> USE DEF Restart, RestartFails
<1>1. /\ pc' \in {"idle", "down"} /\ mem' \in Memory /\ ioFailed' \in BOOLEAN
      /\ faults' \in 0 .. MaxFaults /\ containers' = containers /\ files' = files
      /\ enrolled' = enrolled /\ cred' \in BOOLEAN /\ UNCHANGED hostVars
  BY TransactionAssumption DEF TransactionInv, TransactionTypeOK, hostVars
<1>2. CASE UNCHANGED jobs
  BY <1>1, <1>2, HostRests, RunnerGone DEF JournalTypeOK
<1>3. CASE Recover
  <2>1. PICK k \in DOMAIN jobs : /\ jobs[k].state \notin TERMINAL
                                 /\ Transition(k, RecoveryState(jobs[k].state))
    BY <1>3 DEF Recover
  <2>2. k = This
    BY <2>1 DEF TransactionInv, Valid, Open, This
  <2> DEFINE s == RecoveryState(Said)
  <2>3. s \in STATES /\ Transition(This, s) /\ Said \notin TERMINAL
    BY <2>1, <2>2 DEF Said, RecoveryState, STATES, TERMINAL
  <2>4. This > 0 /\ This \in Nat /\ This <= MaxJobs /\ MaxJobs \in Nat /\ Said \in STATES
    <3>1. jobs \in Seq(Job)
      BY DEF TransactionInv, TransactionTypeOK, JournalTypeOK
    <3>2. This > 0
      BY <2>2, <3>1
    <3> QED BY <3>2, ActiveJob
  <2>5. /\ jobs' \in Seq(Job) /\ Valid(jobs)' /\ This' = This /\ Said' = s
    BY <2>3, <2>4, ActiveTransition
  <2>6. CandidateImage' /\ OneGeneration' /\ CredentialsKept'
    BY <1>1, <2>5 DEF TransactionInv, CandidateImage, OneGeneration, CredentialsKept,
       Running, Candidate, hostVars
  <2>7. CASE Said \in Unchanged
    <3>1. s = "FAILED"
      BY <2>7 DEF RecoveryState, Unchanged
    <3>2. Whole' /\ Older(enrolled, This + 1)'
      BY <1>1, <2>4, <2>5, <2>7 DEF TransactionInv, TransactionTypeOK, Truthful, Whole,
         Inspected, RunsOnly, Running, Older, Enrollment, Cids, Gens
    <3>3. Truthful'
      BY <2>4, <2>5, <3>1, <3>2 DEF Truthful, Unchanged, BEFORE_CUTOVER, Finished
    <3> QED BY <1>1, <2>5, <2>6, <3>3, RunnerGone
  <2>8. CASE Said \notin Unchanged
    <3>1. s = "MANUAL_ACTION_REQUIRED"
      BY <2>8 DEF RecoveryState, Unchanged
    <3>2. Truthful'
      BY <2>4, <2>5, <3>1 DEF Truthful, Unchanged, BEFORE_CUTOVER, Finished
    <3> QED BY <1>1, <2>5, <2>6, <3>2, RunnerGone
  <2> QED BY <2>7, <2>8
<1> QED BY <1>2, <1>3

\* A new job is reserved on a whole host: its candidate cannot be running yet.
LEMMA BeginKeeps ==
  ASSUME TransactionInv, NEW id \in Ids, NEW t \in Versions, NEW c \in Versions,
         Begin(id, t, c), cred' = FALSE,
         containers' = containers, files' = files, enrolled' = enrolled
  PROVE  /\ Truthful' /\ CandidateImage' /\ OneGeneration' /\ CredentialsKept'
         /\ jobs' \in Seq(Job) /\ Valid(jobs)' /\ This' > 0 /\ Said' = "REQUESTED"
<1>1. /\ This \in Nat /\ This <= MaxJobs /\ MaxJobs \in Nat
      /\ This > 0 => This \in DOMAIN jobs /\ Said \in STATES
  BY ActiveJob
<1>2. jobs \in Seq(Job) /\ enrolled \in Enrollment
  BY DEF TransactionInv, TransactionTypeOK, JournalTypeOK
<1>3. NewJob(id, t, c) \in Job /\ NewJob(id, t, c).state = "REQUESTED"
  BY DEF NewJob, Job, STATES, ForwardOf
<1>4. jobs' = Append(jobs, NewJob(id, t, c)) /\ This < MaxJobs
  BY DEF Begin, MayBegin, This
<1>5. jobs' \in Seq(Job) /\ This' = This + 1 /\ Said' = "REQUESTED"
  BY <1>2, <1>3, <1>4 DEF This, Said
<1>6. Valid(jobs)'
  BY <1>4 DEF Begin
<1>7. This > 0 => Said \in Finished
  BY <1>1 DEF Begin, MayBegin, Open, Said, Finished, TERMINAL
<1>8. Whole /\ Older(enrolled, This + 1)
  BY <1>1, <1>7 DEF TransactionInv, Truthful
<1>9. Truthful'
  BY <1>1, <1>5, <1>8 DEF Truthful, Whole, Inspected, RunsOnly, Running, Older, Finished
<1>10. CandidateImage'
  BY <1>1, <1>2, <1>4, <1>5, <1>8 DEF CandidateImage, Whole, RunsOnly, Running, Older, Cids, Enrollment, Gens
<1>11. OneGeneration' /\ CredentialsKept'
  BY DEF TransactionInv, OneGeneration, CredentialsKept, Running
<1> QED BY <1>1, <1>5, <1>6, <1>9, <1>10, <1>11

\* A request, accepted durably or lost in a failing write.
LEMMA SubmitStep ==
  ASSUME TransactionInv, NEW id \in Ids, NEW t \in Versions, NEW c \in Versions,
         Submit(id, t, c) \/ SubmitFails(id, t, c)
  PROVE  TransactionInv'
<1>1. CASE Submit(id, t, c)
  <2>1. /\ Begin(id, t, c) /\ cred' = FALSE /\ pc' = "check1" /\ mem' = mem
        /\ ioFailed' = ioFailed /\ containers' = containers /\ files' = files
        /\ enrolled' = enrolled /\ faults' = faults
    BY <1>1 DEF Submit
  <2>2. /\ Truthful' /\ CandidateImage' /\ OneGeneration' /\ CredentialsKept'
        /\ jobs' \in Seq(Job) /\ Valid(jobs)' /\ This' > 0 /\ Said' = "REQUESTED"
    BY <2>1, BeginKeeps
  <2>3. TransactionTypeOK'
    BY <2>1, <2>2 DEF TransactionInv, TransactionTypeOK, JournalTypeOK, ForwardSteps
  <2>4. DurableAt' /\ PlanFrozen' /\ TwoGenerations' /\ ForwardHost' /\ RestoreHost'
    BY <2>1, <2>2 DEF DurableAt, PlanFrozen, TwoGenerations, ForwardHost, RestoreHost,
       RestoreSteps, Unchanged, BEFORE_CUTOVER
  <2> QED BY <2>2, <2>3, <2>4 DEF TransactionInv
<1>2. CASE SubmitFails(id, t, c)
  <2>1. /\ pc' \in {"idle", "down"} /\ mem' \in Memory /\ ioFailed' \in BOOLEAN
        /\ faults' \in 0 .. MaxFaults /\ containers' = containers /\ files' = files
        /\ enrolled' = enrolled /\ cred' \in BOOLEAN
    <3>1. faults' \in 0 .. MaxFaults
      BY <1>2, TransactionAssumption DEF SubmitFails, TransactionInv, TransactionTypeOK
    <3>2. cred' \in BOOLEAN
      BY <1>2 DEF SubmitFails, TransactionInv, TransactionTypeOK
    <3> QED BY <1>2, <3>1, <3>2 DEF SubmitFails, TransactionInv, TransactionTypeOK
  <2>2. CASE Begin(id, t, c) /\ cred' = FALSE
    BY <2>1, <2>2, BeginKeeps, RunnerGone
  <2>3. CASE UNCHANGED <<jobs, cred>>
    <3>1. UNCHANGED <<jobs, hostVars>>
      BY <2>1, <2>3 DEF hostVars
    <3> QED BY <2>1, <3>1, HostRests, RunnerGone DEF JournalTypeOK
  <2> QED BY <1>2, <2>2, <2>3 DEF SubmitFails
<1> QED BY <1>1, <1>2

\* The administrator acts on a running candidate: its data are the live ones.
LEMMA ChangeCredentialsStep ==
  ASSUME TransactionInv, ChangeCredentials
  PROVE  TransactionInv'
<1> USE DEF ChangeCredentials
<1>1. /\ jobs' = jobs /\ pc' = pc /\ mem' = mem /\ containers' = containers
      /\ files' = files /\ enrolled' = enrolled /\ cred' = TRUE
      /\ ioFailed' = ioFailed /\ faults' = faults
  OBVIOUS
<1>2. /\ This' = This /\ Said' = Said /\ jobs[This]' = jobs[This]
      /\ Valid(jobs)' /\ JournalTypeOK' /\ PromisedVersion' = PromisedVersion
  BY JournalRests
<1>3. This \in Cids /\ Data \in Entries
  BY ActiveJob, TransactionAssumption DEF Cids
<1>4. files[Data] = This
  BY <1>3 DEF TransactionInv, OneGeneration, CandidateImage, Candidate
<1>5. TransactionTypeOK' /\ DurableAt' /\ OneGeneration' /\ CandidateImage' /\ CredentialsKept'
  BY <1>1, <1>2, <1>4 DEF TransactionInv, TransactionTypeOK, DurableAt, OneGeneration,
     CandidateImage, CredentialsKept, Running, Candidate
<1>6. Truthful' /\ PlanFrozen'
  BY <1>1, <1>2 DEF TransactionInv, Truthful, PlanFrozen, Whole, Inspected, RunsOnly,
     Running, Older
<1>7. TwoGenerations' /\ ForwardHost'
  BY <1>1, <1>2 DEF TransactionInv, TwoGenerations, ForwardHost, AllFiles, NoneRuns,
     RunsOnly, Running, Older, LivePolicy, Candidate
<1>8. RestoreHost'
  BY <1>1, <1>2, <1>3 DEF TransactionInv, RestoreHost, AllFiles, NoneRuns, RunsOnly,
     Running, RestoredEnrollment, Candidate
<1> QED BY <1>1, <1>2, <1>5, <1>6, <1>7, <1>8 DEF TransactionInv

\* Nothing happens.
LEMMA StutterStep ==
  ASSUME TransactionInv, UNCHANGED tvars
  PROVE  TransactionInv'
<1>1. /\ jobs' = jobs /\ pc' = pc /\ mem' = mem /\ containers' = containers
      /\ files' = files /\ enrolled' = enrolled /\ cred' = cred
      /\ ioFailed' = ioFailed /\ faults' = faults
  BY DEF tvars
<1>2. /\ This' = This /\ Said' = Said /\ jobs[This]' = jobs[This] /\ JournalTypeOK'
  BY <1>1, JournalRests
<1>3. Valid(jobs)' /\ Truthful' /\ CandidateImage' /\ OneGeneration' /\ CredentialsKept'
  BY <1>1, HostRests DEF hostVars
<1>4. TransactionTypeOK' /\ DurableAt' /\ PlanFrozen'
  BY <1>1, <1>2 DEF TransactionInv, TransactionTypeOK, DurableAt, PlanFrozen, Whole,
     Inspected, RunsOnly, Running, Older
<1>5. TwoGenerations' /\ ForwardHost' /\ RestoreHost'
  BY <1>1, <1>2 DEF TransactionInv, TwoGenerations, ForwardHost, RestoreHost, AllFiles,
     NoneRuns, RunsOnly, Running, Older, LivePolicy, RestoredEnrollment, Candidate
<1> QED BY <1>1, <1>2, <1>3, <1>4, <1>5 DEF TransactionInv

\* The inductive invariant holds of every step of the helper, of the faults and
\* of the administrator.
THEOREM TransactionInvariant == Spec => []TransactionInv
<1>1. Init => TransactionInv
  <2> SUFFICES ASSUME Init PROVE TransactionInv
    OBVIOUS
  <2> USE DEF Init, JournalInit
  <2>1. This = 0 /\ MaxJobs \in Nat \ {0} /\ 0 \in Cids /\ 0 \in Gens
    BY JournalAssumption DEF This, Cids, Gens
  <2>2. TransactionTypeOK
    <3>1. mem \in Memory /\ enrolled \in Enrollment
      BY <2>1, TransactionAssumption DEF NoPlan, FirstEnrollment, Memory, Enrollment
    <3>2. containers \in [Cids -> Container]
      BY <2>1 DEF Container
    <3>3. files \in [Entries -> Gens] /\ faults \in 0 .. MaxFaults
      BY <2>1, TransactionAssumption
    <3>4. jobs \in Seq(Job)
      OBVIOUS
    <3> QED BY <3>1, <3>2, <3>3, <3>4 DEF TransactionTypeOK, JournalTypeOK
  <2>3. Whole /\ Older(enrolled, 1)
    BY <2>1 DEF Whole, Inspected, RunsOnly, Running, Older, FirstEnrollment
  <2>4. Valid(jobs)
    BY <2>1 DEF Valid
  <2>5. Truthful /\ CandidateImage /\ CredentialsKept
    BY <2>1, <2>3 DEF Truthful, CandidateImage, CredentialsKept
  <2>6. OneGeneration
    BY <2>1 DEF OneGeneration, Running
  <2>7. DurableAt /\ PlanFrozen /\ TwoGenerations /\ ForwardHost /\ RestoreHost
    BY DEF DurableAt, PlanFrozen, TwoGenerations, ForwardHost, RestoreHost, RestoreSteps
  <2> QED BY <2>2, <2>4, <2>5, <2>6, <2>7 DEF TransactionInv
<1>2. TransactionInv /\ [Next]_tvars => TransactionInv'
  <2> SUFFICES ASSUME TransactionInv, [Next]_tvars PROVE TransactionInv'
    OBVIOUS
  <2>1. CASE UNCHANGED tvars
    BY <2>1, StutterStep
  <2>2. CASE \E id \in Ids, t, c \in Versions : Submit(id, t, c) \/ SubmitFails(id, t, c)
    BY <2>2, SubmitStep
  <2>3. CASE RunnerStep
    BY <2>3, RecordStep, LookStep, Check1Step, StopOriginalStep, PrepareCutoverStep,
       ExchangeEntryStep, CreateCandidateStep, StartCandidateStep, EnrollCandidateStep,
       RemoveOriginalStep, StopCandidateStep, ReverseEntryStep, RecreateOriginalStep,
       EnrollOriginalStep, StartOriginalStep, RemoveCandidateStep DEF RunnerStep
  <2>4. CASE RecordFails \/ Crash \/ Restart \/ RestartFails \/ ChangeCredentials
    BY <2>4, RecordFailsStep, CrashStep, RestartStep, ChangeCredentialsStep
  <2> QED BY <2>1, <2>2, <2>3, <2>4 DEF Next
<1> QED BY <1>1, <1>2, PTL DEF Spec

\* transaction.py, _run(): for any number of jobs, entries and faults, whenever
\* the journal says untouched, failed early, restored or complete, the enrolled
\* container runs alone over one generation, at the promised version.
THEOREM JournalTruthfulHolds == Spec => []JournalTruthful
<1>1. TransactionInv => JournalTruthful
  <2> SUFFICES ASSUME TransactionInv,
                      \/ This = 0
                      \/ Said \in BEFORE_CUTOVER \cup {"COMPLETE", "RESTORED", "FAILED"}
               PROVE  /\ Whole
                      /\ This > 0 /\ Said \in {"COMPLETE", "RESTORED"}
                           => enrolled.ver = PromisedVersion
    BY DEF JournalTruthful, Whole, RunsOnly, Said
  <2>1. This = 0 \/ This > 0
    BY ActiveJob
  <2> QED BY <2>1 DEF TransactionInv, Truthful, Unchanged, Finished
<1> QED BY <1>1, TransactionInvariant, PTL

\* installation_cutover.py: no image ever runs over a mixture of generations,
\* whatever is interrupted, restarted or rolled back.
THEOREM OneGenerationHolds == Spec => []OneGeneration
<1>1. TransactionInv => OneGeneration
  BY DEF TransactionInv
<1> QED BY <1>1, TransactionInvariant, PTL

\* auth_state.py: credentials changed under the candidate are never replaced by
\* the older ones that a rollback would bring back.
THEOREM CredentialsKeptHolds == Spec => []CredentialsKept
<1>1. TransactionInv => CredentialsKept
  BY DEF TransactionInv
<1> QED BY <1>1, TransactionInvariant, PTL

-----------------------------------------------------------------------------
(***************************************************************************)
(* The AirPlay session, for any number of members and of radios somebody   *)
(* else uses.  The invariant says what each place of the foreground knows  *)
(* of the radios, what an acknowledged hold leaves that could still open   *)
(* the gate, and when the journal frees the radios.                        *)
(***************************************************************************)

\* Where nothing has been written yet.
WaitPcs == {"start", "ready", "wait", "capture"}
\* Where the foreground may be.
FgPcs == {"off", "start", "capture", "exchange", "end", "restore", "revolume"}
           \cup WaitScope \cup SourceScope \cup ZoneScope

\* Where an exchange leads.
Thens == {"final", "leave", "loop", "halt", "writes", "guard", "norm", "close", "end"}

\* The records of the foreground, the monitor, a radio and AudioControl.
FgRecord ==
  [pc : FgPcs, op : {"hold", "release"}, then : Thens \cup {"off"}, fresh : BOOLEAN,
   todo : SUBSET Radios, members : SUBSET Members, norm : SUBSET Radios,
   attempted : BOOLEAN, clean : BOOLEAN]

MonRecord ==
  [pc : {"off", "first", "observe", "exchange", "dead"}, op : {"hold", "pulse"},
   then : {"off", "observe", "dead"}]

RadioRecord ==
  [sel : {"standby", "relay", "other"}, vol : {"own", "low"}, zone : BOOLEAN]

AudioRecord ==
  [allowed : BOOLEAN, revoked : BOOLEAN, by : {"none", "fg", "mon"}, sent : BOOLEAN]

\* The variables of the session and of its journal have their types.
PilotTypeOK ==
  /\ up \in {"up", "broken", "down"}
  /\ entry \in {"none", "LIVE", "ENDED", "RECOVERY"}
  /\ stored \in {"none", "LIVE", "ENDED", "RECOVERY"}
  /\ fg \in FgRecord
  /\ mon \in MonRecord
  /\ plan \in {Waiting, Halted} \cup Plans
  /\ stop \in BOOLEAN
  /\ audio \in AudioRecord
  /\ file \in [cmd : {"none", "hold", "release"}, lapsed : BOOLEAN]
  /\ limbo \in {"none", "release"}
  /\ worker \in [pc : {"off", "on", "dead"}, open : BOOLEAN]
  /\ ack \in {"none", "open", "closed"}
  /\ radio \in [Radios -> RadioRecord]
  /\ outside \in SUBSET Radios

\* The radios nobody else has used are as they were.
Clean(rd, out) == \A r \in Radios \ out : rd[r] = Untouched

\* The journal frees the radios only when they are clean.
JournalTrue ==
  /\ stored \in {"none", "ENDED"} => Clean(radio, outside)
  /\ up = "up" => entry = stored
  /\ fg.pc # "off" => stored = "LIVE" /\ up # "down"

\* Where the foreground is, or goes after an exchange.
Place(f) == IF f.pc = "exchange" THEN f.then ELSE f.pc

\* What the foreground knows of the radios: nothing was written before the volumes,
\* attempted is set from the first write on, and the restoration leaves nothing
\* behind but what it has still to do.
PlaceTrue(f, rd, out) ==
  /\ Place(f) \in WaitPcs => Clean(rd, out)
  /\ Place(f) = "final" /\ (f.clean \/ f.pc = "exchange") => Clean(rd, out)
  /\ Place(f) = "end" /\ f.clean => Clean(rd, out)
  /\ Place(f) \in {"volume", "restore"} /\ ~f.attempted => Clean(rd, out)
  /\ Place(f) \in {"select", "playing", "zone", "leave", "revolume"} \cup ZoneScope => f.attempted
  /\ Place(f) \in {"restore", "revolume"} => Clean(rd, out \cup f.todo)

\* Whoever hears the relay has the session's volume.
Bounded(rd, out) ==
  \A r \in Radios \ out :
    rd[Master].sel = "relay" /\ (r = Master \/ rd[r].zone) => rd[r].vol = "low"

\* The gate is open, or opens without another decision of the foreground.
Openable(a, fl, li, w) ==
  w.open \/ fl.cmd = "release" \/ li = "release" \/ a.allowed

\* Where the foreground relies on a closed gate.
QuietPcs == {"start", "ready", "wait", "capture", "volume", "select", "guard", "post"}

\* The exchanges: a hold that was acknowledged leaves nothing that opens the gate.
AudioTrue(f, a, fl, li, w, ak) ==
  /\ ak = "closed" => ~w.open
  /\ a.by = "fg" => f.pc = "exchange" /\ (f.op = "hold" => ~a.allowed)
  /\ f.pc # "off" /\ a.by # "none" /\ a.sent /\ ~a.revoked
       => fl.cmd = IF a.allowed THEN "release" ELSE "hold"
  /\ f.pc # "off" /\ li # "none" => a.revoked
  /\ f.pc = "exchange" /\ f.op = "release" => f.then = "loop"
  /\ f.pc = "exchange" => f.then \in Thens
  /\ f.pc \in QuietPcs => ~Openable(a, fl, li, w)

\* The inductive invariant.
PilotInv ==
  /\ PilotTypeOK
  /\ JournalTrue
  /\ PlaceTrue(fg, radio, outside)
  /\ AudioTrue(fg, audio, file, limbo, worker, ack)
  /\ Openable(audio, file, limbo, worker) => Bounded(radio, outside)
  /\ fg.pc = "exchange" /\ fg.op = "release" => Bounded(radio, outside)

-----------------------------------------------------------------------------
\* A step within a session: the journal says LIVE, so only the session counts.
LEMMA SessionStep ==
  ASSUME PilotInv, PilotTypeOK', UNCHANGED serviceVars, fg.pc # "off",
         PlaceTrue(fg', radio', outside'), AudioTrue(fg', audio', file', limbo', worker', ack'),
         Openable(audio', file', limbo', worker') => Bounded(radio', outside'),
         fg'.pc = "exchange" /\ fg'.op = "release" => Bounded(radio', outside')
  PROVE  PilotInv'
<1>1. stored = "LIVE" /\ up # "down" /\ (up = "up" => entry = stored)
  BY DEF PilotInv, JournalTrue
<1>2. stored' = stored /\ up' = up /\ entry' = entry
  BY DEF serviceVars
<1>3. JournalTrue'
  BY <1>1, <1>2 DEF JournalTrue
<1> QED BY <1>3 DEF PilotInv

\* The foreground as far as the radios and the gate depend on it.
SameFg(f, g) ==
  /\ g.pc = f.pc /\ g.op = f.op /\ g.then = f.then /\ g.todo = f.todo
  /\ g.attempted = f.attempted /\ g.clean = f.clean

\* A step of the monitor, the worker or the files.
LEMMA AudioStep ==
  ASSUME PilotInv, PilotTypeOK', UNCHANGED <<serviceVars, radio, outside>>, SameFg(fg, fg'),
         AudioTrue(fg, audio', file', limbo', worker', ack'),
         Openable(audio', file', limbo', worker') =>
           Openable(audio, file, limbo, worker) \/ Bounded(radio, outside)
  PROVE  PilotInv'
<1>1. /\ radio' = radio /\ outside' = outside
      /\ stored' = stored /\ up' = up /\ entry' = entry
  BY DEF serviceVars
<1>2. JournalTrue'
  BY <1>1 DEF PilotInv, JournalTrue, SameFg
<1>3. Place(fg') = Place(fg)
  BY DEF Place, SameFg
<1>4. PlaceTrue(fg', radio, outside)
  BY <1>3 DEF PilotInv, PlaceTrue, SameFg
<1>5. AudioTrue(fg', audio', file', limbo', worker', ack')
  BY DEF AudioTrue, SameFg
<1>6. /\ Openable(audio', file', limbo', worker') => Bounded(radio, outside)
      /\ fg'.pc = "exchange" /\ fg'.op = "release" => Bounded(radio, outside)
  BY DEF PilotInv, SameFg
<1> QED BY <1>1, <1>2, <1>4, <1>5, <1>6 DEF PilotInv

\* The invariant, part by part.
LEMMA PilotHere ==
  ASSUME PilotInv
  PROVE  /\ PilotTypeOK /\ fg \in FgRecord /\ audio \in AudioRecord
         /\ file \in [cmd : {"none", "hold", "release"}, lapsed : BOOLEAN]
         /\ limbo \in {"none", "release"} /\ ack \in {"none", "open", "closed"}
         /\ worker \in [pc : {"off", "on", "dead"}, open : BOOLEAN]
         /\ radio \in [Radios -> RadioRecord] /\ outside \in SUBSET Radios
         /\ PlaceTrue(fg, radio, outside) /\ AudioTrue(fg, audio, file, limbo, worker, ack)
         /\ Openable(audio, file, limbo, worker) => Bounded(radio, outside)
         /\ fg.pc = "exchange" /\ fg.op = "release" => Bounded(radio, outside)
  BY DEF PilotInv, PilotTypeOK

\* A foreground is like itself.
LEMMA SameFgNow == SameFg(fg, fg)
  BY DEF SameFg

\* An owner that is retired, in an exchange or after it.
LEMMA RevokedRecord ==
  ASSUME PilotInv
  PROVE  /\ Revoked \in AudioRecord /\ Revoked.revoked /\ ~Revoked.allowed
         /\ Revoked.by = audio.by /\ Revoked.sent = audio.sent
         /\ Dropped \in AudioRecord /\ Dropped.revoked /\ ~Dropped.allowed /\ Dropped.by = "none"
  BY PilotHere DEF Revoked, Dropped, AudioRecord

\* What may still be carried out was about to be.
LEMMA AbandonedCommand ==
  ASSUME PilotInv, NEW l \in Abandoned
  PROVE  l \in {"none", "release"} /\ (l = "release" => limbo = "release" \/ audio.allowed)
<1>1. Command \in {"hold", "release"} /\ (Command = "release" => audio.allowed)
  BY DEF Command
<1>2. limbo \in {"none", "release"}
  BY PilotHere
<1> QED BY <1>1, <1>2 DEF Abandoned

\* An exchange of either task that begins, for AudioControl.
LEMMA BeginsRecord ==
  ASSUME PilotInv, NEW task \in {"fg", "mon"}, NEW op \in {"hold", "pulse", "release"},
         Begins(task, op)
  PROVE  /\ audio' \in AudioRecord /\ audio'.by = task /\ ~audio'.sent /\ ~audio'.revoked
         /\ audio'.allowed = IF op = "pulse" THEN audio.allowed ELSE op = "release"
         /\ file' \in [cmd : {"none", "hold", "release"}, lapsed : BOOLEAN]
         /\ file'.cmd = file.cmd /\ limbo' = limbo /\ worker' = worker /\ ack' = ack
         /\ ~audio.revoked
<1> DEFINE al == IF op = "pulse" THEN audio.allowed ELSE op = "release"
<1>1. al \in BOOLEAN
  BY PilotHere DEF AudioRecord
<1>2. audio' = [audio EXCEPT !.by = task, !.sent = FALSE, !.allowed = al]
  BY DEF Begins
<1>3. ~audio.revoked /\ limbo' = limbo /\ worker' = worker /\ ack' = ack
  BY DEF Begins
<1>4. file' = [file EXCEPT !.lapsed = FALSE]
  BY DEF Begins
<1>5. al = IF op = "pulse" THEN audio.allowed ELSE op = "release"
  OBVIOUS
<1> HIDE DEF al
<1>6. /\ audio' \in AudioRecord /\ audio'.by = task /\ audio'.sent = FALSE
      /\ audio'.revoked = audio.revoked /\ audio'.allowed = al
  BY <1>1, <1>2, PilotHere DEF AudioRecord
<1>7. file' \in [cmd : {"none", "hold", "release"}, lapsed : BOOLEAN] /\ file'.cmd = file.cmd
  BY <1>4, PilotHere
<1> QED BY <1>3, <1>5, <1>6, <1>7

\* An answer in time.
LEMMA SucceedsRecord ==
  ASSUME PilotInv, NEW task \in {"fg", "mon"}, Succeeds(task)
  PROVE  /\ audio' \in AudioRecord /\ audio'.by = "none" /\ audio'.revoked = FALSE
         /\ audio'.allowed = audio.allowed /\ audio.by = task /\ ~audio.revoked
         /\ audio.sent /\ (audio.allowed \/ ack = "closed")
         /\ file' = file /\ limbo' = limbo /\ worker' = worker /\ ack' = ack
<1>1. audio' = [audio EXCEPT !.by = "none", !.sent = FALSE]
  BY DEF Succeeds
<1>2. /\ audio' \in AudioRecord /\ audio'.by = "none" /\ audio'.revoked = audio.revoked
      /\ audio'.allowed = audio.allowed
  BY <1>1, PilotHere DEF AudioRecord
<1>3. audio.revoked \in BOOLEAN
  BY PilotHere DEF AudioRecord
<1> QED BY <1>2, <1>3 DEF Succeeds, Acked

\* A gate that nothing opens stays so when the owner is retired.
LEMMA RetiredTrue ==
  ASSUME PilotInv, NEW f, AudioTrue(f, audio, file, limbo, worker, ack),
         NEW a \in {Revoked, Dropped}, NEW l \in Abandoned \cup {limbo}, a = Revoked => audio.by # "fg"
  PROVE  /\ AudioTrue(f, a, file, l, worker, ack)
         /\ Openable(a, file, l, worker) => Openable(audio, file, limbo, worker)
<1>1. /\ a.revoked /\ ~a.allowed /\ (a.by = audio.by \/ a.by = "none") /\ a.by # "fg"
  BY RevokedRecord
<1>2. l = "release" => limbo = "release" \/ audio.allowed
  BY AbandonedCommand
<1>3. Openable(a, file, l, worker) => Openable(audio, file, limbo, worker)
  BY <1>1, <1>2 DEF Openable
<1> QED BY <1>1, <1>3 DEF AudioTrue

-----------------------------------------------------------------------------
\* The relay worker and the files.
LEMMA WorkerStep ==
  ASSUME PilotInv, Worker
  PROVE  PilotInv'
<1>1. UNCHANGED <<serviceVars, fg, mon, plan, stop, audio, file, limbo, radio, outside>>
  BY DEF Worker, WorkerStarts, WorkerTurns, Environment
<1>2. /\ worker' \in [pc : {"off", "on", "dead"}, open : BOOLEAN] /\ ack' \in {"none", "open", "closed"}
      /\ ack' = "closed" => ~worker'.open
      /\ worker'.open => worker.open \/ file.cmd = "release"
  <2>1. CASE WorkerStarts
    <3>1. worker' = [pc |-> "on", open |-> FALSE] /\ ack' = ack
      BY <2>1 DEF WorkerStarts, NoWorker
    <3> QED BY <3>1, PilotHere
  <2>2. CASE \E open \in {FALSE, file.cmd = "release"} :
               worker' = [worker EXCEPT !.open = open] /\ ack' = IF open THEN "open" ELSE "closed"
    <3>1. PICK open \in {FALSE, file.cmd = "release"} :
            worker' = [worker EXCEPT !.open = open] /\ ack' = IF open THEN "open" ELSE "closed"
      BY <2>2
    <3>2. open \in BOOLEAN /\ (open => file.cmd = "release")
      BY <3>1
    <3>3. worker' \in [pc : {"off", "on", "dead"}, open : BOOLEAN] /\ worker'.open = open
      BY <3>1, <3>2, PilotHere
    <3> QED BY <3>1, <3>2, <3>3
  <2>3. CASE worker' = [pc |-> "dead", open |-> FALSE] /\ ack' = ack
    BY <2>3, PilotHere
  <2> QED BY <2>1, <2>2, <2>3 DEF Worker, WorkerTurns
<1>3. PilotTypeOK'
  BY <1>1, <1>2, PilotHere DEF PilotTypeOK, serviceVars
<1>4. Openable(audio, file, limbo, worker') => Openable(audio, file, limbo, worker)
  BY <1>2 DEF Openable
<1>5. AudioTrue(fg, audio, file, limbo, worker', ack')
  BY <1>2, <1>4, PilotHere DEF AudioTrue
<1>6. fg' = fg /\ audio' = audio /\ file' = file /\ limbo' = limbo /\ SameFg(fg, fg')
  BY <1>1 DEF SameFg
<1> QED BY <1>1, <1>3, <1>4, <1>5, <1>6, AudioStep

\* The command of the exchange is published.
LEMMA PublishedStep ==
  ASSUME PilotInv, Published
  PROVE  PilotInv'
<1>1. /\ UNCHANGED <<serviceVars, fg, mon, plan, stop, limbo, radio, outside>>
      /\ worker' = worker /\ ack' = "none" /\ audio.by # "none" /\ ~audio.sent
      /\ file' = [file EXCEPT !.cmd = Command] /\ audio' = [audio EXCEPT !.sent = TRUE]
  BY DEF Published, Put
<1>2. Command \in {"hold", "release"} /\ Command = IF audio.allowed THEN "release" ELSE "hold"
  BY DEF Command
<1>3. /\ file' \in [cmd : {"none", "hold", "release"}, lapsed : BOOLEAN] /\ file'.cmd = Command
      /\ audio' \in AudioRecord /\ audio'.by = audio.by /\ audio'.allowed = audio.allowed
      /\ audio'.revoked = audio.revoked
  BY <1>1, <1>2, PilotHere DEF AudioRecord
<1>4. PilotTypeOK'
  BY <1>1, <1>3, PilotHere DEF PilotTypeOK, serviceVars
<1>5. Openable(audio', file', limbo, worker) => Openable(audio, file, limbo, worker)
  BY <1>2, <1>3 DEF Openable
<1>6. AudioTrue(fg, audio', file', limbo, worker, ack')
  BY <1>1, <1>2, <1>3, <1>5, PilotHere DEF AudioTrue
<1>7. limbo' = limbo /\ worker' = worker /\ SameFg(fg, fg')
  BY <1>1 DEF SameFg
<1> QED BY <1>1, <1>4, <1>5, <1>6, <1>7, AudioStep

\* A command nobody waits for any more is published.
LEMMA PublishedLateStep ==
  ASSUME PilotInv, PublishedLate
  PROVE  PilotInv'
<1>1. /\ UNCHANGED <<serviceVars, fg, mon, plan, stop, audio, radio, outside>>
      /\ worker' = worker /\ ack' = "none" /\ limbo # "none" /\ limbo' = "none"
      /\ file' = [file EXCEPT !.cmd = limbo]
  BY DEF PublishedLate, Put
<1>2. limbo = "release"
  BY <1>1, PilotHere
<1>3. file' \in [cmd : {"none", "hold", "release"}, lapsed : BOOLEAN]
  BY <1>1, <1>2, PilotHere
<1>4. PilotTypeOK'
  BY <1>1, <1>3, PilotHere DEF PilotTypeOK, serviceVars
<1>5. Openable(audio, file, limbo, worker)
  BY <1>2 DEF Openable
<1>6. AudioTrue(fg, audio, file', limbo', worker, ack')
  BY <1>1, <1>5, PilotHere DEF AudioTrue
<1>7. audio' = audio /\ worker' = worker /\ SameFg(fg, fg')
  BY <1>1 DEF SameFg
<1> QED BY <1>1, <1>4, <1>5, <1>6, <1>7, AudioStep

\* The last command lapses.
LEMMA LapseStep ==
  ASSUME PilotInv, Lapse
  PROVE  PilotInv'
<1>1. /\ UNCHANGED <<serviceVars, fg, mon, plan, stop, audio, limbo, worker, ack, radio, outside>>
      /\ file' = [file EXCEPT !.lapsed = TRUE]
  BY DEF Lapse
<1>2. file' \in [cmd : {"none", "hold", "release"}, lapsed : BOOLEAN] /\ file'.cmd = file.cmd
  BY <1>1, PilotHere
<1>3. PilotTypeOK'
  BY <1>1, <1>2, PilotHere DEF PilotTypeOK, serviceVars
<1>4. Openable(audio, file', limbo, worker) <=> Openable(audio, file, limbo, worker)
  BY <1>2 DEF Openable
<1>5. AudioTrue(fg, audio, file', limbo, worker, ack)
  BY <1>2, <1>4, PilotHere DEF AudioTrue
<1>6. /\ audio' = audio /\ limbo' = limbo /\ worker' = worker /\ ack' = ack /\ SameFg(fg, fg')
  BY <1>1 DEF SameFg
<1> QED BY <1>1, <1>3, <1>4, <1>5, <1>6, AudioStep

-----------------------------------------------------------------------------
\* The records of the monitor.
LEMMA MonRecords ==
  /\ NoMon \in MonRecord /\ Dead \in MonRecord /\ [NoMon EXCEPT !.pc = "observe"] \in MonRecord
  /\ [NoMon EXCEPT !.pc = "first"] \in MonRecord
  /\ \A op \in {"hold", "pulse"}, then \in {"observe", "dead"} : Exchange(op, then) \in MonRecord
  BY DEF NoMon, Dead, Exchange, MonRecord

\* The monitor observes, or gives up.
LEMMA MonitorPlansStep ==
  ASSUME PilotInv, MonitorObserves \/ MonitorLoses
  PROVE  PilotInv'
<1>1. UNCHANGED <<serviceVars, stop, radio, outside>> /\ UNCHANGED audioVars
  BY DEF MonitorObserves, MonitorLoses
<1>2. /\ mon' \in MonRecord /\ plan' \in {Waiting, Halted} \cup Plans
      /\ fg' \in FgRecord /\ SameFg(fg, fg')
  <2>1. CASE MonitorLoses
    <3>1. mon' \in MonRecord /\ plan' = plan /\ fg' = fg
      BY <2>1, MonRecords DEF MonitorLoses
    <3> QED BY <3>1, PilotHere, SameFgNow DEF PilotTypeOK
  <2>2. CASE MonitorObserves
    <3>1. PICK new \in Successors :
            /\ plan' = new /\ fg' = [fg EXCEPT !.fresh = @ /\ new = plan]
            /\ mon' = Exchange(IF mon.pc = "first" \/ new # plan \/ stop THEN "hold" ELSE "pulse",
                               "observe")
      BY <2>2 DEF MonitorObserves
    <3>2. mon' \in MonRecord
      BY <3>1, MonRecords
    <3>3. plan' \in {Waiting, Halted} \cup Plans
      <4>1. plan \in {Waiting, Halted} \cup Plans
        BY PilotHere DEF PilotTypeOK
      <4>2. \A p \in Plans : p.status = "ACTIVE"
        BY DEF Plans
      <4>3. Waiting.status = "WAITING" /\ Halted.status = "STOPPED"
        BY DEF Waiting, Halted
      <4>4. new \in {Waiting, Halted, plan} \cup Plans
        <5>1. CASE mon.pc = "first"
          BY <3>1, <5>1 DEF Successors
        <5>2. CASE mon.pc # "first" /\ plan.status = "WAITING"
          BY <3>1, <5>2 DEF Successors
        <5>3. CASE mon.pc # "first" /\ plan.status = "ACTIVE"
          BY <3>1, <5>3 DEF Successors
        <5>4. CASE mon.pc # "first" /\ plan.status \notin {"WAITING", "ACTIVE"}
          BY <3>1, <5>4 DEF Successors
        <5> QED BY <5>1, <5>2, <5>3, <5>4
      <4> QED BY <3>1, <4>1, <4>4
    <3>4. fg' \in FgRecord /\ SameFg(fg, fg')
      <4> DEFINE b == fg.fresh /\ new = plan
      <4>1. b \in BOOLEAN /\ fg' = [fg EXCEPT !.fresh = b]
        BY <3>1
      <4> HIDE DEF b
      <4>2. fg' \in FgRecord
        BY <4>1, PilotHere DEF FgRecord
      <4>3. SameFg(fg, fg')
        BY <4>1, PilotHere DEF FgRecord, SameFg
      <4> QED BY <4>2, <4>3
    <3> QED BY <3>2, <3>3, <3>4
  <2> QED BY <2>1, <2>2
<1>3. audio' = audio /\ file' = file /\ limbo' = limbo /\ worker' = worker /\ ack' = ack
  BY <1>1 DEF audioVars
<1>4. PilotTypeOK'
  BY <1>1, <1>2, <1>3, PilotHere DEF PilotTypeOK, serviceVars, MonRecord
<1> QED BY <1>1, <1>2, <1>3, <1>4, PilotHere, AudioStep

\* A step in which only the exchange moves.
LEMMA ExchangeStep ==
  ASSUME PilotInv, UNCHANGED <<serviceVars, fg, plan, stop, radio, outside>>,
         mon' \in MonRecord, audio' \in AudioRecord,
         file' \in [cmd : {"none", "hold", "release"}, lapsed : BOOLEAN],
         limbo' \in {"none", "release"}, worker' = worker, ack' = ack,
         AudioTrue(fg, audio', file', limbo', worker, ack),
         Openable(audio', file', limbo', worker) =>
           Openable(audio, file, limbo, worker) \/ Bounded(radio, outside)
  PROVE  PilotInv'
<1>1. fg' = fg /\ SameFg(fg, fg')
  BY DEF SameFg
<1>2. PilotTypeOK'
  BY <1>1, PilotHere DEF PilotTypeOK, serviceVars, MonRecord
<1> QED BY <1>1, <1>2, AudioStep

\* The exchanges of the monitor, the last one included.
LEMMA MonitorExchangesStep ==
  ASSUME PilotInv, MonitorExchanges \/ MonitorRetires
  PROVE  PilotInv'
<1>1. UNCHANGED <<serviceVars, fg, plan, stop, radio, outside>>
  BY DEF MonitorExchanges, MonitorRetires
<1>2. mon \in MonRecord /\ mon.op \in {"hold", "pulse"}
  BY PilotHere DEF PilotTypeOK, MonRecord
<1>3. CASE audio.by = "none" /\ Begins("mon", mon.op) /\ UNCHANGED mon
  <2>1. /\ audio' \in AudioRecord /\ audio'.by = "mon" /\ ~audio'.sent /\ ~audio'.revoked
        /\ audio'.allowed => audio.allowed
        /\ file' \in [cmd : {"none", "hold", "release"}, lapsed : BOOLEAN]
        /\ file'.cmd = file.cmd /\ limbo' = limbo /\ worker' = worker /\ ack' = ack
        /\ ~audio.revoked
    BY <1>2, <1>3, BeginsRecord
  <2>2. Openable(audio', file', limbo, worker) => Openable(audio, file, limbo, worker)
    BY <2>1 DEF Openable
  <2>3. AudioTrue(fg, audio', file', limbo, worker, ack)
    BY <2>1, <2>2, PilotHere DEF AudioTrue
  <2> QED BY <1>1, <1>2, <1>3, <2>1, <2>2, <2>3, PilotHere, ExchangeStep
<1>4. CASE audio.by = "none" /\ Refused /\ mon' = Dead
  <2>1. audio' = Revoked /\ UNCHANGED <<file, limbo, worker, ack>>
    BY <1>4 DEF Refused
  <2>2. /\ AudioTrue(fg, Revoked, file, limbo, worker, ack)
        /\ Openable(Revoked, file, limbo, worker) => Openable(audio, file, limbo, worker)
    BY <1>4, PilotHere, RetiredTrue
  <2> QED BY <1>1, <1>4, <2>1, <2>2, MonRecords, PilotHere, RevokedRecord, ExchangeStep
<1>5. CASE Succeeds("mon") /\ mon' = [NoMon EXCEPT !.pc = "observe"]
  <2>1. /\ audio' \in AudioRecord /\ audio'.by = "none" /\ audio'.revoked = FALSE
        /\ audio'.allowed = audio.allowed /\ ~audio.revoked
        /\ file' = file /\ limbo' = limbo /\ worker' = worker /\ ack' = ack
    BY <1>5, SucceedsRecord
  <2>2. Openable(audio', file, limbo, worker) => Openable(audio, file, limbo, worker)
    BY <2>1 DEF Openable
  <2>3. AudioTrue(fg, audio', file, limbo, worker, ack)
    BY <2>1, <2>2, PilotHere DEF AudioTrue
  <2> QED BY <1>1, <1>5, <2>1, <2>2, <2>3, MonRecords, PilotHere, ExchangeStep
<1>6. ASSUME audio' = Dropped, limbo' \in Abandoned \cup {limbo}, UNCHANGED <<file, worker, ack>>,
             mon' = Dead
      PROVE  PilotInv'
  <2>1. /\ AudioTrue(fg, Dropped, file, limbo', worker, ack)
        /\ Openable(Dropped, file, limbo', worker) => Openable(audio, file, limbo, worker)
    <3>1. Dropped # Revoked \/ audio.by # "fg"
      BY RevokedRecord
    <3> QED BY <1>6, <3>1, PilotHere, RetiredTrue
  <2>2. limbo' \in {"none", "release"}
    BY <1>6, AbandonedCommand, PilotHere
  <2> QED BY <1>1, <1>6, <2>1, <2>2, MonRecords, PilotHere, RevokedRecord, ExchangeStep
<1>7. CASE Breaks("mon") /\ mon' = Dead
  BY <1>6, <1>7 DEF Breaks
<1>8. CASE MonitorRetires
  BY <1>6, <1>8 DEF MonitorRetires
<1> QED BY <1>3, <1>4, <1>5, <1>7, <1>8 DEF MonitorExchanges

-----------------------------------------------------------------------------
\* The foreground: the records it moves between.
LEMMA NoFgRecord == NoFg \in FgRecord
  BY DEF NoFg, FgRecord, FgPcs

\* Where every radio may have been written.
Touched == {"select", "playing", "zone", "leave"} \cup ZoneScope

\* There the foreground has only to know that it has written.
LEMMA TouchedTrue ==
  ASSUME NEW f, Place(f) \in Touched, f.attempted, NEW rd, NEW out
  PROVE  PlaceTrue(f, rd, out)
  BY DEF Touched, PlaceTrue, WaitPcs, ZoneScope

\* The end of the restoration.
LEMMA OverRecord ==
  ASSUME NEW c \in BOOLEAN
  PROVE  Over(c) \in FgRecord /\ Over(c).pc = "final" /\ Over(c).clean = c
  BY NoFgRecord DEF Over, FgRecord, FgPcs, WaitScope

\* The beginning of the restoration.
LEMMA ToRestoreRecord ==
  ASSUME fg \in FgRecord
  PROVE  /\ ToRestore \in FgRecord /\ ToRestore.pc = "restore" /\ ToRestore.todo = Radios
         /\ ToRestore.attempted = fg.attempted
<1>1. fg.attempted \in BOOLEAN /\ Radios \in SUBSET Radios /\ "restore" \in FgPcs
  BY DEF FgRecord, FgPcs
<1> QED BY <1>1, NoFgRecord DEF ToRestore, FgRecord

\* Nothing is left outside what the restoration has still to do when it begins.
LEMMA RestoreTrue ==
  ASSUME NEW f, f.pc = "restore", f.todo = Radios, NEW rd, NEW out,
         ~f.attempted => Clean(rd, out)
  PROVE  PlaceTrue(f, rd, out)
<1>1. Clean(rd, out \cup f.todo)
  BY DEF Clean
<1> QED BY <1>1 DEF PlaceTrue, Place, WaitPcs, ZoneScope

\* An exception keeps what is known of the radios.
LEMMA UnwoundTrue ==
  ASSUME PilotInv, fg.pc \notin {"off", "start", "final", "end"}
  PROVE  /\ Unwound(Place(fg)) \in FgRecord
         /\ Unwound(Place(fg)).pc \in {"final", "restore", "end"}
         /\ PlaceTrue(Unwound(Place(fg)), radio, outside)
<1> DEFINE at == Place(fg)
           u == Unwound(at)
<1>1. fg \in FgRecord /\ PlaceTrue(fg, radio, outside) /\ (fg.pc = "exchange" => fg.then \in Thens)
  BY PilotHere DEF AudioTrue
<1>2. CASE at \in WaitScope
  <2>1. u = Over(TRUE)
    BY <1>2 DEF Unwound, WaitScope, SourceScope, ZoneScope
  <2>2. Clean(radio, outside)
    BY <1>1, <1>2 DEF PlaceTrue, Place, WaitScope, WaitPcs
  <2>3. u \in FgRecord /\ u.pc = "final"
    BY <2>1, OverRecord
  <2> HIDE DEF u
  <2>4. PlaceTrue(u, radio, outside)
    BY <2>2, <2>3 DEF PlaceTrue, Place, WaitPcs, ZoneScope
  <2> QED BY <2>3, <2>4 DEF u
<1>3. CASE at \in SourceScope \cup ZoneScope
  <2>1. u = ToRestore
    BY <1>3 DEF Unwound, WaitScope, SourceScope, ZoneScope
  <2>2. ~fg.attempted => Clean(radio, outside)
    BY <1>1, <1>3 DEF PlaceTrue, SourceScope, WaitPcs
  <2>3. u \in FgRecord /\ u.pc = "restore" /\ u.todo = Radios /\ u.attempted = fg.attempted
    BY <1>1, <2>1, ToRestoreRecord
  <2> HIDE DEF u
  <2>4. PlaceTrue(u, radio, outside)
    BY <2>2, <2>3, RestoreTrue
  <2> QED BY <2>3, <2>4 DEF u
<1>4. CASE at \in {"restore", "revolume"}
  <2>1. u = Over(FALSE)
    BY <1>4 DEF Unwound, WaitScope, SourceScope, ZoneScope
  <2>2. u \in FgRecord /\ u.pc = "final" /\ u.clean = FALSE
    BY <2>1, OverRecord
  <2> HIDE DEF u
  <2>3. PlaceTrue(u, radio, outside)
    BY <2>2 DEF PlaceTrue, Place, WaitPcs, ZoneScope
  <2> QED BY <2>2, <2>3 DEF u
<1>5. CASE at = "end"
  <2>1. u = [NoFg EXCEPT !.pc = "end", !.clean = fg.clean]
    BY <1>5 DEF Unwound, WaitScope, SourceScope, ZoneScope
  <2>2. fg.clean \in BOOLEAN /\ "end" \in FgPcs
    BY <1>1 DEF FgRecord, FgPcs
  <2>3. u \in FgRecord /\ u.pc = "end" /\ u.clean = fg.clean
    BY <2>1, <2>2, NoFgRecord DEF FgRecord
  <2> HIDE DEF u
  <2>4. PlaceTrue(u, radio, outside)
    BY <1>1, <1>5, <2>3 DEF PlaceTrue, Place, WaitPcs, ZoneScope
  <2> QED BY <2>3, <2>4 DEF u
<1>6. at \in WaitScope \cup SourceScope \cup ZoneScope \cup {"restore", "revolume", "end"}
  BY <1>1 DEF Place, FgRecord, FgPcs, Thens, WaitScope, SourceScope, ZoneScope
<1> QED BY <1>2, <1>3, <1>4, <1>5, <1>6

\* A step of the foreground that leaves the exchange alone, or retires its owner.
LEMMA FgStep ==
  ASSUME PilotInv, UNCHANGED <<serviceVars, mon, stop, outside, file, limbo, worker, ack>>,
         plan' \in {Waiting, Halted} \cup Plans, radio' \in [Radios -> RadioRecord],
         audio' \in {audio, Revoked}, audio.by # "fg", fg.pc # "off",
         fg' \in FgRecord, PlaceTrue(fg', radio', outside),
         fg'.pc \in QuietPcs => fg.pc \in QuietPcs,
         fg'.pc = "exchange" => fg'.then \in Thens,
         fg'.pc = "exchange" /\ fg'.op = "release" => fg'.then = "loop" /\ Bounded(radio', outside),
         \/ Bounded(radio, outside) => Bounded(radio', outside)
         \/ ~Openable(audio, file, limbo, worker)
  PROVE  PilotInv'
<1>1. /\ audio' \in AudioRecord /\ (audio' = audio \/ (audio'.revoked /\ ~audio'.allowed))
      /\ audio'.by = audio.by
  BY PilotHere, RevokedRecord
<1>2. Openable(audio', file, limbo, worker) => Openable(audio, file, limbo, worker)
  BY <1>1 DEF Openable
<1>3. AudioTrue(fg', audio', file, limbo, worker, ack)
  BY <1>1, <1>2, PilotHere DEF AudioTrue
<1>4. PilotTypeOK'
  BY <1>1, PilotHere DEF PilotTypeOK, serviceVars
<1>5. Openable(audio', file, limbo, worker) => Bounded(radio', outside)
  BY <1>2, PilotHere
<1>6. /\ outside' = outside /\ file' = file /\ limbo' = limbo /\ worker' = worker /\ ack' = ack
  OBVIOUS
<1> QED BY <1>3, <1>4, <1>5, <1>6, SessionStep

\* One that only moves the foreground.
LEMMA FgMoves ==
  ASSUME PilotInv, NEW f \in FgRecord, Step(f), fg.pc \notin {"off", "exchange"},
         PlaceTrue(f, radio, outside),
         f.pc \in QuietPcs => fg.pc \in QuietPcs,
         f.pc = "exchange" => f.then \in Thens,
         f.pc = "exchange" /\ f.op = "release" => f.then = "loop" /\ Bounded(radio, outside)
  PROVE  PilotInv'
<1>1. /\ fg' = f /\ radio' = radio /\ UNCHANGED <<serviceVars, mon, plan, stop, outside>>
      /\ UNCHANGED audioVars
  BY DEF Step, Silent, Foreground
<1>2. UNCHANGED <<audio, file, limbo, worker, ack>>
  BY <1>1 DEF audioVars
<1>3. audio.by # "fg"
  BY PilotHere DEF AudioTrue
<1> QED BY <1>1, <1>2, <1>3, PilotHere, FgStep DEF PilotTypeOK

\* A foreground that asks for an exchange.
LEMMA CallsRecord ==
  ASSUME fg \in FgRecord, NEW op \in {"hold", "release"}, NEW then \in Thens
  PROVE  /\ Calls(op, then) \in FgRecord /\ Calls(op, then).pc = "exchange"
         /\ Calls(op, then).op = op /\ Calls(op, then).then = then
         /\ Calls(op, then).todo = fg.todo /\ Calls(op, then).clean = fg.clean
         /\ Calls(op, then).attempted = fg.attempted /\ Place(Calls(op, then)) = then
<1>1. "exchange" \in FgPcs
  BY DEF FgPcs
<1>2. /\ Calls(op, then) \in FgRecord /\ Calls(op, then).pc = "exchange"
      /\ Calls(op, then).op = op /\ Calls(op, then).then = then
      /\ Calls(op, then).todo = fg.todo /\ Calls(op, then).clean = fg.clean
      /\ Calls(op, then).attempted = fg.attempted
  BY <1>1 DEF Calls, FgRecord
<1> QED BY <1>2 DEF Place

\* A foreground that goes on.
LEMMA GoesRecord ==
  ASSUME fg \in FgRecord, NEW at \in FgPcs \ {"exchange"}
  PROVE  /\ Goes(at) \in FgRecord /\ Goes(at).pc = at /\ Place(Goes(at)) = at
         /\ Goes(at).todo = fg.todo /\ Goes(at).clean = fg.clean
         /\ Goes(at).attempted = fg.attempted
<1>1. /\ Goes(at) \in FgRecord /\ Goes(at).pc = at
      /\ Goes(at).todo = fg.todo /\ Goes(at).clean = fg.clean
      /\ Goes(at).attempted = fg.attempted
  BY DEF Goes, FgRecord
<1> QED BY <1>1 DEF Place

\* The places of the foreground, and where it goes on from a first write.
LEMMA Places ==
  /\ Touched \subseteq FgPcs \ {"off", "exchange"} /\ Thens \subseteq FgPcs \ {"exchange"}
  /\ {"wait", "capture", "volume", "restore", "revolume", "final", "end", "ready"} \subseteq FgPcs
  /\ Touched \cap QuietPcs = {"select", "guard", "post"}
  BY DEF Touched, FgPcs, WaitScope, SourceScope, ZoneScope, Thens, QuietPcs

\* A step of the foreground among these places that writes nothing.
LEMMA FgOnward ==
  ASSUME PilotInv, NEW f \in FgRecord, Step(f), fg.pc \in Touched, f.attempted = fg.attempted,
         Place(f) \in Touched, f.pc \in QuietPcs => fg.pc \in QuietPcs,
         f.pc = "exchange" => f.then \in Thens,
         f.pc = "exchange" /\ f.op = "release" => f.then = "loop" /\ Bounded(radio, outside)
  PROVE  PilotInv'
<1>1. fg.pc \notin {"off", "exchange"} /\ Place(fg) = fg.pc
  BY Places DEF Place
<1>2. fg.attempted
  BY <1>1, PilotHere DEF PlaceTrue, Touched
<1>3. PlaceTrue(f, radio, outside)
  BY <1>2, TouchedTrue
<1> QED BY <1>1, <1>3, FgMoves

\* A hold, and what the foreground does after it.
LEMMA FgHolds ==
  ASSUME PilotInv, fg.pc \in Touched, NEW then \in Thens \cap Touched, Step(Calls("hold", then))
  PROVE  PilotInv'
<1> DEFINE f == Calls("hold", then)
<1>1. /\ f \in FgRecord /\ f.pc = "exchange" /\ f.op = "hold" /\ f.then = then
      /\ f.attempted = fg.attempted /\ Place(f) = then
  BY PilotHere, CallsRecord
<1>2. Step(f)
  OBVIOUS
<1> HIDE DEF f
<1> QED BY <1>1, <1>2, FgOnward DEF QuietPcs

\* It goes on.
LEMMA FgGoes ==
  ASSUME PilotInv, fg.pc \in Touched, NEW at \in Touched, Step(Goes(at)),
         at \in QuietPcs => fg.pc \in QuietPcs
  PROVE  PilotInv'
<1> DEFINE f == Goes(at)
<1>1. /\ f \in FgRecord /\ f.pc = at /\ f.attempted = fg.attempted /\ Place(f) = at
  BY PilotHere, Places, GoesRecord
<1>2. Step(f) /\ at # "exchange"
  BY Places
<1> HIDE DEF f
<1> QED BY <1>1, <1>2, FgOnward

\* A write with its readback.  A failure after the first write is restored, a
\* failure of the restoration is never clean.
LEMMA WritesStep ==
  ASSUME PilotInv, NEW new \in [Radios -> RadioRecord], NEW next \in FgRecord, Writes(new, next),
         fg.pc \in Touched \cup {"volume", "restore", "revolume"},
         PlaceTrue(next, new, outside), next.pc # "exchange",
         next.pc \in QuietPcs => fg.pc \in QuietPcs,
         (Bounded(radio, outside) => Bounded(new, outside)) \/ fg.pc \in QuietPcs
  PROVE  PilotInv'
<1>1. fg.pc \notin {"off", "exchange", "start", "final", "end"} /\ Place(fg) = fg.pc
  BY DEF Touched, ZoneScope, Place
<1>2. audio.by # "fg" /\ fg \in FgRecord /\ radio \in [Radios -> RadioRecord]
  BY <1>1, PilotHere DEF AudioTrue
<1>3. (Bounded(radio, outside) => Bounded(new, outside)) \/ ~Openable(audio, file, limbo, worker)
  BY PilotHere DEF AudioTrue
<1>4. plan \in {Waiting, Halted} \cup Plans
  BY PilotHere DEF PilotTypeOK
<1>5. CASE radio' = new /\ fg' = next /\ Silent
  <2>1. /\ UNCHANGED <<serviceVars, mon, plan, stop, outside>>
        /\ UNCHANGED <<audio, file, limbo, worker, ack>>
    BY <1>5 DEF Silent, Foreground, audioVars
  <2> QED BY <1>1, <1>2, <1>3, <1>4, <1>5, <2>1, FgStep
<1>6. CASE /\ radio' \in {radio, new}
           /\ fg' = [Unwound(fg.pc) EXCEPT !.attempted = @ \/ At("volume")] /\ LeavesZone(fg.pc)
           /\ UNCHANGED <<file, limbo, worker, ack>> /\ Foreground
  <2>1. UNCHANGED <<serviceVars, mon, plan, stop, outside>> /\ audio' \in {audio, Revoked}
    BY <1>6 DEF Foreground, LeavesZone
  <2> DEFINE u == Unwound(fg.pc)
             b == u.attempted \/ At("volume")
  <2>2. u \in FgRecord /\ u.pc \in {"final", "restore", "end"}
    BY <1>1, UnwoundTrue
  <2>3. \/ u.pc = "restore" /\ u.todo = Radios /\ u.attempted = fg.attempted
        \/ u.pc = "final" /\ u.clean = FALSE
    <3>1. CASE fg.pc \in {"restore", "revolume"}
      <4>1. u = Over(FALSE)
        BY <3>1 DEF Unwound, WaitScope, SourceScope, ZoneScope
      <4> QED BY <4>1, OverRecord
    <3>2. CASE fg.pc \in Touched \cup {"volume"}
      <4>1. u = ToRestore
        BY <3>2 DEF Unwound, WaitScope, SourceScope, ZoneScope, Touched
      <4> QED BY <1>2, <4>1, ToRestoreRecord
    <3> QED BY <3>1, <3>2
  <2>4. fg.attempted \/ At("volume") \/ fg.pc = "restore"
    BY <1>1, PilotHere DEF PlaceTrue, Touched, At
  <2>5. fg' = [u EXCEPT !.attempted = b] /\ b \in BOOLEAN /\ (b = (u.attempted \/ At("volume")))
    BY <1>6
  <2> HIDE DEF u, b
  <2>6. /\ fg' \in FgRecord /\ fg'.pc = u.pc /\ fg'.todo = u.todo /\ fg'.clean = u.clean
        /\ fg'.attempted = b
    BY <2>2, <2>5 DEF FgRecord
  <2>7. PlaceTrue(fg', radio', outside)
    <3>1. CASE u.pc = "restore" /\ u.todo = Radios /\ u.attempted = fg.attempted
      <4>1. fg.pc # "restore"
        BY <3>1 DEF u, Unwound, Over, WaitScope, SourceScope, ZoneScope, NoFg
      <4>2. fg'.attempted
        BY <2>4, <2>5, <2>6, <3>1, <4>1
      <4> QED BY <2>6, <3>1, <4>2, RestoreTrue
    <3>2. CASE u.pc = "final" /\ u.clean = FALSE
      BY <2>6, <3>2 DEF PlaceTrue, Place, WaitPcs, ZoneScope
    <3> QED BY <2>3, <3>1, <3>2
  <2>8. fg'.pc \notin QuietPcs /\ fg'.pc # "exchange"
    BY <2>2, <2>6 DEF QuietPcs
  <2> QED BY <1>1, <1>2, <1>3, <1>4, <1>6, <2>1, <2>6, <2>7, <2>8, FgStep
<1> QED BY <1>5, <1>6 DEF Writes

\* One radio's volume or selection is written.
LEMMA VolumeWritten ==
  ASSUME PilotInv, NEW r \in Radios, NEW v \in {"own", "low"}, NEW new,
         new = [radio EXCEPT ![r].vol = v]
  PROVE  /\ new \in [Radios -> RadioRecord] /\ \A e \in Radios : e # r => new[e] = radio[e]
         /\ new[r].vol = v /\ new[r].sel = radio[r].sel /\ new[r].zone = radio[r].zone
<1>1. radio \in [Radios -> RadioRecord] /\ radio[r] \in RadioRecord
  BY PilotHere
<1>2. [radio[r] EXCEPT !.vol = v] \in RadioRecord
  BY <1>1 DEF RadioRecord
<1> QED BY <1>1, <1>2 DEF RadioRecord

\* A selection is written.
LEMMA SelectionWritten ==
  ASSUME PilotInv, NEW r \in Radios, NEW s \in {"standby", "relay"}, NEW new,
         new = [radio EXCEPT ![r].sel = s]
  PROVE  /\ new \in [Radios -> RadioRecord] /\ \A e \in Radios : e # r => new[e] = radio[e]
         /\ new[r].sel = s /\ new[r].vol = radio[r].vol /\ new[r].zone = radio[r].zone
<1>1. radio \in [Radios -> RadioRecord] /\ radio[r] \in RadioRecord
  BY PilotHere
<1>2. [radio[r] EXCEPT !.sel = s] \in RadioRecord
  BY <1>1 DEF RadioRecord
<1> QED BY <1>1, <1>2 DEF RadioRecord

-----------------------------------------------------------------------------
\* The steps before the zone.
LEMMA EarlySteps ==
  ASSUME PilotInv, Ready \/ Waits \/ Captures
  PROVE  PilotInv'
<1>1. fg \in FgRecord /\ PlaceTrue(fg, radio, outside)
  BY PilotHere
<1>2. CASE Ready
  <2> DEFINE f == Goes("wait")
  <2>1. At("ready") /\ Step(f)
    BY <1>2 DEF Ready
  <2>2. f \in FgRecord /\ f.pc = "wait" /\ Place(f) = "wait"
    BY <1>1, Places, GoesRecord
  <2> HIDE DEF f
  <2>3. Clean(radio, outside)
    BY <1>1, <2>1 DEF PlaceTrue, Place, At, WaitPcs
  <2>4. PlaceTrue(f, radio, outside)
    BY <2>2, <2>3 DEF PlaceTrue, WaitPcs, ZoneScope
  <2> QED BY <2>1, <2>2, <2>4, FgMoves DEF At, QuietPcs
<1>3. CASE Waits
  <2>1. At("wait") /\ (Step(Calls("hold", "final")) \/ Step([fg EXCEPT !.pc = "capture", !.fresh = TRUE]))
    BY <1>3 DEF Waits
  <2>2. Clean(radio, outside)
    BY <1>1, <2>1 DEF PlaceTrue, Place, At, WaitPcs
  <2>3. CASE Step(Calls("hold", "final"))
    <3> DEFINE f == Calls("hold", "final")
    <3>1. /\ f \in FgRecord /\ f.pc = "exchange" /\ f.op = "hold" /\ f.then = "final"
          /\ Place(f) = "final" /\ f.then \in Thens
      BY <1>1, CallsRecord DEF Thens
    <3>2. Step(f)
      BY <2>3
    <3> HIDE DEF f
    <3>3. PlaceTrue(f, radio, outside)
      BY <2>2, <3>1 DEF PlaceTrue, WaitPcs, ZoneScope
    <3> QED BY <2>1, <3>1, <3>2, <3>3, FgMoves DEF At, QuietPcs
  <2>4. CASE Step([fg EXCEPT !.pc = "capture", !.fresh = TRUE])
    <3> DEFINE f == [fg EXCEPT !.pc = "capture", !.fresh = TRUE]
    <3>1. f \in FgRecord /\ f.pc = "capture" /\ Step(f)
      BY <1>1, <2>4, Places DEF FgRecord
    <3> HIDE DEF f
    <3>2. PlaceTrue(f, radio, outside)
      BY <2>2, <3>1 DEF PlaceTrue, Place, WaitPcs, ZoneScope
    <3> QED BY <2>1, <3>1, <3>2, FgMoves DEF At, QuietPcs
  <2> QED BY <2>1, <2>3, <2>4
<1>4. CASE Captures
  <2> DEFINE f == [fg EXCEPT !.pc = "volume", !.todo = Radios]
  <2>1. At("capture") /\ Step(f)
    BY <1>4 DEF Captures
  <2>2. f \in FgRecord /\ f.pc = "volume"
    BY <1>1, Places DEF FgRecord
  <2> HIDE DEF f
  <2>3. Clean(radio, outside)
    BY <1>1, <2>1 DEF PlaceTrue, Place, At, WaitPcs
  <2>4. PlaceTrue(f, radio, outside)
    BY <2>2, <2>3 DEF PlaceTrue, Place, WaitPcs, ZoneScope
  <2> QED BY <2>1, <2>2, <2>4, FgMoves DEF At, QuietPcs
<1> QED BY <1>2, <1>3, <1>4

\* The first writes: volumes while every selection is still in standby, and the
\* selection while the gate is held.
LEMMA SetsVolumeStep ==
  ASSUME PilotInv, SetsVolume
  PROVE  PilotInv'
<1>1. fg \in FgRecord /\ At("volume") /\ fg.todo \in SUBSET Radios
  BY PilotHere DEF SetsVolume, FgRecord
<1>2. PICK r \in fg.todo :
        Writes([radio EXCEPT ![r].vol = "low"],
               [fg EXCEPT !.todo = @ \ {r}, !.attempted = TRUE,
                          !.pc = IF fg.todo = {r} THEN "select" ELSE "volume"])
  BY DEF SetsVolume
<1> DEFINE new == [radio EXCEPT ![r].vol = "low"]
           t == fg.todo \ {r}
           at == IF fg.todo = {r} THEN "select" ELSE "volume"
           next == [fg EXCEPT !.todo = t, !.attempted = TRUE, !.pc = at]
<1>3. r \in Radios /\ t \in SUBSET Radios /\ at \in {"select", "volume"} /\ at \in FgPcs
  BY <1>1, Places DEF Touched
<1>4. /\ new \in [Radios -> RadioRecord] /\ \A e \in Radios : e # r => new[e] = radio[e]
      /\ new[r].vol = "low" /\ new[r].sel = radio[r].sel /\ new[r].zone = radio[r].zone
  BY <1>3, VolumeWritten
<1>5. Writes(new, next)
  BY <1>2
<1> HIDE DEF new, t, at
<1>6. next \in FgRecord /\ next.pc = at /\ next.attempted
  BY <1>1, <1>3 DEF FgRecord
<1> HIDE DEF next
<1>7. PlaceTrue(next, new, outside)
  BY <1>3, <1>6 DEF PlaceTrue, Place, WaitPcs, ZoneScope
<1>8. fg.pc \in QuietPcs /\ fg.pc = "volume" /\ next.pc # "exchange"
  BY <1>1, <1>3, <1>6 DEF At, QuietPcs
<1> QED BY <1>4, <1>5, <1>6, <1>7, <1>8, WritesStep

\* The master selects the relay while the gate is closed.
LEMMA SelectsStep ==
  ASSUME PilotInv, Selects
  PROVE  PilotInv'
<1>0. PICK v \in {"low", "own"} :
        Writes([radio EXCEPT ![Master].sel = "relay", ![Master].vol = v], Goes("playing"))
  BY DEF Selects
<1> DEFINE new == [radio EXCEPT ![Master].sel = "relay", ![Master].vol = v]
           next == Goes("playing")
<1>1. At("select") /\ Writes(new, next) /\ fg \in FgRecord /\ PlaceTrue(fg, radio, outside)
  BY <1>0, PilotHere DEF Selects
<1>2. new \in [Radios -> RadioRecord]
  <2>1. radio \in [Radios -> RadioRecord] /\ Master \in Radios /\ radio[Master] \in RadioRecord
    BY PilotHere DEF Radios
  <2>2. [radio[Master] EXCEPT !.sel = "relay", !.vol = v] \in RadioRecord
    BY <2>1 DEF RadioRecord
  <2>3. new = [radio EXCEPT ![Master] = [radio[Master] EXCEPT !.sel = "relay", !.vol = v]]
    BY <2>1
  <2> HIDE DEF new
  <2> QED BY <2>1, <2>2, <2>3
<1>3. "playing" \in Touched
  BY DEF Touched
<1>4. /\ next \in FgRecord /\ next.pc = "playing" /\ Place(next) = "playing"
      /\ next.attempted = fg.attempted
  BY <1>1, <1>3, Places, GoesRecord
<1> HIDE DEF new, next
<1>5. fg.pc = "select" /\ fg.attempted /\ fg.pc \in QuietPcs /\ fg.pc \in Touched
  BY <1>1 DEF At, PlaceTrue, Place, QuietPcs, Touched
<1>6. PlaceTrue(next, new, outside)
  BY <1>3, <1>4, <1>5, TouchedTrue
<1> QED BY <1>1, <1>2, <1>4, <1>5, <1>6, WritesStep

\* Steps that only move on in the zone.
LEMMA ZoneMoves ==
  ASSUME PilotInv, Plays \/ EntersZone \/ Loops \/ PlansWrite \/ Guards
  PROVE  PilotInv'
<1>1. fg \in FgRecord
  BY PilotHere
<1>2. {"playing", "zone", "loop", "apply", "readback", "writes", "guard", "post"} \subseteq Touched
  BY DEF Touched, ZoneScope
<1>3. {"leave", "halt", "guard", "close"} \subseteq Thens \cap Touched
  BY DEF Thens, Touched, ZoneScope
<1>4. CASE Plays
  <2>1. fg.pc = "playing" /\ Step(Goes("zone")) /\ "zone" \notin QuietPcs
    BY <1>4 DEF Plays, At, QuietPcs
  <2> QED BY <1>2, <2>1, FgGoes
<1>5. CASE EntersZone
  <2>1. fg.pc = "zone" /\ (Step(Calls("hold", "leave")) \/ Step([fg EXCEPT !.pc = "loop", !.fresh = FALSE]))
    BY <1>5 DEF EntersZone, At
  <2>2. CASE Step(Calls("hold", "leave"))
    BY <1>2, <1>3, <2>1, <2>2, FgHolds
  <2>3. CASE Step([fg EXCEPT !.pc = "loop", !.fresh = FALSE])
    <3> DEFINE f == [fg EXCEPT !.pc = "loop", !.fresh = FALSE]
    <3>1. "loop" \in FgPcs
      BY <1>2, Places
    <3>2. f \in FgRecord /\ f.pc = "loop" /\ f.attempted = fg.attempted /\ Step(f)
      BY <1>1, <2>3, <3>1 DEF FgRecord
    <3> HIDE DEF f
    <3>3. Place(f) = "loop" /\ "loop" \notin QuietPcs
      BY <3>2 DEF Place, QuietPcs
    <3> QED BY <1>2, <2>1, <3>2, <3>3, FgOnward
  <2> QED BY <2>1, <2>2, <2>3
<1>6. CASE Loops
  <2>1. /\ fg.pc = "loop" /\ {"readback", "apply"} \cap QuietPcs = {}
        /\ Step(Calls("hold", "halt")) \/ Step(Goes("readback")) \/ Step(Goes("apply"))
    BY <1>6 DEF Loops, At, QuietPcs
  <2>2. CASE Step(Calls("hold", "halt"))
    BY <1>2, <1>3, <2>1, <2>2, FgHolds
  <2>3. CASE Step(Goes("readback"))
    BY <1>2, <2>1, <2>3, FgGoes
  <2>4. CASE Step(Goes("apply"))
    BY <1>2, <2>1, <2>4, FgGoes
  <2> QED BY <2>1, <2>2, <2>3, <2>4
<1>7. CASE PlansWrite
  <2>1. /\ fg.pc = "writes" /\ "readback" \notin QuietPcs
        /\ Step(Calls("hold", "guard")) \/ Step(Goes("readback")) \/ Step(Calls("hold", "close"))
    BY <1>7 DEF PlansWrite, At, QuietPcs
  <2>2. CASE Step(Calls("hold", "guard"))
    BY <1>2, <1>3, <2>1, <2>2, FgHolds
  <2>3. CASE Step(Goes("readback"))
    BY <1>2, <2>1, <2>3, FgGoes
  <2>4. CASE Step(Calls("hold", "close"))
    BY <1>2, <1>3, <2>1, <2>4, FgHolds
  <2> QED BY <2>1, <2>2, <2>3, <2>4
<1>8. CASE Guards
  <2>1. fg.pc = "guard" /\ Step(Goes("post")) /\ "guard" \in QuietPcs
    BY <1>8 DEF Guards, At, QuietPcs
  <2> QED BY <1>2, <2>1, FgGoes
<1> QED BY <1>4, <1>5, <1>6, <1>7, <1>8

\* The plan is halted.
LEMMA HaltsStep ==
  ASSUME PilotInv, Halts
  PROVE  PilotInv'
<1> DEFINE f == [fg EXCEPT !.pc = "apply", !.fresh = FALSE]
<1>1. /\ fg.pc = "halt" /\ plan' = Halted /\ fg' = f
      /\ UNCHANGED <<serviceVars, mon, stop, radio, outside>>
      /\ UNCHANGED <<audio, file, limbo, worker, ack>>
  BY DEF Halts, At, audioVars
<1>2. "apply" \in Touched /\ "halt" \in Touched /\ "apply" \in FgPcs
  BY Places DEF Touched, ZoneScope
<1>3. fg \in FgRecord /\ fg.attempted /\ audio.by # "fg" /\ radio \in [Radios -> RadioRecord]
  BY <1>1, <1>2, PilotHere DEF PlaceTrue, Place, Touched, AudioTrue
<1>4. f \in FgRecord /\ f.pc = "apply" /\ f.attempted = fg.attempted
  BY <1>2, <1>3 DEF FgRecord
<1> HIDE DEF f
<1>5. PlaceTrue(f, radio, outside)
  BY <1>2, <1>3, <1>4, TouchedTrue DEF Place
<1> QED BY <1>1, <1>3, <1>4, <1>5, FgStep DEF QuietPcs

\* The plan is applied, or the zone is already as it says.
LEMMA AppliesStep ==
  ASSUME PilotInv, Applies
  PROVE  PilotInv'
<1> DEFINE g == IF plan.status = "ACTIVE" /\ plan.members = fg.members THEN Goes("readback")
                ELSE Calls("hold", "writes")
           f == [g EXCEPT !.fresh = TRUE, !.norm = {}]
<1>1. fg.pc = "apply" /\ Step(f) /\ fg \in FgRecord
  BY PilotHere DEF Applies, At, Step
<1>2. "apply" \in Touched /\ "readback" \in Touched /\ "writes" \in Touched \cap Thens
  BY DEF Touched, ZoneScope, Thens
<1>3. /\ g \in FgRecord /\ g.attempted = fg.attempted
      /\ \/ g.pc = "readback"
         \/ g.pc = "exchange" /\ g.op = "hold" /\ g.then = "writes"
  BY <1>1, <1>2, Places, GoesRecord, CallsRecord
<1> HIDE DEF g
<1>4. f \in FgRecord /\ f.attempted = g.attempted /\ f.pc = g.pc /\ f.op = g.op /\ f.then = g.then
  BY <1>3 DEF FgRecord
<1> HIDE DEF f
<1>5. Place(f) \in Touched
  BY <1>2, <1>3, <1>4 DEF Place
<1> QED BY <1>1, <1>2, <1>3, <1>4, <1>5, FgOnward DEF QuietPcs

\* The zone is written while the gate is held: a radio that joins may be loud.
LEMMA PostsStep ==
  ASSUME PilotInv, Posts
  PROVE  PilotInv'
<1>1. fg.pc = "post" /\ fg \in FgRecord /\ fg.members \in SUBSET Members
  BY PilotHere DEF Posts, At, FgRecord
<1>11. PICK z \in NextZones : \E loud \in SUBSET (z \ fg.members) :
         Writes(Regrouped(z, loud), [fg EXCEPT !.pc = "writes", !.members = z, !.norm = loud])
  BY DEF Posts
<1>2. PICK loud \in SUBSET (z \ fg.members) :
        Writes(Regrouped(z, loud), [fg EXCEPT !.pc = "writes", !.members = z, !.norm = loud])
  BY <1>11
<1>3. z \in SUBSET Members
  <2>1. plan.status = "ACTIVE" => plan.members \in SUBSET Members
    BY PilotHere DEF PilotTypeOK, Waiting, Halted, Plans
  <2> QED BY <1>1, <2>1 DEF NextZones
<1>4. loud \in SUBSET Radios
  BY <1>3 DEF Radios
<1> DEFINE new == Regrouped(z, loud)
           next == [fg EXCEPT !.pc = "writes", !.members = z, !.norm = loud]
<1>5. new \in [Radios -> RadioRecord]
  <2>1. ASSUME NEW r \in Radios, NEW v \in {"own", radio[r].vol}, NEW zn \in BOOLEAN
        PROVE  [radio[r] EXCEPT !.zone = zn, !.vol = v] \in RadioRecord
    <3>1. radio[r] \in RadioRecord
      BY PilotHere
    <3> QED BY <3>1 DEF RadioRecord
  <2>2. ASSUME NEW r \in Radios
        PROVE  [radio[r] EXCEPT !.zone = IF r = Master THEN z # {} ELSE r \in z,
                                !.vol = IF r \in loud THEN "own" ELSE @] \in RadioRecord
    <3> DEFINE v == IF r \in loud THEN "own" ELSE radio[r].vol
               zn == IF r = Master THEN z # {} ELSE r \in z
    <3>1. v \in {"own", radio[r].vol}
      OBVIOUS
    <3>3. zn \in BOOLEAN
      <4>1. (z # {}) \in BOOLEAN /\ (r \in z) \in BOOLEAN
        OBVIOUS
      <4> QED BY <4>1
    <3>2. [radio[r] EXCEPT !.zone = zn, !.vol = v] \in RadioRecord
      BY <2>1, <3>1, <3>3
    <3> QED BY <3>2
  <2> QED BY <2>2 DEF Regrouped
<1>6. Writes(new, next)
  BY <1>2
<1>7. "writes" \in Touched /\ "post" \in Touched /\ "writes" \in FgPcs /\ "post" \in QuietPcs
  BY Places DEF Touched, ZoneScope, QuietPcs
<1> HIDE DEF new
<1>8. next \in FgRecord /\ next.pc = "writes" /\ next.attempted = fg.attempted
  BY <1>1, <1>3, <1>4, <1>7 DEF FgRecord
<1> HIDE DEF next
<1>9. fg.attempted
  BY <1>1, <1>7, PilotHere DEF PlaceTrue, Place, Touched
<1>10. PlaceTrue(next, new, outside)
  BY <1>7, <1>8, <1>9, TouchedTrue DEF Place
<1> QED BY <1>1, <1>5, <1>6, <1>7, <1>8, <1>10, WritesStep

\* A release is asked for only when every radio has the session's volume.
LEMMA ReadsBackStep ==
  ASSUME PilotInv, ReadsBack
  PROVE  PilotInv'
<1>1. fg.pc = "readback" /\ fg \in FgRecord
  BY PilotHere DEF ReadsBack, At
<1>2. "readback" \in Touched /\ {"loop", "norm"} \subseteq Thens \cap Touched
  BY DEF Touched, ZoneScope, Thens
<1> DEFINE rel == Calls(IF stop THEN "hold" ELSE "release", "loop")
<1>3. \/ Step(Calls("hold", "loop")) \/ Step(Calls("hold", "norm"))
      \/ OffVolume = {} /\ Step([rel EXCEPT !.norm = {}])
  <2>1. CASE ~fg.fresh /\ Step(Calls("hold", "loop"))
    BY <2>1
  <2>2. CASE Step(IF OffVolume # {} THEN Calls("hold", "norm") ELSE [rel EXCEPT !.norm = {}])
    <3>1. CASE OffVolume # {}
      BY <2>2, <3>1
    <3>2. CASE OffVolume = {}
      BY <2>2, <3>2
    <3> QED BY <3>1, <3>2
  <2> QED BY <2>1, <2>2 DEF ReadsBack
<1>4. CASE Step(Calls("hold", "loop"))
  BY <1>1, <1>2, <1>4, FgHolds
<1>5. CASE Step(Calls("hold", "norm"))
  BY <1>1, <1>2, <1>5, FgHolds
<1>6. CASE OffVolume = {} /\ Step([rel EXCEPT !.norm = {}])
  <2> DEFINE f == [rel EXCEPT !.norm = {}]
  <2>1. rel \in FgRecord /\ rel.pc = "exchange" /\ rel.then = "loop" /\ rel.attempted = fg.attempted
    <3>1. (IF stop THEN "hold" ELSE "release") \in {"hold", "release"}
      OBVIOUS
    <3> QED BY <1>1, <1>2, <3>1, CallsRecord
  <2> HIDE DEF rel
  <2>2. f \in FgRecord /\ f.pc = "exchange" /\ f.then = "loop" /\ f.attempted = fg.attempted
    BY <2>1 DEF FgRecord
  <2>3. Step(f)
    BY <1>6
  <2> HIDE DEF f
  <2>4. Bounded(radio, outside)
    BY <1>6 DEF OffVolume, Bounded
  <2>5. Place(f) = "loop"
    BY <2>2 DEF Place
  <2> QED BY <1>1, <1>2, <2>2, <2>3, <2>4, <2>5, FgOnward DEF QuietPcs
<1> QED BY <1>3, <1>4, <1>5, <1>6

\* The volume of a radio that has joined is corrected.
LEMMA NormalizesStep ==
  ASSUME PilotInv, Normalizes
  PROVE  PilotInv'
<1>1. fg.pc = "norm" /\ fg \in FgRecord
  BY PilotHere DEF Normalizes, At
<1>2. {"norm", "readback"} \subseteq Touched /\ "loop" \in Thens \cap Touched
  BY DEF Touched, ZoneScope, Thens
<1>3. CASE Step(Calls("hold", "loop"))
  BY <1>1, <1>2, <1>3, FgHolds
<1>4. ASSUME NEW r \in OffVolume, Writes([radio EXCEPT ![r].vol = "low"], Goes("readback"))
      PROVE  PilotInv'
  <2> DEFINE new == [radio EXCEPT ![r].vol = "low"]
             next == Goes("readback")
  <2>1. r \in Radios
    BY DEF OffVolume
  <2>2. /\ new \in [Radios -> RadioRecord] /\ \A e \in Radios : e # r => new[e] = radio[e]
        /\ new[r].vol = "low" /\ new[r].sel = radio[r].sel /\ new[r].zone = radio[r].zone
    BY <2>1, VolumeWritten
  <2>3. /\ next \in FgRecord /\ next.pc = "readback" /\ next.attempted = fg.attempted
        /\ Place(next) = "readback"
    BY <1>1, <1>2, Places, GoesRecord
  <2>4. Writes(new, next)
    BY <1>4
  <2> HIDE DEF new, next
  <2>5. fg.attempted
    BY <1>1, <1>2, PilotHere DEF PlaceTrue, Place, Touched
  <2>6. PlaceTrue(next, new, outside)
    BY <1>2, <2>3, <2>5, TouchedTrue
  <2>7. Bounded(radio, outside) => Bounded(new, outside)
    BY <2>2 DEF Bounded, Radios
  <2> QED BY <1>1, <1>2, <2>2, <2>3, <2>4, <2>6, <2>7, WritesStep DEF QuietPcs
<1> QED BY <1>3, <1>4 DEF Normalizes

\* The zone and the source scope are left.
LEMMA ClosesStep ==
  ASSUME PilotInv, Closes
  PROVE  PilotInv'
<1>1. /\ fg.pc \in {"close", "leave"} /\ fg' = ToRestore /\ audio' \in {audio, Revoked}
      /\ UNCHANGED <<serviceVars, mon, plan, stop, outside>>
      /\ UNCHANGED <<file, limbo, worker, ack, radio>>
  BY DEF Closes, LeavesZone, Foreground
<1>2. fg \in FgRecord /\ fg.attempted /\ audio.by # "fg"
  BY <1>1, PilotHere DEF PlaceTrue, Place, ZoneScope, AudioTrue
<1>3. /\ ToRestore \in FgRecord /\ ToRestore.pc = "restore" /\ ToRestore.todo = Radios
      /\ ToRestore.attempted = fg.attempted
  BY <1>2, ToRestoreRecord
<1>4. PlaceTrue(ToRestore, radio, outside)
  BY <1>2, <1>3, RestoreTrue
<1>5. plan' \in {Waiting, Halted} \cup Plans /\ radio' \in [Radios -> RadioRecord] /\ radio' = radio
  BY <1>1, PilotHere DEF PilotTypeOK
<1> QED BY <1>1, <1>2, <1>3, <1>4, <1>5, FgStep DEF QuietPcs

\* An exception leads into the restoration, or past it.
LEMMA RaisesStep ==
  ASSUME PilotInv, Raises
  PROVE  PilotInv'
<1>1. /\ fg.pc \notin {"off", "start", "final", "end"} /\ audio.by # "fg"
      /\ fg' = Unwound(Place(fg)) /\ audio' \in {audio, Revoked}
      /\ UNCHANGED <<serviceVars, mon, plan, stop, outside>>
      /\ UNCHANGED <<file, limbo, worker, ack, radio>>
  BY DEF Raises, LeavesZone, Foreground, Place, At
<1>2. /\ fg' \in FgRecord /\ fg'.pc \in {"final", "restore", "end"}
      /\ PlaceTrue(fg', radio, outside)
  BY <1>1, UnwoundTrue
<1>3. plan' \in {Waiting, Halted} \cup Plans /\ radio' \in [Radios -> RadioRecord] /\ radio' = radio
  BY <1>1, PilotHere DEF PilotTypeOK
<1> QED BY <1>1, <1>2, <1>3, FgStep DEF QuietPcs

\* The restoration: what it has done is as it was, and whoever still hears the
\* relay keeps the session's volume.
LEMMA RestoresStep ==
  ASSUME PilotInv, Restores
  PROVE  PilotInv'
<1>1. fg.pc = "restore" /\ fg \in FgRecord /\ fg.todo \in SUBSET Radios
  BY PilotHere DEF Restores, At, FgRecord
<1>2. Clean(radio, outside \cup fg.todo) /\ (~fg.attempted => Clean(radio, outside))
  BY <1>1, PilotHere DEF PlaceTrue, Place
<1>3. CASE (~fg.attempted \/ fg.todo = {}) /\ Step(Over(TRUE))
  <2>1. Over(TRUE) \in FgRecord /\ Over(TRUE).pc = "final"
    BY OverRecord
  <2>2. Clean(radio, outside)
    BY <1>2, <1>3 DEF Clean
  <2>3. PlaceTrue(Over(TRUE), radio, outside)
    BY <2>1, <2>2 DEF PlaceTrue, Place, WaitPcs, ZoneScope
  <2> QED BY <1>1, <1>3, <2>1, <2>3, FgMoves DEF QuietPcs
<1>4. ASSUME fg.attempted, NEW r \in fg.todo, radio[r] = Untouched, Step([fg EXCEPT !.todo = @ \ {r}])
      PROVE  PilotInv'
  <2> DEFINE t == fg.todo \ {r}
             f == [fg EXCEPT !.todo = t]
  <2>1. t \in SUBSET Radios /\ Step(f)
    BY <1>1, <1>4
  <2>2. f \in FgRecord /\ f.pc = "restore" /\ f.todo = t /\ f.attempted = fg.attempted
    BY <1>1, <2>1 DEF FgRecord
  <2>3. Clean(radio, outside \cup t)
    BY <1>2, <1>4 DEF Clean
  <2> HIDE DEF f, t
  <2>4. PlaceTrue(f, radio, outside)
    BY <1>4, <2>2, <2>3 DEF PlaceTrue, Place, WaitPcs, ZoneScope
  <2> QED BY <1>1, <2>1, <2>2, <2>4, FgMoves DEF QuietPcs
<1>5. ASSUME fg.attempted, NEW r \in fg.todo,
             Writes([radio EXCEPT ![r].sel = "standby"], [fg EXCEPT !.pc = "revolume", !.norm = {r}])
      PROVE  PilotInv'
  <2> DEFINE new == [radio EXCEPT ![r].sel = "standby"]
             next == [fg EXCEPT !.pc = "revolume", !.norm = {r}]
  <2>1. r \in Radios /\ {r} \in SUBSET Radios /\ "revolume" \in FgPcs
    BY <1>1, Places
  <2>2. /\ new \in [Radios -> RadioRecord] /\ \A e \in Radios : e # r => new[e] = radio[e]
        /\ new[r].sel = "standby" /\ new[r].vol = radio[r].vol /\ new[r].zone = radio[r].zone
    BY <2>1, SelectionWritten
  <2>3. /\ next \in FgRecord /\ next.pc = "revolume" /\ next.todo = fg.todo
        /\ next.attempted = fg.attempted
    BY <1>1, <2>1 DEF FgRecord
  <2>4. Writes(new, next)
    BY <1>5
  <2> HIDE DEF new, next
  <2>5. Clean(new, outside \cup fg.todo)
    BY <1>2, <2>2 DEF Clean
  <2>6. PlaceTrue(next, new, outside)
    BY <1>5, <2>3, <2>5 DEF PlaceTrue, Place, WaitPcs, ZoneScope
  <2>7. Bounded(radio, outside) => Bounded(new, outside)
    BY <2>2 DEF Bounded, Radios
  <2> QED BY <1>1, <2>2, <2>3, <2>4, <2>6, <2>7, WritesStep DEF QuietPcs
<1> QED BY <1>3, <1>4, <1>5 DEF Restores

\* The volume of a radio in standby is restored.
LEMMA RestoresVolumeStep ==
  ASSUME PilotInv, RestoresVolume
  PROVE  PilotInv'
<1>1. /\ fg.pc = "revolume" /\ fg \in FgRecord /\ fg.todo \in SUBSET Radios
      /\ fg.norm \in SUBSET Radios
  BY PilotHere DEF RestoresVolume, At, FgRecord
<1>2. Clean(radio, outside \cup fg.todo) /\ fg.attempted
  BY <1>1, PilotHere DEF PlaceTrue, Place
<1>3. PICK r \in fg.norm :
        /\ InStandby(r)
        /\ Writes([radio EXCEPT ![r].vol = "own"],
                  [fg EXCEPT !.pc = "restore", !.norm = {}, !.todo = @ \ {r}])
  BY DEF RestoresVolume
<1> DEFINE new == [radio EXCEPT ![r].vol = "own"]
           t == fg.todo \ {r}
           next == [fg EXCEPT !.pc = "restore", !.norm = {}, !.todo = t]
<1>4. r \in Radios /\ t \in SUBSET Radios /\ "restore" \in FgPcs
  BY <1>1, Places
<1>5. /\ new \in [Radios -> RadioRecord] /\ \A e \in Radios : e # r => new[e] = radio[e]
      /\ new[r].vol = "own" /\ new[r].sel = radio[r].sel /\ new[r].zone = radio[r].zone
  BY <1>4, VolumeWritten
<1>6. Writes(new, next)
  BY <1>3
<1>7. next \in FgRecord /\ next.pc = "restore" /\ next.todo = t /\ next.attempted = fg.attempted
  BY <1>1, <1>4 DEF FgRecord
<1> HIDE DEF new, next
<1>8. new[r] = Untouched /\ new[r].sel = "standby" /\ new[r].zone = FALSE
  <2>1. new[r] \in RadioRecord /\ radio[r] \in RadioRecord
    BY <1>4, <1>5, PilotHere
  <2>2. new[r].sel = "standby" /\ new[r].zone = FALSE
    BY <1>3, <1>5, <2>1 DEF InStandby, RadioRecord
  <2> QED BY <1>5, <2>1, <2>2 DEF RadioRecord, Untouched
<1>9. Clean(new, outside \cup t)
  BY <1>2, <1>5, <1>8 DEF Clean
<1> HIDE DEF t
<1>10. PlaceTrue(next, new, outside)
  BY <1>2, <1>7, <1>9 DEF PlaceTrue, Place, WaitPcs, ZoneScope
<1>11. Bounded(radio, outside) => Bounded(new, outside)
  BY <1>4, <1>5, <1>8 DEF Bounded, Radios
<1> QED BY <1>1, <1>5, <1>6, <1>7, <1>10, <1>11, WritesStep DEF QuietPcs

\* The monitor is cancelled in the middle of whatever it does.
LEMMA FinishesStep ==
  ASSUME PilotInv, Finishes
  PROVE  PilotInv'
<1> DEFINE f == Calls("hold", "end")
<1>1. /\ fg.pc = "final" /\ mon' = NoMon /\ fg' = f
      /\ UNCHANGED <<serviceVars, plan, stop, radio, outside>>
      /\ UNCHANGED <<file, worker, ack>>
      /\ \/ audio' = Dropped /\ limbo' \in Abandoned
         \/ audio' = audio /\ limbo' = limbo
  BY DEF Finishes, Breaks, At, audioVars
<1>2. /\ f \in FgRecord /\ f.pc = "exchange" /\ f.op = "hold" /\ f.then = "end"
      /\ f.clean = fg.clean /\ Place(f) = "end" /\ "end" \in Thens
  BY PilotHere, CallsRecord DEF Thens
<1> HIDE DEF f
<1>3. PlaceTrue(f, radio, outside)
  BY <1>1, <1>2, PilotHere DEF PlaceTrue, Place, WaitPcs, ZoneScope
<1>4. audio.by # "fg"
  BY <1>1, PilotHere DEF AudioTrue
<1>5. AudioTrue(f, audio, file, limbo, worker, ack)
  BY <1>1, <1>2, <1>4, PilotHere DEF AudioTrue, QuietPcs
<1>6. /\ AudioTrue(f, audio', file, limbo', worker, ack)
      /\ Openable(audio', file, limbo', worker) => Openable(audio, file, limbo, worker)
      /\ audio' \in AudioRecord /\ limbo' \in {"none", "release"}
  <2>1. CASE audio' = Dropped /\ limbo' \in Abandoned
    <3>1. Dropped = Revoked => audio.by # "fg"
      BY <1>4
    <3> QED BY <1>5, <2>1, <3>1, RetiredTrue, RevokedRecord, AbandonedCommand
  <2>2. CASE audio' = audio /\ limbo' = limbo
    BY <1>5, <2>2, PilotHere
  <2> QED BY <1>1, <2>1, <2>2
<1>7. PilotTypeOK'
  BY <1>1, <1>2, <1>6, PilotHere, MonRecords DEF PilotTypeOK, serviceVars, MonRecord
<1>8. /\ Openable(audio', file, limbo', worker) => Bounded(radio, outside)
      /\ radio' = radio /\ outside' = outside /\ file' = file /\ worker' = worker /\ ack' = ack
  BY <1>1, <1>6, PilotHere
<1> QED BY <1>1, <1>2, <1>3, <1>6, <1>7, <1>8, SessionStep

\* The foreground's own exchange.
LEMMA ForegroundExchangesStep ==
  ASSUME PilotInv, ForegroundExchanges
  PROVE  PilotInv'
<1>1. UNCHANGED <<serviceVars, mon, plan, stop, radio, outside>>
  BY DEF ForegroundExchanges
<1>2. fg \in FgRecord /\ fg.op \in {"hold", "release"} /\ mon \in MonRecord
  BY PilotHere DEF FgRecord, PilotTypeOK, MonRecord
<1>3. CASE At("exchange") /\ audio.by = "none" /\ Begins("fg", fg.op) /\ UNCHANGED fg
  <2>1. /\ audio' \in AudioRecord /\ audio'.by = "fg" /\ ~audio'.sent /\ ~audio'.revoked
        /\ audio'.allowed = (fg.op = "release")
        /\ file' \in [cmd : {"none", "hold", "release"}, lapsed : BOOLEAN]
        /\ file'.cmd = file.cmd /\ limbo' = limbo /\ worker' = worker /\ ack' = ack
        /\ ~audio.revoked
    BY <1>2, <1>3, BeginsRecord
  <2>2. /\ Openable(audio', file', limbo, worker) =>
             Openable(audio, file, limbo, worker) \/ Bounded(radio, outside)
    BY <1>3, <2>1, PilotHere DEF Openable, At
  <2>3. AudioTrue(fg, audio', file', limbo, worker, ack)
    BY <1>3, <2>1, PilotHere DEF AudioTrue, At, QuietPcs
  <2> QED BY <1>1, <1>2, <1>3, <2>1, <2>2, <2>3, PilotHere, ExchangeStep
<1>4. CASE At("exchange") /\ audio.by = "none" /\ Refused /\ fg' = Unwound(fg.then)
  <2>1. audio' = Revoked /\ UNCHANGED <<file, limbo, worker, ack>> /\ fg.pc = "exchange"
    BY <1>4 DEF Refused, At
  <2>2. /\ fg' \in FgRecord /\ fg'.pc \in {"final", "restore", "end"}
        /\ PlaceTrue(fg', radio, outside)
    BY <1>4, <2>1, UnwoundTrue DEF Place
  <2>3. plan' \in {Waiting, Halted} \cup Plans /\ radio' \in [Radios -> RadioRecord] /\ radio' = radio
    BY <1>1, PilotHere DEF PilotTypeOK
  <2> QED BY <1>1, <1>4, <2>1, <2>2, <2>3, FgStep DEF QuietPcs
<1>5. CASE Succeeds("fg") /\ fg' = Goes(fg.then)
  <2>1. /\ audio' \in AudioRecord /\ audio'.by = "none" /\ audio'.revoked = FALSE
        /\ audio'.allowed = audio.allowed /\ audio.by = "fg" /\ ~audio.revoked
        /\ audio.sent /\ (audio.allowed \/ ack = "closed")
        /\ file' = file /\ limbo' = limbo /\ worker' = worker /\ ack' = ack
    BY <1>5, SucceedsRecord
  <2>2. /\ fg.pc = "exchange" /\ (fg.op = "hold" => ~audio.allowed) /\ limbo = "none"
        /\ (fg.op = "release" => fg.then = "loop") /\ fg.then \in Thens
        /\ file.cmd = IF audio.allowed THEN "release" ELSE "hold"
    BY <2>1, PilotHere DEF AudioTrue
  <2>3. /\ fg' \in FgRecord /\ fg'.pc = fg.then /\ Place(fg') = fg.then
        /\ fg'.todo = fg.todo /\ fg'.clean = fg.clean /\ fg'.attempted = fg.attempted
    BY <1>2, <1>5, <2>2, Places, GoesRecord
  <2>4. PlaceTrue(fg', radio, outside)
    <3>1. Place(fg) = fg.then
      BY <2>2 DEF Place
    <3> QED BY <2>2, <2>3, <3>1, PilotHere DEF PlaceTrue
  <2>5. Openable(audio', file, limbo, worker) <=> Openable(audio, file, limbo, worker)
    BY <2>1 DEF Openable
  <2>6. fg'.pc \in QuietPcs => ~Openable(audio, file, limbo, worker)
    <3> SUFFICES ASSUME fg.then \in QuietPcs PROVE ~Openable(audio, file, limbo, worker)
      BY <2>3
    <3>1. fg.op = "hold"
      BY <1>2, <2>2 DEF QuietPcs
    <3>2. ~worker.open
      BY <2>1, <2>2, <3>1, PilotHere DEF AudioTrue
    <3> QED BY <2>2, <3>1, <3>2 DEF Openable
  <2>7. fg'.pc # "exchange" /\ fg'.pc # "off"
    BY <2>2, <2>3 DEF Thens
  <2>8. AudioTrue(fg', audio', file, limbo, worker, ack)
    BY <2>1, <2>2, <2>5, <2>6, <2>7, PilotHere DEF AudioTrue
  <2>9. PilotTypeOK'
    BY <1>1, <2>1, <2>3, PilotHere DEF PilotTypeOK, serviceVars
  <2>10. Openable(audio', file, limbo, worker) => Bounded(radio, outside)
    BY <2>5, PilotHere
  <2>11. radio' = radio /\ outside' = outside /\ fg.pc # "off"
    BY <1>1, <2>2
  <2> QED BY <1>1, <2>1, <2>4, <2>7, <2>8, <2>9, <2>10, <2>11, SessionStep
<1>6. CASE Breaks("fg") /\ fg' = Unwound(fg.then)
  <2>1. /\ audio' = Dropped /\ limbo' \in Abandoned /\ UNCHANGED <<file, worker, ack>>
        /\ audio.by = "fg"
    BY <1>6 DEF Breaks
  <2>2. fg.pc = "exchange"
    BY <2>1, PilotHere DEF AudioTrue
  <2>3. /\ fg' \in FgRecord /\ fg'.pc \in {"final", "restore", "end"}
        /\ PlaceTrue(fg', radio, outside)
    BY <1>6, <2>2, UnwoundTrue DEF Place
  <2>4. /\ audio' \in AudioRecord /\ audio'.revoked /\ ~audio'.allowed /\ audio'.by = "none"
        /\ limbo' \in {"none", "release"}
        /\ limbo' = "release" => limbo = "release" \/ audio.allowed
    BY <2>1, RevokedRecord, AbandonedCommand
  <2>5. Openable(audio', file, limbo', worker) => Openable(audio, file, limbo, worker)
    BY <2>4 DEF Openable
  <2>6. AudioTrue(fg', audio', file, limbo', worker, ack)
    BY <2>3, <2>4, PilotHere DEF AudioTrue, QuietPcs
  <2>7. PilotTypeOK'
    BY <1>1, <2>1, <2>3, <2>4, PilotHere DEF PilotTypeOK, serviceVars
  <2>8. Openable(audio', file, limbo', worker) => Bounded(radio, outside)
    BY <2>5, PilotHere
  <2>9. radio' = radio /\ outside' = outside /\ file' = file /\ worker' = worker /\ ack' = ack
    BY <1>1, <2>1
  <2> QED BY <1>1, <2>2, <2>3, <2>6, <2>7, <2>8, <2>9, SessionStep
<1> QED BY <1>3, <1>4, <1>5, <1>6 DEF ForegroundExchanges

-----------------------------------------------------------------------------
\* What a session starts and ends with.
LEMMA BlankRecords ==
  /\ Waiting \in {Waiting, Halted} \cup Plans
  /\ NoMon \in MonRecord
  /\ NoAudio \in AudioRecord /\ NoAudio.by = "none" /\ ~NoAudio.allowed
  /\ NoFile \in [cmd : {"none", "hold", "release"}, lapsed : BOOLEAN] /\ NoFile.cmd = "none"
  /\ NoWorker \in [pc : {"off", "on", "dead"}, open : BOOLEAN] /\ ~NoWorker.open
  /\ NoFg.pc = "off"
  BY DEF NoMon, MonRecord, NoAudio, AudioRecord, NoFile, NoWorker, NoFg

\* Without a foreground only the worker's acknowledgement has to be true.
LEMMA OffTrue ==
  ASSUME NEW f, f.pc = "off", NEW rd, NEW out, NEW a, a.by = "none", NEW fl, NEW li, NEW w, NEW ak,
         ak = "closed" => ~w.open
  PROVE  PlaceTrue(f, rd, out) /\ AudioTrue(f, a, fl, li, w, ak)
<1>1. PlaceTrue(f, rd, out)
  BY DEF PlaceTrue, Place, WaitPcs, ZoneScope
<1>2. AudioTrue(f, a, fl, li, w, ak)
  BY DEF AudioTrue, QuietPcs
<1> QED BY <1>1, <1>2

\* The service begins a session on radios that are free.
LEMMA StartsStep ==
  ASSUME PilotInv, Starts
  PROVE  PilotInv'
<1>1. stored \in {"none", "ENDED"} /\ Clean(radio, outside) /\ fg.pc = "off" /\ up = "up"
  BY DEF PilotInv, PilotTypeOK, JournalTrue, Starts, Free
<1>2. radio' = radio /\ outside' = outside
  BY DEF Starts
<1>3. CASE /\ stored' = "LIVE" /\ entry' = "LIVE" /\ fg' = [NoFg EXCEPT !.pc = "start"]
           /\ stop' = FALSE /\ UNCHANGED up /\ Fresh
  <2>1. /\ mon' = NoMon /\ plan' = Waiting /\ audio' = NoAudio /\ file' = NoFile
        /\ limbo' = "none" /\ worker' = NoWorker /\ ack' = "none"
    BY <1>3 DEF Fresh
  <2>2. fg' \in FgRecord /\ fg'.pc = "start"
    BY <1>3, NoFgRecord DEF FgRecord, FgPcs
  <2>3. PilotTypeOK'
    <3>1. /\ mon' \in MonRecord /\ plan' \in {Waiting, Halted} \cup Plans /\ audio' \in AudioRecord
          /\ file' \in [cmd : {"none", "hold", "release"}, lapsed : BOOLEAN]
          /\ worker' \in [pc : {"off", "on", "dead"}, open : BOOLEAN]
      BY <2>1, BlankRecords
    <3>2. up' \in {"up", "broken", "down"} /\ radio' \in [Radios -> RadioRecord] /\ outside' \in SUBSET Radios
      BY <1>2, <1>3, PilotHere DEF PilotTypeOK
    <3> QED BY <1>3, <2>1, <2>2, <3>1, <3>2 DEF PilotTypeOK, MonRecord
  <2>4. JournalTrue'
    BY <1>1, <1>3 DEF JournalTrue
  <2>5. PlaceTrue(fg', radio', outside')
    BY <1>1, <1>2, <2>2 DEF PlaceTrue, Place, ZoneScope
  <2>6. ~Openable(audio', file', limbo', worker')
    BY <2>1, BlankRecords DEF Openable
  <2>7. AudioTrue(fg', audio', file', limbo', worker', ack')
    BY <2>1, <2>2, <2>6, BlankRecords DEF AudioTrue
  <2> QED BY <2>2, <2>3, <2>4, <2>5, <2>6, <2>7 DEF PilotInv
<1>4. CASE up' = "broken" /\ UNCHANGED <<stored, entry, fg, stop, mon, plan>> /\ UNCHANGED audioVars
  <2>1. UNCHANGED <<audio, file, limbo, worker, ack>>
    BY <1>4 DEF audioVars
  <2>2. PilotTypeOK'
    BY <1>2, <1>4, <2>1, PilotHere DEF PilotTypeOK
  <2>3. JournalTrue'
    BY <1>1, <1>2, <1>4 DEF JournalTrue
  <2> QED BY <1>2, <1>4, <2>1, <2>2, <2>3 DEF PilotInv
<1> QED BY <1>3, <1>4 DEF Starts

\* The pilot runs, or the session was stopped before.
LEMMA RunsStep ==
  ASSUME PilotInv, Runs
  PROVE  PilotInv'
<1>1. /\ UNCHANGED <<serviceVars, plan, stop, radio, outside, audio, file, limbo, worker, ack>>
      /\ fg.pc = "start"
  BY DEF Runs, audioVars, At
<1>2. Clean(radio, outside) /\ ~Openable(audio, file, limbo, worker)
  BY <1>1, PilotHere DEF PlaceTrue, Place, WaitPcs, AudioTrue, QuietPcs
<1>3. PICK at \in {"end", "ready"} : fg' = [fg EXCEPT !.pc = at]
  BY DEF Runs
<1>4. fg' \in FgRecord /\ fg'.pc = at
  BY <1>3, PilotHere DEF FgRecord, FgPcs, WaitScope
<1>5. mon' \in {mon, [NoMon EXCEPT !.pc = "first"]}
  BY DEF Runs
<1>6. mon' \in MonRecord
  BY <1>5, BlankRecords DEF PilotInv, PilotTypeOK, MonRecord
<1>7. PilotTypeOK'
  BY <1>1, <1>4, <1>6, PilotHere DEF PilotTypeOK, serviceVars, MonRecord
<1>8. PlaceTrue(fg', radio', outside')
  BY <1>1, <1>2, <1>4 DEF PlaceTrue, Place, ZoneScope
<1>9. audio.by # "fg"
  BY <1>1, PilotHere DEF AudioTrue
<1>10. AudioTrue(fg', audio', file', limbo', worker', ack')
  BY <1>1, <1>2, <1>4, <1>9, PilotHere DEF AudioTrue
<1> QED BY <1>1, <1>2, <1>4, <1>7, <1>8, <1>10, SessionStep

\* The lifetime is over: only the flag changes.
LEMMA ExpiresStep ==
  ASSUME PilotInv, Expires
  PROVE  PilotInv'
<1>1. /\ UNCHANGED <<serviceVars, fg, mon, plan, radio, outside, audio, file, limbo, worker, ack>>
      /\ stop' = TRUE
  BY DEF Expires, audioVars
<1>2. PilotTypeOK'
  BY <1>1 DEF PilotInv, PilotTypeOK, serviceVars
<1>3. JournalTrue'
  BY <1>1 DEF PilotInv, JournalTrue, serviceVars
<1> QED BY <1>1, <1>2, <1>3 DEF PilotInv

\* A stop is recorded, or the journal is lost.
LEMMA StopsStep ==
  ASSUME PilotInv, Stops
  PROVE  PilotInv'
<1>1. /\ UNCHANGED <<entry, fg, mon, plan, radio, outside, audio, file, limbo, worker, ack>>
      /\ stop' = TRUE /\ up = "up" /\ entry = "LIVE"
  BY DEF Stops, audioVars
<1>2. stored = "LIVE"
  BY <1>1 DEF PilotInv, JournalTrue
<1>3. stored' = "LIVE" /\ up' \in {"up", "broken"}
  BY <1>1, <1>2 DEF Stops, Saved
<1>4. PilotTypeOK'
  BY <1>1, <1>3 DEF PilotInv, PilotTypeOK
<1>5. JournalTrue'
  BY <1>1, <1>2, <1>3 DEF JournalTrue
<1> QED BY <1>1, <1>4, <1>5 DEF PilotInv

\* The session ends: the receipt of a clean end frees the radios.
LEMMA EndsStep ==
  ASSUME PilotInv, Ends
  PROVE  PilotInv'
<1>1. /\ UNCHANGED <<mon, file, limbo, worker, ack, radio, outside>> /\ fg.pc = "end"
      /\ stop' = FALSE /\ fg' = NoFg /\ plan' = Waiting /\ audio' = NoAudio
      /\ entry' \in {EndState, "RECOVERY"} /\ Saved(entry')
  BY DEF Ends, At
<1>2. stored = "LIVE" /\ up # "down"
  BY <1>1 DEF PilotInv, JournalTrue
<1>3. /\ entry' \in {"ENDED", "RECOVERY"} /\ (entry' = "ENDED" => fg.clean)
  BY <1>1 DEF EndState
<1>4. entry' = "ENDED" => Clean(radio, outside)
  BY <1>1, <1>3, PilotHere DEF PlaceTrue, Place
<1>5. \/ stored' = entry' /\ up' = up
      \/ up' = "broken" /\ stored' = stored
  BY <1>1 DEF Saved
<1>6. PilotTypeOK'
  <2>1. fg' \in FgRecord /\ plan' \in {Waiting, Halted} \cup Plans /\ audio' \in AudioRecord
    BY <1>1, BlankRecords, NoFgRecord
  <2>2. /\ up' \in {"up", "broken", "down"} /\ entry' \in {"none", "LIVE", "ENDED", "RECOVERY"}
        /\ stored' \in {"none", "LIVE", "ENDED", "RECOVERY"} /\ stop' \in BOOLEAN
    BY <1>1, <1>3, <1>5 DEF PilotInv, PilotTypeOK
  <2> QED BY <1>1, <2>1, <2>2 DEF PilotInv, PilotTypeOK
<1>7. JournalTrue'
  BY <1>1, <1>2, <1>3, <1>4, <1>5, BlankRecords DEF JournalTrue
<1>8. PlaceTrue(fg', radio', outside') /\ AudioTrue(fg', audio', file', limbo', worker', ack')
  <2>1. ack = "closed" => ~worker.open
    BY PilotHere DEF AudioTrue
  <2> QED BY <1>1, <2>1, BlankRecords, OffTrue
<1>9. Openable(audio', file', limbo', worker') => Openable(audio, file, limbo, worker)
  BY <1>1, BlankRecords DEF Openable
<1> QED BY <1>1, <1>6, <1>7, <1>8, <1>9, BlankRecords, PilotHere DEF PilotInv

\* The process dies; a request on its way may still be carried out.
LEMMA PilotCrashStep ==
  ASSUME PilotInv, PilotCrash
  PROVE  PilotInv'
<1>1. /\ UNCHANGED <<stored, file, worker, ack, radio, outside>> /\ up' = "down" /\ entry' = "none"
      /\ stop' = FALSE /\ fg' = NoFg /\ mon' = NoMon /\ plan' = Waiting /\ audio' = NoAudio
      /\ limbo' \in Abandoned
  BY DEF PilotCrash
<1>2. limbo' \in {"none", "release"} /\ (limbo' = "release" => limbo = "release" \/ audio.allowed)
  BY <1>1, AbandonedCommand
<1>3. PilotTypeOK'
  <2>1. /\ fg' \in FgRecord /\ mon' \in MonRecord /\ plan' \in {Waiting, Halted} \cup Plans
        /\ audio' \in AudioRecord
    BY <1>1, BlankRecords, NoFgRecord
  <2> QED BY <1>1, <1>2, <2>1 DEF PilotInv, PilotTypeOK, MonRecord
<1>4. JournalTrue'
  BY <1>1, BlankRecords DEF PilotInv, JournalTrue
<1>5. PlaceTrue(fg', radio', outside') /\ AudioTrue(fg', audio', file', limbo', worker', ack')
  <2>1. ack = "closed" => ~worker.open
    BY PilotHere DEF AudioTrue
  <2> QED BY <1>1, <2>1, BlankRecords, OffTrue
<1>6. Openable(audio', file', limbo', worker') => Openable(audio, file, limbo, worker)
  BY <1>1, <1>2, BlankRecords DEF Openable
<1> QED BY <1>1, <1>3, <1>4, <1>5, <1>6, BlankRecords, PilotHere DEF PilotInv

\* The journal is loaded: a session that was live keeps its radios reserved.
LEMMA RestartsStep ==
  ASSUME PilotInv, Restarts
  PROVE  PilotInv'
<1>1. /\ UNCHANGED <<fg, mon, plan, stop, radio, outside, audio, file, limbo, worker, ack>>
      /\ up = "down" /\ up' = "up" /\ entry' = stored'
      /\ stored' = IF stored = "LIVE" THEN "RECOVERY" ELSE stored
  BY DEF Restarts, audioVars
<1>2. fg.pc = "off"
  BY <1>1 DEF PilotInv, JournalTrue
<1>3. PilotTypeOK'
  BY <1>1 DEF PilotInv, PilotTypeOK
<1>4. JournalTrue'
  BY <1>1, <1>2 DEF PilotInv, JournalTrue
<1> QED BY <1>1, <1>3, <1>4 DEF PilotInv

\* Somebody else uses a radio: it no longer counts, and nobody begins to hear the relay.
LEMMA OutsideStep ==
  ASSUME PilotInv, Outside
  PROVE  PilotInv'
<1>1. UNCHANGED <<serviceVars, fg, mon, plan, stop, audio, file, limbo, worker, ack>>
  BY DEF Outside, audioVars
<1>2. PICK r \in Radios \ outside : \E s \in {radio[r].sel, "standby", "other"} :
        /\ radio' = [radio EXCEPT ![r].sel = s, ![r].vol = "own"]
        /\ outside' = outside \cup {r}
  BY DEF Outside
<1>3. PICK s \in {radio[r].sel, "standby", "other"} :
        /\ radio' = [radio EXCEPT ![r].sel = s, ![r].vol = "own"]
        /\ outside' = outside \cup {r}
  BY <1>2
<1>4. r \in Radios /\ radio[r] \in RadioRecord /\ s \in {"standby", "relay", "other"}
  BY <1>3, PilotHere DEF RadioRecord
<1> DEFINE new == [[radio[r] EXCEPT !.sel = s] EXCEPT !.vol = "own"]
<1>5. radio' = [radio EXCEPT ![r] = new]
  BY <1>3, PilotHere
<1>6. new \in RadioRecord /\ new.sel = s
  BY <1>4 DEF RadioRecord
<1> HIDE DEF new
<1>7. /\ radio' \in [Radios -> RadioRecord] /\ radio'[r] = new
      /\ \A q \in Radios \ {r} : radio'[q] = radio[q]
  BY <1>4, <1>5, <1>6, PilotHere
<1>8. ASSUME NEW out, Clean(radio, out)
      PROVE  Clean(radio', out \cup {r})
  BY <1>7, <1>8 DEF Clean
<1>9. Bounded(radio, outside) => Bounded(radio', outside')
  <2>1. radio'[Master].sel = "relay" => radio[Master].sel = "relay"
    BY <1>3, <1>6, <1>7 DEF Radios
  <2> QED BY <1>3, <1>7, <2>1 DEF Bounded
<1>10. PilotTypeOK'
  BY <1>1, <1>3, <1>7, PilotHere DEF PilotTypeOK, serviceVars
<1>11. Clean(radio, outside) => Clean(radio', outside')
  BY <1>3, <1>8
<1>12. JournalTrue'
  BY <1>1, <1>11 DEF PilotInv, JournalTrue, serviceVars
<1>13. PlaceTrue(fg, radio', outside')
  <2>1. Clean(radio, outside \cup fg.todo) => Clean(radio', outside' \cup fg.todo)
    <3>1. (outside \cup fg.todo) \cup {r} = outside' \cup fg.todo
      BY <1>3
    <3> QED BY <1>8, <3>1
  <2> QED BY <1>11, <2>1, PilotHere DEF PlaceTrue
<1> QED BY <1>1, <1>9, <1>10, <1>12, <1>13 DEF PilotInv

-----------------------------------------------------------------------------
\* The invariant holds before the first session.
LEMMA PilotInitial ==
  ASSUME PilotInit
  PROVE  PilotInv
<1>1. Untouched \in RadioRecord /\ Clean(radio, outside)
  BY DEF PilotInit, Untouched, RadioRecord, Clean
<1>2. PilotTypeOK
  <2>1. /\ fg \in FgRecord /\ mon \in MonRecord /\ plan \in {Waiting, Halted} \cup Plans
        /\ audio \in AudioRecord /\ file \in [cmd : {"none", "hold", "release"}, lapsed : BOOLEAN]
        /\ worker \in [pc : {"off", "on", "dead"}, open : BOOLEAN]
    BY BlankRecords, NoFgRecord DEF PilotInit
  <2>2. radio \in [Radios -> RadioRecord]
    BY <1>1 DEF PilotInit
  <2> QED BY <2>1, <2>2 DEF PilotInit, PilotTypeOK
<1>3. JournalTrue
  BY <1>1, BlankRecords DEF PilotInit, JournalTrue
<1>4. PlaceTrue(fg, radio, outside) /\ AudioTrue(fg, audio, file, limbo, worker, ack)
  BY BlankRecords, OffTrue DEF PilotInit
<1>5. ~Openable(audio, file, limbo, worker)
  BY BlankRecords DEF PilotInit, Openable
<1> QED BY <1>2, <1>3, <1>4, <1>5, BlankRecords DEF PilotInit, PilotInv

\* Every step of the foreground.
LEMMA ForegroundStepStep ==
  ASSUME PilotInv, ForegroundStep
  PROVE  PilotInv'
<1>1. CASE ForegroundExchanges BY <1>1, ForegroundExchangesStep
<1>2. CASE Ready \/ Waits \/ Captures BY <1>2, EarlySteps
<1>3. CASE SetsVolume BY <1>3, SetsVolumeStep
<1>4. CASE Selects BY <1>4, SelectsStep
<1>5. CASE Plays \/ EntersZone \/ Loops \/ PlansWrite \/ Guards BY <1>5, ZoneMoves
<1>6. CASE Halts BY <1>6, HaltsStep
<1>7. CASE Applies BY <1>7, AppliesStep
<1>8. CASE Posts BY <1>8, PostsStep
<1>9. CASE ReadsBack BY <1>9, ReadsBackStep
<1>10. CASE Normalizes BY <1>10, NormalizesStep
<1>11. CASE Closes BY <1>11, ClosesStep
<1>12. CASE Restores BY <1>12, RestoresStep
<1>13. CASE RestoresVolume BY <1>13, RestoresVolumeStep
<1>14. CASE Finishes BY <1>14, FinishesStep
<1>15. CASE Raises BY <1>15, RaisesStep
<1> QED
  BY <1>1, <1>2, <1>3, <1>4, <1>5, <1>6, <1>7, <1>8, <1>9, <1>10, <1>11, <1>12, <1>13, <1>14, <1>15
     DEF ForegroundStep

\* Every step of the system keeps the invariant.
LEMMA PilotStep ==
  ASSUME PilotInv, [PilotNext]_pilotVars
  PROVE  PilotInv'
<1>1. CASE ForegroundStep BY <1>1, ForegroundStepStep
<1>2. CASE Monitor
  BY <1>2, MonitorPlansStep, MonitorExchangesStep DEF Monitor
<1>3. CASE Worker BY <1>3, WorkerStep
<1>4. CASE Published BY <1>4, PublishedStep
<1>5. CASE PublishedLate BY <1>5, PublishedLateStep
<1>6. CASE Lapse BY <1>6, LapseStep
<1>7. CASE Starts BY <1>7, StartsStep
<1>8. CASE Runs BY <1>8, RunsStep
<1>9. CASE Stops BY <1>9, StopsStep
<1>10. CASE Expires BY <1>10, ExpiresStep
<1>11. CASE Ends BY <1>11, EndsStep
<1>12. CASE PilotCrash BY <1>12, PilotCrashStep
<1>13. CASE Restarts BY <1>13, RestartsStep
<1>14. CASE Outside BY <1>14, OutsideStep
<1>15. CASE UNCHANGED pilotVars
  BY <1>15 DEF pilotVars, PilotInv, PilotTypeOK, JournalTrue
<1> QED
  BY <1>1, <1>2, <1>3, <1>4, <1>5, <1>6, <1>7, <1>8, <1>9, <1>10, <1>11, <1>12, <1>13, <1>14, <1>15
     DEF PilotNext

\* The invariant holds throughout.
LEMMA PilotInductive == PilotSpec => []PilotInv
<1>1. PilotInit => PilotInv
  BY PilotInitial
<1>2. PilotInv /\ [PilotNext]_pilotVars => PilotInv'
  BY PilotStep
<1> QED BY <1>1, <1>2, PTL DEF PilotSpec

\* The variables of an AirPlay session keep their types, in particular where the
\* foreground is and where an exchange leads it (pilot_runner.py, group_zone.py).
THEOREM PilotTypeCorrect == PilotSpec => []PilotTypeOK
<1>1. PilotInv => PilotTypeOK
  BY DEF PilotInv
<1> QED BY <1>1, PilotInductive, PTL

\* A radio that plays the relay while the gate is open has the session's volume,
\* for any number of members, uses by others, late commands and crashes.
THEOREM BoundedAudioHolds == PilotSpec => []BoundedAudio
<1>1. PilotInv => BoundedAudio
  BY DEF PilotInv, Openable, Bounded, BoundedAudio
<1> QED BY <1>1, PilotInductive, PTL

\* A session begins with radios as they were before the last one, the ones
\* somebody else has used aside (session_service.py, start() and _load()).
THEOREM StartsCleanHolds == PilotSpec => []StartsClean
<1>1. PilotInv => StartsClean
  BY DEF PilotInv, PlaceTrue, Place, WaitPcs, Clean, StartsClean, At
<1> QED BY <1>1, PilotInductive, PTL
=============================================================================
