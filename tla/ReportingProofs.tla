-------------------------- MODULE ReportingProofs --------------------------
(***************************************************************************)
(* Proofs about ReportingScheduler, for any number of sessions, queue      *)
(* capacity, restarts and failing saves.                                   *)
(*                                                                         *)
(* BoundPost compares a report with the link at the moment of its post;    *)
(* what keeps them together is that every report of a session, queued or   *)
(* stored, was queued for the current binding, and that a runner which is  *)
(* not cancelled never outlives the link it was armed under.               *)
(***************************************************************************)
EXTENDS ReportingScheduler, FiniteSetTheorems, SequenceTheorems, TLAPS

Report == [bind : Nat, attempts : Nat]
Session ==
  [queue : Seq(Report), link : Nat, due : BOOLEAN, row : BOOLEAN,
   storedQueue : Seq(Report), storedDue : BOOLEAN, broken : BOOLEAN]
Task == [pc : {"sleep", "post", "notify"}, cancelled : BOOLEAN]
PostTask == [pc |-> "post", cancelled |-> FALSE]

Bound(q, b) == \A i \in 1..Len(q) : q[i].bind = b

\* A session and its row hold reports of the binding b only, and its link, if it
\* has one, is the link of b.
SessionOK(s, b) ==
  /\ s \in Session
  /\ Bound(s.queue, b) /\ Bound(s.storedQueue, b)
  /\ s.link \in {0, b}
  /\ ~s.row => s.storedQueue = <<>>

\* At most one task is not cancelled, it runs under the link of b, and while it
\* posts there is a report to post.
TasksOK(ts, s, b) ==
  /\ ts \subseteq Task
  /\ \A t, u \in ts : ~t.cancelled /\ ~u.cancelled => t = u
  /\ \A t \in ts : ~t.cancelled => s.link = b
  /\ PostTask \in ts => s.queue # <<>>

\* A session that is due is served by a task.
Served1(ts, s, o) ==
  o /\ s.due /\ s.link # 0 /\ ~s.broken => \E t \in ts : ~t.cancelled

\* A session that neither this process nor a row ever selected is empty.
Fresh(s, ts, o, sel, known) ==
  o /\ sel = None /\ ~known => s.queue = <<>> /\ s.storedQueue = <<>> /\ ts = {}

KeyOK(s, ts, b, o) == SessionOK(s, b) /\ TasksOK(ts, s, b) /\ Served1(ts, s, o)

StateTypes ==
  /\ sess \in [Keys -> Session] /\ tasks \in [Keys -> SUBSET Task]
  /\ selection \in [Keys -> Selections \cup {None}]
  /\ active \in Keys \cup {None} /\ restored \subseteq Keys /\ open \in BOOLEAN
  /\ binding \in [Keys -> Nat]

ReportingInv ==
  /\ StateTypes
  /\ \A k \in Keys : KeyOK(sess[k], tasks[k], binding[k], open)
  /\ \A k \in Keys : Fresh(sess[k], tasks[k], open, selection[k], k \in restored)
  /\ active # None => selection[active] # None

-----------------------------------------------------------------------------
(***************************************************************************)
(* The steps that operations are made of                                   *)
(***************************************************************************)

\* save() never changes what a session holds in memory, and stores nothing that
\* is not in it.
LEMMA SaveKeeps ==
  ASSUME NEW s, NEW b \in Nat, NEW ok \in BOOLEAN, SessionOK(s, b)
  PROVE  /\ SessionOK(Save(s, ok), b)
         /\ Save(s, ok).queue = s.queue /\ Save(s, ok).link = s.link
         /\ Save(s, ok).due = s.due
         /\ ok => Save(s, ok).storedQueue = s.queue
         /\ ~ok => Save(s, ok).storedQueue = s.storedQueue
         /\ Save(s, ok).broken <=> (s.broken \/ ~ok)
<1>1. s \in Session
  BY DEF SessionOK
<1>2. CASE ok
  BY <1>1, <1>2 DEF Save, SessionOK, Session
<1>3. CASE ~ok
  BY <1>1, <1>3 DEF Save, SessionOK, Session
<1> QED BY <1>2, <1>3

\* A save keeps the tasks of a session right, and one that fails excuses it from
\* being served.
LEMMA SaveKeepsTasks ==
  ASSUME NEW s, NEW ts, NEW b \in Nat, NEW ok \in BOOLEAN, NEW o \in BOOLEAN,
         SessionOK(s, b), TasksOK(ts, s, b), ok => Served1(ts, s, o)
  PROVE  KeyOK(Save(s, ok), ts, b, o)
BY SaveKeeps DEF KeyOK, TasksOK, Served1

\* A cancelled task is not live, so any session is right with it.
LEMMA CancelKeeps ==
  ASSUME NEW ts \in SUBSET Task
  PROVE  /\ CancelTask(ts) \subseteq Task
         /\ \A t \in CancelTask(ts) : t.cancelled
         /\ \A s, b : TasksOK(CancelTask(ts), s, b)
<1>1. \A t \in ts : [t EXCEPT !.cancelled = TRUE] \in Task
                    /\ [t EXCEPT !.cancelled = TRUE].cancelled
  BY DEF Task
<1>2. /\ CancelTask(ts) \subseteq Task
      /\ \A t \in CancelTask(ts) : t.cancelled
  BY <1>1 DEF CancelTask
<1>3. PostTask \notin CancelTask(ts)
  BY <1>2 DEF PostTask
<1> QED BY <1>2, <1>3 DEF TasksOK

\* _arm_due() after the earlier task was cancelled, or has ended: exactly one task
\* serves a session that is due and linked.
LEMMA ArmKeeps ==
  ASSUME NEW ts \in SUBSET Task, NEW s, NEW b \in Nat, NEW o \in BOOLEAN,
         SessionOK(s, b), o => open, \A t \in ts : t.cancelled
  PROVE  TasksOK(Arm(ts, s), s, b) /\ Served1(Arm(ts, s), s, o)
<1>1. Sleeping \in Task /\ ~Sleeping.cancelled /\ PostTask # Sleeping /\ ~PostTask.cancelled
  BY DEF Sleeping, Task, PostTask
<1>2. CASE open /\ s.due /\ s.link # 0
  <2>1. Arm(ts, s) = ts \cup {Sleeping}
    BY <1>2 DEF Arm
  <2>2. s.link = b
    BY <1>2 DEF SessionOK
  <2> QED BY <1>1, <2>1, <2>2 DEF TasksOK, Served1
<1>3. CASE ~(open /\ s.due /\ s.link # 0)
  <2>1. Arm(ts, s) = ts
    BY <1>3 DEF Arm
  <2> QED BY <1>1, <1>3, <2>1 DEF TasksOK, Served1
<1> QED BY <1>2, <1>3

\* schedule_due(): the earlier task is cancelled first.
LEMMA ScheduleKeeps ==
  ASSUME NEW ts \in SUBSET Task, NEW s, NEW b \in Nat, SessionOK(s, b), open
  PROVE  TasksOK(ScheduleDue(ts, s), s, b) /\ Served1(ScheduleDue(ts, s), s, TRUE)
<1>1. ScheduleDue(ts, s) = Arm(CancelTask(ts), s)
  BY DEF ScheduleDue
<1> QED BY <1>1, CancelKeeps, ArmKeeps

\* A report queued for the current binding.
LEMMA EnqueuedKeeps ==
  ASSUME NEW s, NEW b \in Nat, SessionOK(s, b)
  PROVE  /\ SessionOK(Enqueued(s, b), b)
         /\ Enqueued(s, b).queue # <<>>
         /\ Enqueued(s, b).link = s.link
<1> DEFINE q == Append(s.queue, Item(b))
<1>1. s \in Session /\ s.queue \in Seq(Report) /\ Item(b) \in Report /\ Item(b).bind = b
  BY DEF SessionOK, Session, Item, Report
<1>2. q \in Seq(Report) /\ Len(q) = Len(s.queue) + 1 /\ Len(s.queue) \in Nat
      /\ q[Len(s.queue) + 1] = Item(b) /\ \A i \in 1..Len(s.queue) : q[i] = s.queue[i]
  BY <1>1, AppendProperties
<1>3. Bound(q, b) /\ q # <<>>
  BY <1>1, <1>2 DEF Bound, SessionOK
<1>4. Enqueued(s, b) = [s EXCEPT !.queue = q, !.due = TRUE]
  BY DEF Enqueued
<1> HIDE DEF q
<1> QED BY <1>1, <1>2, <1>3, <1>4 DEF SessionOK, Session

\* cancel(): the session keeps its binding whether or not its queue is cleared.
LEMMA CancelledKeeps ==
  ASSUME NEW s, NEW b \in Nat, NEW clear \in BOOLEAN, SessionOK(s, b)
  PROVE  /\ SessionOK(Cancelled(s, clear), b) /\ ~Cancelled(s, clear).due
         /\ Cancelled(s, clear).queue = (IF clear THEN <<>> ELSE s.queue)
         /\ Cancelled(s, clear).storedQueue = s.storedQueue
         /\ Cancelled(s, clear).link = s.link
<1>1. s \in Session /\ <<>> \in Seq(Report) /\ Bound(<<>>, b)
  BY DEF SessionOK, Bound
<1> QED BY <1>1 DEF Cancelled, SessionOK, Session

-----------------------------------------------------------------------------
(***************************************************************************)
(* One step per operation                                                  *)
(***************************************************************************)

\* The provider that is left keeps its reports, without a task and a due time.
LEMMA LeftKeeps ==
  ASSUME ReportingInv, NEW k \in Keys, NEW ok \in BOOLEAN
  PROVE  /\ LeftSess(k, ok) \in [Keys -> Session]
         /\ LeftTasks(k) \in [Keys -> SUBSET Task]
         /\ LeftSess(k, ok)[k] = sess[k] /\ LeftTasks(k)[k] = tasks[k]
         /\ \A j \in Keys : KeyOK(LeftSess(k, ok)[j], LeftTasks(k)[j], binding[j], open)
         /\ \A j \in Keys : Fresh(LeftSess(k, ok)[j], LeftTasks(k)[j], open, selection[j], j \in restored)
<1>1. CASE ~Leaves(k)
  BY <1>1 DEF LeftSess, LeftTasks, ReportingInv, StateTypes
<1>2. CASE Leaves(k)
  <2> DEFINE s == Save(Cancelled(sess[active], FALSE), ok)
             ts == CancelTask(tasks[active])
  <2>1. active \in Keys /\ active # k /\ selection[active] # None
    BY <1>2 DEF Leaves, ReportingInv, StateTypes
  <2>2. /\ binding[active] \in Nat /\ tasks[active] \in SUBSET Task /\ open \in BOOLEAN
        /\ KeyOK(sess[active], tasks[active], binding[active], open)
    BY <2>1 DEF ReportingInv, StateTypes
  <2>3. SessionOK(Cancelled(sess[active], FALSE), binding[active])
        /\ ~Cancelled(sess[active], FALSE).due
    BY <2>2, CancelledKeeps DEF KeyOK
  <2>4. SessionOK(s, binding[active]) /\ ~s.due
    BY <2>2, <2>3, SaveKeeps
  <2>5. ts \subseteq Task /\ TasksOK(ts, s, binding[active])
    BY <2>2, CancelKeeps
  <2>6. KeyOK(s, ts, binding[active], open) /\ s \in Session
    BY <2>4, <2>5 DEF KeyOK, Served1, SessionOK
  <2>7. /\ LeftSess(k, ok) = [sess EXCEPT ![active] = s]
        /\ LeftTasks(k) = [tasks EXCEPT ![active] = ts]
    BY <1>2 DEF LeftSess, LeftTasks
  <2> HIDE DEF s, ts
  <2>8. /\ LeftSess(k, ok) \in [Keys -> Session]
        /\ LeftTasks(k) \in [Keys -> SUBSET Task]
        /\ LeftSess(k, ok)[active] = s /\ LeftTasks(k)[active] = ts
        /\ \A j \in Keys \ {active} :
             LeftSess(k, ok)[j] = sess[j] /\ LeftTasks(k)[j] = tasks[j]
    BY <2>1, <2>5, <2>6, <2>7 DEF ReportingInv, StateTypes
  <2>9. ASSUME NEW j \in Keys
        PROVE  /\ KeyOK(LeftSess(k, ok)[j], LeftTasks(k)[j], binding[j], open)
               /\ Fresh(LeftSess(k, ok)[j], LeftTasks(k)[j], open, selection[j], j \in restored)
    <3>1. CASE j = active
      BY <2>1, <2>6, <2>8, <3>1 DEF Fresh
    <3>2. CASE j # active
      BY <2>8, <3>2 DEF ReportingInv
    <3> QED BY <3>1, <3>2
  <2> QED BY <2>1, <2>8, <2>9
<1> QED BY <1>1, <1>2

\* What is left of the session an observation is about, when the earlier binding
\* has been dropped, holds no report of another binding than the one that follows.
LEMMA DroppedKeeps ==
  ASSUME ReportingInv, open, NEW k \in Keys, NEW sel \in Selections, NEW mode,
         NEW at \in {"none", "cancel", "link", "enqueue"}
  PROVE  LET s == DroppedSess(k, sel, mode, at)
             ts == DroppedTasks(k, sel, mode)
         IN /\ SessionOK(s, binding[k]) /\ TasksOK(ts, s, binding[k]) /\ ts \subseteq Task
            /\ NewSelection(k, sel, mode) => PostTask \notin ts /\ s.queue = <<>>
            /\ NewSelection(k, sel, mode) /\ at # "cancel" => s.storedQueue = <<>>
            /\ Drops(k, sel, mode) /\ at = "cancel" => s.broken
<1> DEFINE s == DroppedSess(k, sel, mode, at)
           ts == DroppedTasks(k, sel, mode)
<1>1. /\ LeftSess(k, TRUE)[k] = sess[k] /\ LeftTasks(k)[k] = tasks[k]
      /\ SessionOK(sess[k], binding[k]) /\ TasksOK(tasks[k], sess[k], binding[k])
      /\ binding[k] \in Nat /\ tasks[k] \in SUBSET Task
      /\ Fresh(sess[k], tasks[k], open, selection[k], k \in restored)
  BY LeftKeeps DEF ReportingInv, StateTypes, KeyOK
<1>2. CASE Drops(k, sel, mode)
  <2>1. s = Save(Cancelled(sess[k], TRUE), at # "cancel") /\ ts = CancelTask(tasks[k])
    BY <1>1, <1>2 DEF DroppedSess, DroppedTasks
  <2>2. /\ SessionOK(Cancelled(sess[k], TRUE), binding[k])
        /\ Cancelled(sess[k], TRUE).queue = <<>>
    BY <1>1, CancelledKeeps
  <2>3. /\ SessionOK(s, binding[k]) /\ s.queue = <<>>
        /\ at # "cancel" => s.storedQueue = <<>>
        /\ at = "cancel" => s.broken
    <3> DEFINE c == Cancelled(sess[k], TRUE)
               ok == at # "cancel"
    <3>1. ok \in BOOLEAN
      OBVIOUS
    <3> HIDE DEF c, ok
    <3>2. /\ SessionOK(Save(c, ok), binding[k]) /\ Save(c, ok).queue = c.queue
          /\ ok => Save(c, ok).storedQueue = c.queue
          /\ ~ok => Save(c, ok).broken
      BY <1>1, <2>2, <3>1, SaveKeeps DEF c
    <3> QED BY <2>1, <2>2, <3>2 DEF c, ok
  <2>4. ts \subseteq Task /\ TasksOK(ts, s, binding[k])
    BY <1>1, <2>1, CancelKeeps
  <2>5. PostTask \notin ts
    <3>1. \A t \in CancelTask(tasks[k]) : t.cancelled
      BY <1>1, CancelKeeps
    <3> QED BY <2>1, <3>1 DEF PostTask
  <2> QED BY <2>3, <2>4, <2>5
<1>3. CASE ~Drops(k, sel, mode)
  <2>1. s = sess[k] /\ ts = tasks[k]
    BY <1>1, <1>3 DEF DroppedSess, DroppedTasks
  <2>2. NewSelection(k, sel, mode) => s.queue = <<>> /\ s.storedQueue = <<>>
    BY <1>1, <1>3, <2>1 DEF Drops, Fresh
  <2>3. NewSelection(k, sel, mode) => PostTask \notin ts
    BY <1>1, <2>1, <2>2 DEF TasksOK
  <2> QED BY <1>1, <1>3, <2>1, <2>2, <2>3
<1> QED BY <1>2, <1>3

\* The link of the new binding: it may replace an older one because nothing of
\* the older binding is left.
LEMMA LinkedKeeps ==
  ASSUME ReportingInv, open, NEW k \in Keys, NEW sel \in Selections, NEW mode,
         NEW at \in {"none", "link", "enqueue"}
  PROVE  LET b == Bind(k, sel, mode)
             s == Linked(DroppedSess(k, sel, mode, at), b, at)
             ts == DroppedTasks(k, sel, mode)
         IN /\ b \in Nat /\ ts \subseteq Task
            /\ SessionOK(s, b) /\ TasksOK(ts, s, b) /\ s.link = b
            /\ at = "link" => s.broken
<1> DEFINE b == Bind(k, sel, mode)
           d == DroppedSess(k, sel, mode, at)
           ts == DroppedTasks(k, sel, mode)
           l == [d EXCEPT !.link = b]
           new == NewSelection(k, sel, mode)
<1>1. /\ SessionOK(d, binding[k]) /\ TasksOK(ts, d, binding[k]) /\ ts \subseteq Task
      /\ new => PostTask \notin ts /\ d.queue = <<>> /\ d.storedQueue = <<>>
  BY DroppedKeeps
<1>2. b \in Nat /\ binding[k] \in Nat /\ (~new => b = binding[k])
  BY DEF Bind, ReportingInv, StateTypes
<1>3. Linked(d, b, at) = Save(l, at # "link")
  BY DEF Linked
<1> HIDE DEF b, d, ts, new
<1>4. /\ l \in Session /\ l.link = b /\ l.queue = d.queue
      /\ l.storedQueue = d.storedQueue /\ l.row = d.row
  BY <1>1, <1>2 DEF SessionOK, Session
<1>5. Bound(l.queue, b) /\ Bound(l.storedQueue, b)
  <2>1. CASE new
    BY <1>1, <1>4, <2>1 DEF Bound
  <2>2. CASE ~new
    BY <1>1, <1>2, <1>4, <2>2 DEF SessionOK
  <2> QED BY <2>1, <2>2
<1> HIDE DEF l
<1>6. SessionOK(l, b)
  BY <1>1, <1>4, <1>5 DEF SessionOK
<1>7. TasksOK(ts, l, b)
  BY <1>1, <1>4 DEF TasksOK
<1>8. /\ SessionOK(Save(l, at # "link"), b) /\ Save(l, at # "link").link = b
      /\ Save(l, at # "link").queue = l.queue
      /\ at = "link" => Save(l, at # "link").broken
  BY <1>2, <1>4, <1>6, SaveKeeps
<1>9. TasksOK(ts, Save(l, at # "link"), b)
  BY <1>4, <1>7, <1>8 DEF TasksOK
<1> QED BY <1>1, <1>2, <1>3, <1>8, <1>9 DEF b, d, ts

\* An operation on one session leaves the others alone.
LEMMA OneSession ==
  ASSUME ReportingInv, NEW k \in Keys, NEW s, NEW ts,
         KeyOK(s, ts, binding[k], open),
         Fresh(s, ts, open, selection[k], k \in restored),
         sess' = [sess EXCEPT ![k] = s], tasks' = [tasks EXCEPT ![k] = ts],
         UNCHANGED <<selection, active, restored, open, binding>>
  PROVE  ReportingInv'
<1>1. s \in Session /\ ts \in SUBSET Task
  BY DEF KeyOK, SessionOK, TasksOK
<1>2. StateTypes'
  BY <1>1 DEF ReportingInv, StateTypes
<1>3. sess'[k] = s /\ tasks'[k] = ts
      /\ \A j \in Keys : j # k => sess'[j] = sess[j] /\ tasks'[j] = tasks[j]
  BY DEF ReportingInv, StateTypes
<1>4. ASSUME NEW j \in Keys
      PROVE  /\ KeyOK(sess'[j], tasks'[j], binding'[j], open')
             /\ Fresh(sess'[j], tasks'[j], open', selection'[j], (j \in restored)')
  BY <1>3 DEF ReportingInv
<1> QED BY <1>2, <1>4 DEF ReportingInv

\* An observation that is refused has at most left another provider.
LEMMA RefusedObservation ==
  ASSUME ReportingInv, NEW k \in Keys, NEW mode, ObserveRefused(k, mode)
  PROVE  ReportingInv'
<1>1. PICK ok \in BOOLEAN : sess' = LeftSess(k, ok)
  BY DEF ObserveRefused, MayFail
<1>2. tasks' = LeftTasks(k) /\ UNCHANGED <<selection, active, restored, open, binding>>
  BY DEF ObserveRefused
<1>3. StateTypes'
  BY <1>1, <1>2, LeftKeeps DEF ReportingInv, StateTypes
<1>4. ASSUME NEW j \in Keys
      PROVE  /\ KeyOK(sess'[j], tasks'[j], binding'[j], open')
             /\ Fresh(sess'[j], tasks'[j], open', selection'[j], (j \in restored)')
  BY <1>1, <1>2, LeftKeeps
<1> QED BY <1>2, <1>3, <1>4 DEF ReportingInv

\* The session an observation is about, after its last step.
LEMMA ObservedSession ==
  ASSUME ReportingInv, open, NEW k \in Keys, NEW sel \in Selections, NEW mode,
         NEW at \in {"none", "link", "enqueue"}, at = "enqueue" => NewSelection(k, sel, mode)
  PROVE  LET new == NewSelection(k, sel, mode)
             b == Bind(k, sel, mode)
             ts == DroppedTasks(k, sel, mode)
             linked == Linked(DroppedSess(k, sel, mode, at), b, at)
             started == Started(Scheduled(linked), b, at)
         IN KeyOK(IF at = "link" THEN linked
                  ELSE IF ~new THEN Scheduled(linked) ELSE started,
                  IF at = "link" THEN ts
                  ELSE IF new /\ at = "none" /\ ~Full(linked)
                  THEN ScheduleDue(ScheduleDue(ts, linked), started)
                  ELSE ScheduleDue(ts, linked),
                  b, TRUE)
<1> DEFINE new == NewSelection(k, sel, mode)
           b == Bind(k, sel, mode)
           ts == DroppedTasks(k, sel, mode)
           linked == Linked(DroppedSess(k, sel, mode, at), b, at)
           sched == Scheduled(linked)
           body == IF Full(sched) THEN sched ELSE Enqueued(sched, b)
           ok == at # "enqueue"
           started == Started(sched, b, at)
           once == ScheduleDue(ts, linked)
           twice == ScheduleDue(once, started)
<1>1. /\ b \in Nat /\ ts \in SUBSET Task
      /\ SessionOK(linked, b) /\ TasksOK(ts, linked, b) /\ linked.link = b
      /\ at = "link" => linked.broken
  BY LinkedKeeps
<1>2. started = Save(body, ok) /\ ok \in BOOLEAN
  BY DEF Started
<1>3. sched = [linked EXCEPT !.broken = FALSE]
  BY DEF Scheduled
<1>4. Full(sched) <=> Len(sched.queue) >= Capacity
  BY DEF Full
<1>5. Full(linked) <=> Len(linked.queue) >= Capacity
  BY DEF Full
<1> HIDE DEF new, b, ts, linked, sched, started, once, twice, ok
<1>6. /\ SessionOK(sched, b) /\ sched.queue = linked.queue
      /\ sched.due = linked.due /\ sched.link = linked.link
  BY <1>1, <1>3 DEF SessionOK, Session
<1>7. Full(sched) <=> Full(linked)
  BY <1>4, <1>5, <1>6
<1>8. TasksOK(once, linked, b) /\ Served1(once, linked, TRUE)
  BY <1>1, ScheduleKeeps DEF once
<1>9. TasksOK(once, sched, b) /\ (sched.due /\ sched.link # 0 => \E t \in once : ~t.cancelled)
  <2>1. sched.due /\ sched.link # 0 => \E t \in once : ~t.cancelled
    <3>1. Served1(once, sched, TRUE)
      <4>1. once = ScheduleDue(ts, sched)
        BY <1>6 DEF once, ScheduleDue, Arm
      <4> QED BY <1>1, <1>6, <4>1, ScheduleKeeps
    <3>2. ~sched.broken
      BY <1>1, <1>3 DEF SessionOK, Session
    <3> QED BY <3>1, <3>2 DEF Served1
  <2> QED BY <1>6, <1>8, <2>1 DEF TasksOK
<1>10. KeyOK(sched, once, b, TRUE)
  BY <1>6, <1>9 DEF KeyOK, Served1
<1>11. SessionOK(body, b) /\ (Full(linked) => body = sched)
  BY <1>1, <1>6, <1>7, EnqueuedKeeps
<1> HIDE DEF body
<1>12. SessionOK(started, b) /\ (started.broken <=> (body.broken \/ ~ok))
       /\ started.queue = body.queue /\ started.due = body.due /\ started.link = body.link
  BY <1>1, <1>2, <1>11, SaveKeeps
<1>13. TasksOK(twice, started, b) /\ Served1(twice, started, TRUE)
  <2>1. once \in SUBSET Task
    BY <1>8 DEF TasksOK
  <2> QED BY <1>1, <1>12, <2>1, ScheduleKeeps DEF twice
<1>14. at = "link" => KeyOK(linked, ts, b, TRUE)
  BY <1>1 DEF KeyOK, Served1
<1>16. KeyOK(started, twice, b, TRUE)
  BY <1>12, <1>13 DEF KeyOK
<1>17. ASSUME Full(linked)
       PROVE  KeyOK(started, once, b, TRUE)
  <2>1. KeyOK(Save(sched, ok), once, b, TRUE)
    BY <1>1, <1>2, <1>10, SaveKeepsTasks DEF KeyOK
  <2> QED BY <1>2, <1>11, <1>17, <2>1
<1>18. ASSUME at = "enqueue", ~Full(linked)
       PROVE  KeyOK(started, once, b, TRUE)
  <2>1. body = Enqueued(sched, b)
    BY <1>7, <1>18 DEF body
  <2>2. body.queue # <<>> /\ body.link = sched.link
    BY <1>1, <1>6, <2>1, EnqueuedKeeps
  <2>3. TasksOK(once, started, b)
    BY <1>6, <1>9, <1>12, <2>2 DEF TasksOK
  <2>4. started.broken
    BY <1>12, <1>18 DEF ok
  <2> QED BY <1>12, <1>18, <2>3, <2>4 DEF KeyOK, Served1
<1>19. KeyOK(IF at = "link" THEN linked ELSE IF ~new THEN sched ELSE started,
             IF at = "link" THEN ts
             ELSE IF new /\ at = "none" /\ ~Full(linked) THEN twice ELSE once,
             b, TRUE)
  <2>1. CASE at = "link"
    BY <1>14, <2>1
  <2>2. CASE at # "link" /\ ~new
    BY <1>10, <2>2
  <2>3. CASE at # "link" /\ new /\ Full(linked)
    BY <1>17, <2>3
  <2>4. CASE at = "enqueue" /\ new /\ ~Full(linked)
    BY <1>18, <2>4
  <2>5. CASE at = "none" /\ new /\ ~Full(linked)
    BY <1>16, <2>5
  <2> QED BY <2>1, <2>2, <2>3, <2>4, <2>5
<1> QED BY <1>19 DEF new, b, ts, linked, sched, started, once, twice

\* observe_external_provider_selection_response(), whichever of its saves raises.
LEMMA Observation ==
  ASSUME ReportingInv, ReportingAssumption, NEW k \in Keys, NEW sel \in Selections, NEW mode,
         Observe(k, sel, mode)
  PROVE  ReportingInv'
<1> DEFINE new == NewSelection(k, sel, mode)
           b == Bind(k, sel, mode)
           linked(at) == Linked(DroppedSess(k, sel, mode, at), b, at)
           ts == DroppedTasks(k, sel, mode)
<1>1. open /\ UNCHANGED <<restored, open>>
  BY DEF Observe, Call
<1>2. PICK at \in {"none", "cancel", "link", "enqueue"} : ObserveAt(k, sel, mode, at)
  BY DEF Observe
<1>3. sel # None
  BY DEF ReportingAssumption
<1>4. /\ LeftSess(k, TRUE) \in [Keys -> Session] /\ LeftTasks(k) \in [Keys -> SUBSET Task]
      /\ \A j \in Keys : KeyOK(LeftSess(k, TRUE)[j], LeftTasks(k)[j], binding[j], open)
      /\ \A j \in Keys : Fresh(LeftSess(k, TRUE)[j], LeftTasks(k)[j], open, selection[j],
                               j \in restored)
  BY LeftKeeps
<1>5. CASE at = "cancel"
  <2> DEFINE d == DroppedSess(k, sel, mode, at)
  <2>1. /\ Drops(k, sel, mode)
        /\ sess' = [LeftSess(k, TRUE) EXCEPT ![k] = d]
        /\ tasks' = [LeftTasks(k) EXCEPT ![k] = ts]
        /\ UNCHANGED <<selection, active, binding>>
    BY <1>2, <1>5 DEF ObserveAt
  <2>2. /\ SessionOK(d, binding[k]) /\ TasksOK(ts, d, binding[k])
        /\ d.broken
    BY <1>1, <1>5, <2>1, DroppedKeeps
  <2>3. selection[k] # None \/ k \in restored
    BY <2>1 DEF Drops
  <2> HIDE DEF d, ts
  <2>4. d \in Session /\ ts \in SUBSET Task
    BY <2>2 DEF SessionOK, TasksOK
  <2>5. KeyOK(d, ts, binding[k], open) /\ Fresh(d, ts, open, selection[k], k \in restored)
    BY <2>2, <2>3 DEF KeyOK, Served1, Fresh
  <2>6. /\ sess'[k] = d /\ tasks'[k] = ts
        /\ \A j \in Keys : j # k => sess'[j] = LeftSess(k, TRUE)[j]
                                    /\ tasks'[j] = LeftTasks(k)[j]
        /\ sess' \in [Keys -> Session] /\ tasks' \in [Keys -> SUBSET Task]
    BY <1>4, <2>1, <2>4
  <2>7. StateTypes'
    BY <1>1, <2>1, <2>6 DEF ReportingInv, StateTypes
  <2>8. ASSUME NEW j \in Keys
        PROVE  /\ KeyOK(sess'[j], tasks'[j], binding'[j], open')
               /\ Fresh(sess'[j], tasks'[j], open', selection'[j], (j \in restored)')
    BY <1>1, <1>4, <2>1, <2>5, <2>6
  <2> QED BY <2>1, <2>7, <2>8 DEF ReportingInv
<1>6. CASE at # "cancel"
  <2> DEFINE started == Started(Scheduled(linked(at)), b, at)
             s == IF at = "link" THEN linked(at)
                  ELSE IF ~new THEN Scheduled(linked(at)) ELSE started
             t == IF at = "link" THEN ts
                  ELSE IF new /\ at = "none" /\ ~Full(linked(at))
                  THEN ScheduleDue(ScheduleDue(ts, linked(at)), started)
                  ELSE ScheduleDue(ts, linked(at))
  <2>1. /\ sess' = [LeftSess(k, TRUE) EXCEPT ![k] = s]
        /\ tasks' = [LeftTasks(k) EXCEPT ![k] = t]
        /\ selection' = [selection EXCEPT ![k] = sel] /\ active' = k
        /\ binding' = [binding EXCEPT ![k] = b]
        /\ at = "enqueue" => new
    BY <1>2, <1>6 DEF ObserveAt
  <2>2. b \in Nat
    BY DEF Bind, ReportingInv, StateTypes
  <2>3. KeyOK(s, t, b, TRUE)
    BY <1>1, <1>6, <2>1, ObservedSession
  <2> HIDE DEF s, t, b
  <2>4. s \in Session /\ t \in SUBSET Task /\ open = TRUE
    BY <1>1, <2>3 DEF KeyOK, SessionOK, TasksOK, ReportingInv, StateTypes
  <2>5. /\ sess'[k] = s /\ tasks'[k] = t /\ binding'[k] = b /\ selection'[k] = sel
        /\ \A j \in Keys : j # k => /\ sess'[j] = LeftSess(k, TRUE)[j]
                                    /\ tasks'[j] = LeftTasks(k)[j]
                                    /\ selection'[j] = selection[j]
                                    /\ binding'[j] = binding[j]
        /\ sess' \in [Keys -> Session] /\ tasks' \in [Keys -> SUBSET Task]
    BY <1>4, <2>1, <2>4 DEF ReportingInv, StateTypes
  <2>6. StateTypes'
    BY <1>1, <2>1, <2>2, <2>5 DEF ReportingInv, StateTypes
  <2>7. ASSUME NEW j \in Keys
        PROVE  /\ KeyOK(sess'[j], tasks'[j], binding'[j], open')
               /\ Fresh(sess'[j], tasks'[j], open', selection'[j], (j \in restored)')
    <3>1. CASE j = k
      BY <1>1, <1>3, <2>3, <2>4, <2>5, <3>1 DEF Fresh
    <3>2. CASE j # k
      BY <1>1, <1>4, <2>5, <3>2
    <3> QED BY <3>1, <3>2
  <2> QED BY <1>3, <2>1, <2>5, <2>6, <2>7 DEF ReportingInv
<1> QED BY <1>5, <1>6

\* enqueue_report(), with a full queue or a failing save.
LEMMA Enqueueing ==
  ASSUME ReportingInv, NEW k \in Keys, EnqueueReport(k)
  PROVE  ReportingInv'
<1> DEFINE body == IF Full(sess[k]) THEN sess[k] ELSE Enqueued(sess[k], binding[k])
<1>1. /\ SessionOK(sess[k], binding[k]) /\ TasksOK(tasks[k], sess[k], binding[k])
      /\ Served1(tasks[k], sess[k], open) /\ binding[k] \in Nat /\ tasks[k] \in SUBSET Task
  BY DEF ReportingInv, KeyOK, StateTypes
<1>2. open = TRUE /\ selection[k] # None
      /\ UNCHANGED <<selection, active, restored, open, binding>>
  BY DEF EnqueueReport, Call, ReportingInv, StateTypes
<1>3. PICK ok \in BOOLEAN :
        LET s == Save(body, ok)
            armed == ok /\ ~Full(sess[k])
        IN /\ sess' = [sess EXCEPT ![k] = IF armed THEN [s EXCEPT !.broken = FALSE] ELSE s]
           /\ tasks' = [tasks EXCEPT ![k] = IF armed THEN ScheduleDue(@, s) ELSE @]
  BY DEF EnqueueReport, MayFail
<1>4. CASE Full(sess[k])
  <2>1. KeyOK(Save(sess[k], ok), tasks[k], binding[k], open)
    BY <1>1, <1>2, SaveKeepsTasks
  <2>2. sess' = [sess EXCEPT ![k] = Save(sess[k], ok)]
        /\ tasks' = [tasks EXCEPT ![k] = tasks[k]]
    BY <1>3, <1>4
  <2>3. Fresh(Save(sess[k], ok), tasks[k], open, selection[k], k \in restored)
    BY <1>2 DEF Fresh
  <2> QED BY <1>2, <2>1, <2>2, <2>3, OneSession
<1>5. CASE ~Full(sess[k])
  <2> DEFINE e == Enqueued(sess[k], binding[k])
             s == Save(e, ok)
             h == [s EXCEPT !.broken = FALSE]
  <2>1. SessionOK(e, binding[k]) /\ e.queue # <<>> /\ e.link = sess[k].link
    BY <1>1, EnqueuedKeeps
  <2> HIDE DEF e
  <2>2. /\ SessionOK(s, binding[k]) /\ s.queue # <<>> /\ s.link = sess[k].link
        /\ ~ok => s.broken
    BY <1>1, <2>1, SaveKeeps
  <2>3. body = e
    BY <1>5 DEF e
  <2> HIDE DEF s
  <2>4. CASE ok
    <3>1. /\ sess' = [sess EXCEPT ![k] = h]
          /\ tasks' = [tasks EXCEPT ![k] = ScheduleDue(tasks[k], s)]
      BY <1>3, <1>5, <2>3, <2>4 DEF s
    <3>2. /\ SessionOK(h, binding[k]) /\ h.queue = s.queue /\ h.due = s.due
          /\ h.link = s.link
      BY <2>2 DEF SessionOK, Session
    <3> HIDE DEF h
    <3>3. ScheduleDue(tasks[k], s) = ScheduleDue(tasks[k], h)
      BY <3>2 DEF ScheduleDue, Arm
    <3>4. KeyOK(h, ScheduleDue(tasks[k], s), binding[k], open)
      BY <1>1, <1>2, <3>2, <3>3, ScheduleKeeps DEF KeyOK
    <3>5. Fresh(h, ScheduleDue(tasks[k], s), open, selection[k], k \in restored)
      BY <1>2 DEF Fresh
    <3> QED BY <1>2, <3>1, <3>4, <3>5, OneSession
  <2>5. CASE ~ok
    <3>1. sess' = [sess EXCEPT ![k] = s] /\ tasks' = [tasks EXCEPT ![k] = tasks[k]]
      BY <1>3, <2>3, <2>5 DEF s
    <3>2. TasksOK(tasks[k], s, binding[k])
      BY <1>1, <2>2 DEF TasksOK
    <3>3. KeyOK(s, tasks[k], binding[k], open)
      BY <2>2, <2>5, <3>2 DEF KeyOK, Served1
    <3>4. Fresh(s, tasks[k], open, selection[k], k \in restored)
      BY <1>2 DEF Fresh
    <3> QED BY <1>2, <3>1, <3>3, <3>4, OneSession
  <2> QED BY <2>4, <2>5
<1> QED BY <1>4, <1>5

\* The task that is not cancelled is the only one, and its session is not fresh.
LEMMA OtherTasks ==
  ASSUME ReportingInv, NEW k \in Keys, NEW t \in tasks[k]
  PROVE  /\ ~t.cancelled => \A u \in tasks[k] \ {t} : u.cancelled
         /\ ~t.cancelled => sess[k].link = binding[k]
         /\ (tasks[k] \ {t}) \in SUBSET Task
         /\ SessionOK(sess[k], binding[k]) /\ binding[k] \in Nat /\ open \in BOOLEAN
         /\ \A s, ts : Fresh(s, ts, open, selection[k], k \in restored)
<1>1. /\ TasksOK(tasks[k], sess[k], binding[k]) /\ SessionOK(sess[k], binding[k])
      /\ Fresh(sess[k], tasks[k], open, selection[k], k \in restored)
      /\ binding[k] \in Nat /\ open \in BOOLEAN
  BY DEF ReportingInv, KeyOK, StateTypes
<1>2. ~(open /\ selection[k] = None /\ ~(k \in restored))
  BY <1>1 DEF Fresh
<1> QED BY <1>1, <1>2 DEF TasksOK, Fresh

\* A session whose queue is replaced by another one of the same binding.
LEMMA Requeued ==
  ASSUME NEW s, NEW b \in Nat, SessionOK(s, b), NEW q \in Seq(Report), Bound(q, b),
         NEW d \in BOOLEAN
  PROVE  SessionOK([s EXCEPT !.queue = q, !.due = d], b)
<1>1. s \in Session
  BY DEF SessionOK
<1> QED BY <1>1 DEF SessionOK, Session

\* The head of a queue is the report that is posted; counting its attempt changes
\* nothing else.
LEMMA SentKeeps ==
  ASSUME ReportingInv, NEW k \in Keys
  PROVE  Sent(k) \in Seq(Report) /\ Bound(Sent(k), binding[k]) /\ Sent(k) # <<>>
<1> DEFINE q == IF sess[k].queue = <<>> THEN <<Item(binding[k])>> ELSE sess[k].queue
           h == [q[1] EXCEPT !.attempts = @ + 1]
<1>1. /\ sess[k].queue \in Seq(Report) /\ Bound(sess[k].queue, binding[k])
      /\ binding[k] \in Nat
  BY DEF ReportingInv, StateTypes, KeyOK, SessionOK, Session
<1>2. Item(binding[k]) \in Report /\ Item(binding[k]).bind = binding[k]
  BY <1>1 DEF Item, Report
<1>3. q \in Seq(Report) /\ Bound(q, binding[k]) /\ q # <<>>
  <2>1. CASE sess[k].queue = <<>>
    <3>1. q = <<Item(binding[k])>>
      BY <2>1
    <3>2. ASSUME NEW e \in Report
          PROVE  <<e>> \in Seq(Report) /\ Len(<<e>>) = 1 /\ <<e>>[1] = e /\ <<e>> # <<>>
      OBVIOUS
    <3>3. /\ q \in Seq(Report) /\ Len(q) = 1 /\ q[1] = Item(binding[k]) /\ q # <<>>
      BY <1>2, <3>1, <3>2
    <3> QED BY <1>2, <3>3 DEF Bound
  <2>2. CASE sess[k].queue # <<>>
    BY <1>1, <2>2
  <2> QED BY <2>1, <2>2
<1>4. Sent(k) = [q EXCEPT ![1] = h]
  BY DEF Sent
<1> HIDE DEF q
<1>5. Len(q) \in Nat /\ 1 \in 1..Len(q) /\ q[1] \in Report /\ q[1].bind = binding[k]
  BY <1>3 DEF Bound
<1>6. h \in Report /\ h.bind = binding[k]
  BY <1>5 DEF Report
<1> HIDE DEF h
<1>7. Sent(k) \in Seq(Report) /\ Len(Sent(k)) = Len(q)
      /\ \A i \in 1..Len(q) : Sent(k)[i] = IF i = 1 THEN h ELSE q[i]
  BY <1>3, <1>4, <1>5, <1>6, ExceptSeq
<1> QED BY <1>3, <1>5, <1>6, <1>7 DEF Bound

\* The queue without its head.
LEMMA TailKeeps ==
  ASSUME NEW q \in Seq(Report), NEW b, q # <<>>, Bound(q, b)
  PROVE  Tail(q) \in Seq(Report) /\ Bound(Tail(q), b)
<1>1. /\ Tail(q) \in Seq(Report) /\ Len(Tail(q)) = Len(q) - 1
      /\ \A i \in 1..Len(Tail(q)) : Tail(q)[i] = q[i + 1]
  BY HeadTailProperties
<1> QED BY <1>1 DEF Bound

\* The runner records the attempt and posts.
LEMMA Posts ==
  ASSUME ReportingInv, NEW k \in Keys, Post(k)
  PROVE  ReportingInv'
<1>1. PICK ok \in BOOLEAN :
        /\ sess' = [sess EXCEPT ![k] = Save([sess[k] EXCEPT !.queue = Sent(k)], ok)]
        /\ tasks' = [tasks EXCEPT ![k] = (tasks[k] \ {Sleeping}) \cup
                                         (IF ok THEN {PostTask} ELSE {})]
  BY DEF Post, MayFail, PostTask
<1>2. Sleeping \in tasks[k] /\ UNCHANGED <<selection, active, restored, open, binding>>
  BY DEF Post
<1> DEFINE s == [sess[k] EXCEPT !.queue = Sent(k)]
           rest == tasks[k] \ {Sleeping}
           ts == rest \cup (IF ok THEN {PostTask} ELSE {})
<1>3. ~Sleeping.cancelled /\ PostTask \in Task /\ ~PostTask.cancelled
  BY DEF Sleeping, PostTask, Task
<1>4. /\ \A u \in rest : u.cancelled
      /\ rest \in SUBSET Task /\ sess[k].link = binding[k]
      /\ SessionOK(sess[k], binding[k]) /\ binding[k] \in Nat /\ open \in BOOLEAN
      /\ \A r, us : Fresh(r, us, open, selection[k], k \in restored)
  BY <1>2, <1>3, OtherTasks
<1>5. SessionOK(s, binding[k]) /\ s.queue # <<>> /\ s.link = binding[k]
  BY <1>4, SentKeeps DEF SessionOK, Session
<1> HIDE DEF s, rest
<1>6. TasksOK(ts, s, binding[k]) /\ (ok => Served1(ts, s, open))
  <2>1. CASE ok
    BY <1>3, <1>4, <1>5, <2>1 DEF TasksOK, Served1
  <2>2. CASE ~ok
    BY <1>3, <1>4, <1>5, <2>2 DEF TasksOK
  <2> QED BY <2>1, <2>2
<1> HIDE DEF ts
<1>7. KeyOK(Save(s, ok), ts, binding[k], open)
  BY <1>4, <1>5, <1>6, SaveKeepsTasks
<1>8. sess' = [sess EXCEPT ![k] = Save(s, ok)] /\ tasks' = [tasks EXCEPT ![k] = ts]
  BY <1>1 DEF s, ts, rest
<1> QED BY <1>2, <1>4, <1>7, <1>8, OneSession

\* HTTP 200.
LEMMA Acceptance ==
  ASSUME ReportingInv, NEW k \in Keys, Accepted(k)
  PROVE  ReportingInv'
<1> DEFINE note == [pc |-> "notify", cancelled |-> FALSE]
           rest == Tail(sess[k].queue)
           left == tasks[k] \ {PostTask}
<1>1. PICK hint \in BOOLEAN :
        /\ sess' = [sess EXCEPT ![k] =
             Save([sess[k] EXCEPT !.queue = rest, !.due = hint \/ rest # <<>>], TRUE)]
        /\ tasks' = [tasks EXCEPT ![k] = left \cup {note}]
  BY DEF Accepted, Hint, Ends, PostTask
<1>2. PostTask \in tasks[k] /\ UNCHANGED <<selection, active, restored, open, binding>>
  BY DEF Accepted, Posting, PostTask
<1> DEFINE due == hint \/ rest # <<>>
           s == [sess[k] EXCEPT !.queue = rest, !.due = due]
           ts == left \cup {note}
<1>3. ~PostTask.cancelled /\ note \in Task /\ ~note.cancelled /\ note # PostTask
  BY DEF PostTask, Task
<1>4. /\ \A u \in left : u.cancelled
      /\ left \in SUBSET Task /\ sess[k].link = binding[k]
      /\ SessionOK(sess[k], binding[k]) /\ binding[k] \in Nat /\ open \in BOOLEAN
      /\ \A r, us : Fresh(r, us, open, selection[k], k \in restored)
  BY <1>2, <1>3, OtherTasks
<1>5. sess[k].queue # <<>>
  BY <1>2 DEF ReportingInv, KeyOK, TasksOK
<1>6. rest \in Seq(Report) /\ Bound(rest, binding[k])
  BY <1>4, <1>5, TailKeeps DEF SessionOK, Session
<1>7. due \in BOOLEAN
  OBVIOUS
<1> HIDE DEF rest, due
<1>8. SessionOK(s, binding[k]) /\ s.link = binding[k]
  <2>1. SessionOK([sess[k] EXCEPT !.queue = rest, !.due = due], binding[k])
    BY <1>4, <1>6, <1>7, Requeued
  <2>2. s.link = sess[k].link
    BY <1>4 DEF SessionOK, Session
  <2> QED BY <1>4, <2>1, <2>2
<1> HIDE DEF s, left, note
<1>9. TasksOK(ts, s, binding[k]) /\ Served1(ts, s, open)
  <2>1. PostTask \notin left
    BY <1>3, <1>4
  <2> QED BY <1>3, <1>4, <1>8, <2>1 DEF TasksOK, Served1
<1> HIDE DEF ts
<1>10. KeyOK(Save(s, TRUE), ts, binding[k], open)
  BY <1>4, <1>8, <1>9, SaveKeepsTasks
<1>11. sess' = [sess EXCEPT ![k] = Save(s, TRUE)] /\ tasks' = [tasks EXCEPT ![k] = ts]
  BY <1>1 DEF s, ts, due, note
<1> QED BY <1>2, <1>4, <1>10, <1>11, OneSession

\* A failed attempt ends: the runner arms its successor if the session was saved.
LEMMA RetryKeeps ==
  ASSUME ReportingInv, NEW k \in Keys, Posting(k), NEW rest \in Seq(Report), NEW due \in BOOLEAN,
         NEW ok \in BOOLEAN, Bound(rest, binding[k]), Retried(k, rest, due, ok),
         UNCHANGED <<selection, active, restored, open, binding>>
  PROVE  ReportingInv'
<1> DEFINE left == tasks[k] \ {PostTask}
           s == [sess[k] EXCEPT !.queue = rest, !.due = due]
<1>1. /\ sess' = [sess EXCEPT ![k] = Save(s, ok)]
      /\ tasks' = [tasks EXCEPT ![k] =
             IF ok THEN Arm(left \cup {}, Save(s, ok)) ELSE left \cup {}]
  BY DEF Retried, Ends, PostTask
<1>2. PostTask \in tasks[k] /\ UNCHANGED <<selection, active, restored, open, binding>>
  BY DEF Posting, PostTask
<1>3. ~PostTask.cancelled
  BY DEF PostTask
<1>4. /\ \A u \in left : u.cancelled
      /\ left \in SUBSET Task /\ sess[k].link = binding[k]
      /\ SessionOK(sess[k], binding[k]) /\ binding[k] \in Nat /\ open \in BOOLEAN
      /\ \A r, us : Fresh(r, us, open, selection[k], k \in restored)
  BY <1>2, <1>3, OtherTasks
<1>5. SessionOK(s, binding[k]) /\ s.link = binding[k]
  <2>1. SessionOK([sess[k] EXCEPT !.queue = rest, !.due = due], binding[k])
    BY <1>4, Requeued
  <2>2. s.link = sess[k].link
    BY <1>4 DEF SessionOK, Session
  <2> QED BY <1>4, <2>1, <2>2
<1> HIDE DEF s
<1>6. SessionOK(Save(s, ok), binding[k]) /\ (~ok => Save(s, ok).broken)
  BY <1>4, <1>5, SaveKeeps
<1>7. left \cup {} = left
  OBVIOUS
<1> HIDE DEF left
<1>8. CASE ok
  <2>1. KeyOK(Save(s, ok), Arm(left, Save(s, ok)), binding[k], open)
    BY <1>4, <1>6, ArmKeeps DEF KeyOK
  <2> QED BY <1>1, <1>2, <1>4, <1>7, <1>8, <2>1, OneSession
<1>9. CASE ~ok
  <2>1. PostTask \notin left
    BY <1>3, <1>4
  <2>2. KeyOK(Save(s, ok), left, binding[k], open)
    BY <1>4, <1>6, <1>9, <2>1 DEF KeyOK, TasksOK, Served1
  <2> QED BY <1>1, <1>2, <1>4, <1>7, <1>9, <2>2, OneSession
<1> QED BY <1>8, <1>9

\* While a report is posted the queue holds it, and the rest is of the same binding.
LEMMA PostedQueue ==
  ASSUME ReportingInv, NEW k \in Keys, Posting(k)
  PROVE  /\ sess[k].queue \in Seq(Report) /\ Bound(sess[k].queue, binding[k])
         /\ Tail(sess[k].queue) \in Seq(Report) /\ Bound(Tail(sess[k].queue), binding[k])
<1>1. sess[k].queue # <<>>
  BY DEF Posting, PostTask, ReportingInv, KeyOK, TasksOK
<1>2. sess[k].queue \in Seq(Report) /\ Bound(sess[k].queue, binding[k])
  BY DEF ReportingInv, KeyOK, SessionOK, Session
<1> QED BY <1>1, <1>2, TailKeeps

\* Another status: the report stays, or is given up after its last attempt.
LEMMA Refusal ==
  ASSUME ReportingInv, NEW k \in Keys, Refused(k)
  PROVE  ReportingInv'
<1> DEFINE rest == IF LastAttempt(k) THEN Tail(sess[k].queue) ELSE sess[k].queue
           due == rest # <<>>
<1>1. PICK ok \in BOOLEAN : Retried(k, rest, due, ok)
  BY DEF Refused, MayFail
<1>2. Posting(k) /\ UNCHANGED <<selection, active, restored, open, binding>>
  BY DEF Refused
<1>3. rest \in Seq(Report) /\ Bound(rest, binding[k])
  BY <1>2, PostedQueue
<1>4. due \in BOOLEAN
  OBVIOUS
<1> HIDE DEF rest, due
<1> QED BY <1>1, <1>2, <1>3, <1>4, RetryKeeps

\* An accepted report whose acceptance is not saved takes the next one with it, or
\* leaves the session due.
LEMMA UnsavedAcceptance ==
  ASSUME ReportingInv, NEW k \in Keys, AcceptedUnsaved(k)
  PROVE  ReportingInv'
<1> DEFINE rest == Tail(sess[k].queue)
           next == IF LastAttempt(k) THEN Tail(rest) ELSE rest
           due == LastAttempt(k) => Tail(rest) # <<>>
<1>1. Posting(k) /\ UNCHANGED <<selection, active, restored, open, binding>>
  BY DEF AcceptedUnsaved
<1>2. rest \in Seq(Report) /\ Bound(rest, binding[k])
  BY <1>1, PostedQueue
<1>3. CASE \E hint \in BOOLEAN : Retried(k, rest, hint, FALSE)
  <2> HIDE DEF rest
  <2> QED BY <1>1, <1>2, <1>3, RetryKeeps
<1>4. CASE (LastAttempt(k) => rest # <<>>) /\ \E ok \in BOOLEAN : Retried(k, next, due, ok)
  <2> HIDE DEF rest
  <2>1. next \in Seq(Report) /\ Bound(next, binding[k])
    BY <1>2, <1>4, TailKeeps
  <2>2. due \in BOOLEAN
    OBVIOUS
  <2> HIDE DEF next, due
  <2> QED BY <1>1, <1>4, <2>1, <2>2, RetryKeeps
<1> QED BY <1>3, <1>4 DEF AcceptedUnsaved, Hint

\* The metadata was handed on: the successor is armed.
LEMMA Notification ==
  ASSUME ReportingInv, NEW k \in Keys, Notified(k)
  PROVE  ReportingInv'
<1> DEFINE note == [pc |-> "notify", cancelled |-> FALSE]
           left == tasks[k] \ {note}
<1>1. /\ note \in tasks[k] /\ UNCHANGED <<sess, selection, active, restored, open, binding>>
      /\ tasks' = [tasks EXCEPT ![k] = Arm(left \cup {}, sess[k])]
  BY DEF Notified, Ends
<1>2. ~note.cancelled /\ left \cup {} = left
  OBVIOUS
<1>3. /\ \A u \in left : u.cancelled
      /\ left \in SUBSET Task
      /\ SessionOK(sess[k], binding[k]) /\ binding[k] \in Nat /\ open \in BOOLEAN
      /\ \A r, us : Fresh(r, us, open, selection[k], k \in restored)
  BY <1>1, <1>2, OtherTasks
<1> HIDE DEF left, note
<1>4. KeyOK(sess[k], Arm(left, sess[k]), binding[k], open)
  BY <1>3, ArmKeeps DEF KeyOK
<1>5. sess' = [sess EXCEPT ![k] = sess[k]]
  BY <1>1 DEF ReportingInv, StateTypes
<1> QED BY <1>1, <1>2, <1>3, <1>4, <1>5, OneSession

\* A cancelled task ends.
LEMMA Unwinding ==
  ASSUME ReportingInv, NEW k \in Keys, Unwind(k)
  PROVE  ReportingInv'
<1>1. PICK t \in tasks[k] : t.cancelled /\ tasks' = [tasks EXCEPT ![k] = tasks[k] \ {t}]
  BY DEF Unwind
<1>2. UNCHANGED <<sess, selection, active, restored, open, binding>>
  BY DEF Unwind
<1>3. KeyOK(sess[k], tasks[k], binding[k], open)
      /\ \A r, us : Fresh(r, us, open, selection[k], k \in restored)
  BY <1>1, OtherTasks DEF ReportingInv
<1>4. KeyOK(sess[k], tasks[k] \ {t}, binding[k], open)
  BY <1>1, <1>3 DEF KeyOK, TasksOK, Served1
<1>5. sess' = [sess EXCEPT ![k] = sess[k]]
  BY <1>2 DEF ReportingInv, StateTypes
<1> QED BY <1>1, <1>2, <1>3, <1>4, <1>5, OneSession

\* shutdown() cancels every task.
LEMMA ShuttingDown ==
  ASSUME ReportingInv, Shutdown
  PROVE  ReportingInv'
<1>1. /\ open' = FALSE /\ tasks' = [k \in Keys |-> CancelTask(tasks[k])]
      /\ selection' = [k \in Keys |-> None] /\ active' = None
      /\ UNCHANGED <<sess, restored, binding>>
  BY DEF Shutdown
<1>2. ASSUME NEW k \in Keys
      PROVE  CancelTask(tasks[k]) \in SUBSET Task
             /\ TasksOK(CancelTask(tasks[k]), sess[k], binding[k])
  BY CancelKeeps DEF ReportingInv, StateTypes
<1>3. StateTypes'
  BY <1>1, <1>2 DEF ReportingInv, StateTypes
<1>4. ASSUME NEW k \in Keys
      PROVE  /\ KeyOK(sess'[k], tasks'[k], binding'[k], open')
             /\ Fresh(sess'[k], tasks'[k], open', selection'[k], (k \in restored)')
  BY <1>1, <1>2 DEF ReportingInv, KeyOK, Served1, Fresh
<1> QED BY <1>1, <1>3, <1>4 DEF ReportingInv

\* What a restart reads back is the stored queue, but for the attempts of its head.
LEMMA RestoredKeeps ==
  ASSUME ReportingAssumption, NEW r \in Seq(Report), NEW b, Bound(r, b),
         NEW q \in Restored(r) \cup {<<>>}
  PROVE  q \in Seq(Report) /\ Bound(q, b)
<1>1. CASE q = <<>>
  BY <1>1 DEF Bound
<1>2. CASE q # <<>>
  <2>1. r # <<>>
    BY <1>2 DEF Restored
  <2>2. 1 \in 1..Len(r) /\ r[1] \in Report /\ r[1].bind = b /\ Len(r) \in Nat
    BY <2>1 DEF Bound
  <2>3. Retries(r[1]) \in Nat
    <3>1. r[1].attempts \in Nat
      BY <2>2 DEF Report
    <3> QED BY <3>1 DEF Retries, ReportingAssumption
  <2>4. PICK n \in Nat : q = [r EXCEPT ![1].attempts = n]
    <3>1. PICK m \in {Retries(r[1]), Retries(r[1]) + 1} : q = [r EXCEPT ![1].attempts = m]
      BY <1>2, <2>1, Zenon DEF Restored
    <3>2. m \in Nat
      BY <2>3
    <3> QED BY <3>1, <3>2
  <2> DEFINE h == [r[1] EXCEPT !.attempts = n]
  <2>5. h \in Report /\ h.bind = b /\ q = [r EXCEPT ![1] = h]
    BY <2>2, <2>4 DEF Report
  <2> HIDE DEF h
  <2>6. q \in Seq(Report) /\ Len(q) = Len(r)
        /\ \A i \in 1..Len(r) : q[i] = IF i = 1 THEN h ELSE r[i]
    BY <2>2, <2>5, ExceptSeq
  <2> QED BY <2>2, <2>5, <2>6 DEF Bound
<1> QED BY <1>1, <1>2

\* A restart restores the stored reports and arms nothing.
LEMMA Restarting ==
  ASSUME ReportingAssumption, ReportingInv, Restart
  PROVE  ReportingInv'
<1> DEFINE rows == {k \in Keys : sess[k].row}
<1>1. /\ restored' = rows /\ open' = TRUE /\ tasks' = [k \in Keys |-> {}]
      /\ selection' = [k \in Keys |-> None] /\ active' = None /\ UNCHANGED binding
  BY DEF Restart
<1>2. PICK q :
        /\ \A k \in Keys : q[k] \in Restored(sess[k].storedQueue) \cup {<<>>}
        /\ sess' = [k \in Keys |->
             IF k \notin rows THEN NoSession
             ELSE Save([sess[k] EXCEPT
               !.queue = q[k], !.link = 0, !.broken = FALSE,
               !.due = sess[k].storedDue /\ (q[k] = <<>> => sess[k].storedQueue = <<>>)], TRUE)]
  BY DEF Restart
<1>3. ASSUME NEW k \in Keys
      PROVE  /\ SessionOK(sess'[k], binding[k]) /\ sess'[k].link = 0
             /\ k \notin rows => sess'[k].queue = <<>> /\ sess'[k].storedQueue = <<>>
  <2>1. SessionOK(sess[k], binding[k]) /\ binding[k] \in Nat
    BY DEF ReportingInv, KeyOK, StateTypes
  <2>2. CASE k \notin rows
    <3>1. sess'[k] = NoSession
      BY <1>2, <2>2
    <3> QED BY <3>1 DEF NoSession, SessionOK, Session, Bound
  <2>3. CASE k \in rows
    <3> DEFINE due == sess[k].storedDue /\ (q[k] = <<>> => sess[k].storedQueue = <<>>)
               s == [sess[k] EXCEPT !.queue = q[k], !.link = 0, !.broken = FALSE, !.due = due]
    <3>1. sess'[k] = Save(s, TRUE)
      BY <1>2, <2>3
    <3>2. q[k] \in Seq(Report) /\ Bound(q[k], binding[k])
      BY <1>2, <2>1, RestoredKeeps DEF SessionOK, Session
    <3>3. due \in BOOLEAN
      BY <2>1 DEF SessionOK, Session
    <3> HIDE DEF due
    <3>4. SessionOK(s, binding[k]) /\ s.link = 0
      BY <2>1, <3>2, <3>3 DEF SessionOK, Session
    <3> HIDE DEF s
    <3> QED BY <2>1, <2>3, <3>1, <3>4, SaveKeeps
  <2> QED BY <2>2, <2>3
<1>4. StateTypes'
  <2>1. DOMAIN sess' = Keys /\ sess' = [k \in Keys |-> sess'[k]]
    BY <1>2
  <2>2. sess' \in [Keys -> Session]
    BY <1>3, <2>1 DEF SessionOK
  <2> QED BY <1>1, <2>2 DEF ReportingInv, StateTypes
<1>5. ASSUME NEW k \in Keys
      PROVE  /\ KeyOK(sess'[k], tasks'[k], binding'[k], open')
             /\ Fresh(sess'[k], tasks'[k], open', selection'[k], (k \in restored)')
  <2>1. tasks'[k] = {} /\ TasksOK({}, sess'[k], binding[k])
    BY <1>1 DEF TasksOK
  <2> QED BY <1>1, <1>3, <2>1 DEF KeyOK, Served1, Fresh
<1> QED BY <1>1, <1>4, <1>5 DEF ReportingInv

-----------------------------------------------------------------------------
(***************************************************************************)
(* The theorems                                                            *)
(***************************************************************************)

\* No session exists at first.
LEMMA ReportingInitial ==
  ASSUME Init
  PROVE  ReportingInv
<1>1. SessionOK(NoSession, 0) /\ NoSession \in Session /\ NoSession.link = 0
      /\ NoSession.queue = <<>> /\ NoSession.storedQueue = <<>>
  BY DEF NoSession, SessionOK, Session, Bound
<1>2. StateTypes
  BY <1>1 DEF Init, StateTypes
<1>3. ASSUME NEW k \in Keys
      PROVE  /\ sess[k] = NoSession /\ tasks[k] = {} /\ binding[k] = 0
             /\ TasksOK({}, NoSession, 0)
  BY DEF Init, TasksOK
<1>4. ASSUME NEW k \in Keys
      PROVE  KeyOK(sess[k], tasks[k], binding[k], open)
             /\ Fresh(sess[k], tasks[k], open, selection[k], k \in restored)
  BY <1>1, <1>3 DEF KeyOK, Served1, Fresh
<1> QED BY <1>2, <1>4 DEF Init, ReportingInv

\* Every step of the scheduler keeps the invariant.
LEMMA ReportingStep ==
  ASSUME ReportingAssumption, ReportingInv, [Next]_reportVars
  PROVE  ReportingInv'
<1>1. ASSUME NEW k \in Keys, NEW sel \in Selections, NEW mode, Observe(k, sel, mode)
      PROVE  ReportingInv'
  BY <1>1, Observation
<1>2. ASSUME NEW k \in Keys, NEW mode, ObserveRefused(k, mode)
      PROVE  ReportingInv'
  BY <1>2, RefusedObservation
<1>3. ASSUME NEW k \in Keys, EnqueueReport(k) \/ Runner(k)
      PROVE  ReportingInv'
  BY <1>3, Enqueueing, Posts, Acceptance, UnsavedAcceptance, Notification, Refusal, Unwinding DEF Runner
<1>4. CASE UNCHANGED reportVars
  BY <1>4 DEF reportVars, ReportingInv, StateTypes
<1> QED BY <1>1, <1>2, <1>3, <1>4, ShuttingDown, Restarting DEF Next

\* Every report of a session, queued or stored, belongs to its current binding, and
\* the task of a session belongs to its link.
THEOREM ReportingInvariant == ReportingSpec => []ReportingInv
<1> USE ReportingAssumption
<1>1. Init => ReportingInv
  BY ReportingInitial
<1>2. ReportingInv /\ [Next]_reportVars => ReportingInv'
  BY ReportingStep
<1> QED BY <1>1, <1>2, PTL DEF ReportingSpec

\* A report is posted only under a link of the source binding it was queued for,
\* whatever restarts, failing saves and new selections happen in between.
THEOREM BoundPostHolds == ReportingSpec => []BoundPost
<1>1. ReportingInv => BoundPost
  <2> SUFFICES ASSUME ReportingInv, NEW k \in Keys, Posting(k)
               PROVE  Head(sess[k].queue).bind = sess[k].link
    BY DEF BoundPost
  <2>1. PostTask \in tasks[k] /\ ~PostTask.cancelled
    BY DEF Posting, PostTask
  <2>2. /\ sess[k].queue # <<>> /\ sess[k].queue \in Seq(Report)
        /\ sess[k].link = binding[k] /\ Bound(sess[k].queue, binding[k])
    BY <2>1 DEF ReportingInv, KeyOK, TasksOK, SessionOK, Session
  <2> QED BY <2>2 DEF Bound
<1> QED BY <1>1, ReportingInvariant, PTL

\* _arm_due(): a session never has two runners, and one that is due, linked and
\* saved has one.
THEOREM OneSuccessorHolds == ReportingSpec => []OneSuccessor
<1>1. ReportingInv => OneSuccessor
  <2> SUFFICES ASSUME ReportingInv, NEW k \in Keys
               PROVE  /\ Cardinality(Live(tasks[k])) <= 1
                      /\ open /\ sess[k].due /\ sess[k].link # 0 /\ ~sess[k].broken
                         => Live(tasks[k]) # {}
    BY DEF OneSuccessor
  <2>1. /\ \A t, u \in tasks[k] : ~t.cancelled /\ ~u.cancelled => t = u
        /\ Served1(tasks[k], sess[k], open)
    BY DEF ReportingInv, KeyOK, TasksOK
  <2>2. Live(tasks[k]) = {} \/ \E t : Live(tasks[k]) = {t}
    BY <2>1 DEF Live
  <2>3. Cardinality(Live(tasks[k])) <= 1
    <3>1. CASE Live(tasks[k]) = {}
      BY <3>1, FS_EmptySet
    <3>2. CASE \E t : Live(tasks[k]) = {t}
      <4>1. PICK t : Live(tasks[k]) = {t}
        BY <3>2
      <4>2. Cardinality({t}) = 1
        BY FS_Singleton
      <4> QED BY <4>1, <4>2
    <3> QED BY <2>2, <3>1, <3>2
  <2> QED BY <2>1, <2>3 DEF Live, Served1
<1> QED BY <1>1, ReportingInvariant, PTL

=============================================================================
