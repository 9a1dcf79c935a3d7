------------------------- MODULE ReportingScheduler -------------------------
(***************************************************************************)
(* Event reports to an external provider (reporting_scheduler.py), their   *)
(* durable queue (reporting_store.py) and the observation of a provider's  *)
(* answer that binds a link to a device (research_runtime.py).  One        *)
(* asyncio task per session sleeps to the due time, posts the head of the  *)
(* queue under the session's lock and arms one successor; every other      *)
(* operation runs between two of its suspensions.                          *)
(*                                                                         *)
(* A link and a report are abstracted to the source binding they belong    *)
(* to, a due time to whether there is one (a runner may wake at any later  *)
(* moment), and the status shown to the user is left out.                  *)
(***************************************************************************)
EXTENDS Naturals, Sequences, FiniteSets

CONSTANTS
  Keys,          \* sessions: one per provider of the device
  Selections,    \* what a provider's answer may have selected
  None,
  Capacity,      \* REPORT_QUEUE_CAPACITY, 20 in the code
  MaxAttempts,   \* REPORT_MAX_ATTEMPTS, 6 in the code
  MaxCalls,      \* observations and reports of the environment
  MaxHints,      \* answers that ask for a timed report
  MaxFaults      \* restarts and failing saves

ASSUME ReportingAssumption ==
  /\ None \notin Keys \cup Selections
  /\ Capacity \in Nat \ {0} /\ MaxAttempts \in Nat \ {0}
  /\ MaxCalls \in Nat /\ MaxHints \in Nat /\ MaxFaults \in Nat

VARIABLES
  sess,          \* session and its stored row, by key
  tasks,         \* runner tasks of a key: at most one is not cancelled
  selection,     \* _provider_selections
  active,        \* _active_provider_by_device
  restored,      \* _restored_reporting_keys
  open,          \* not shut down
  binding,       \* the source binding of a key (history)
  calls, hints, faults

reportVars == <<sess, tasks, selection, active, restored, open, binding, calls, hints, faults>>

Item(b) == [bind |-> b, attempts |-> 0]

\* link 0: no operational URL.  row: a row was ever stored.  broken (history):
\* a save or its handling raised and ended the operation or the runner, and the
\* session was not scheduled since.
NoSession ==
  [queue |-> <<>>, link |-> 0, due |-> FALSE, row |-> FALSE,
   storedQueue |-> <<>>, storedDue |-> FALSE, broken |-> FALSE]

Sleeping == [pc |-> "sleep", cancelled |-> FALSE]
Live(ts) == {t \in ts : ~t.cancelled}

-----------------------------------------------------------------------------
(***************************************************************************)
(* The steps operations are made of.  ok: the save does not raise.         *)
(***************************************************************************)

Save(s, ok) ==
  IF ok THEN [s EXCEPT !.row = TRUE, !.storedQueue = s.queue, !.storedDue = s.due]
        ELSE [s EXCEPT !.broken = TRUE]

\* Mutant: the popped task is not cancelled.
KeepTask(ts) == ts

\* The generation moves on and the task is cancelled: it takes no further step
\* of its own, but holds the lock until it has unwound.
CancelTask(ts) == {[t EXCEPT !.cancelled = TRUE] : t \in ts}

Arm(ts, s) == ts \cup (IF open /\ s.due /\ s.link # 0 THEN {Sleeping} ELSE {})

ScheduleDue(ts, s) == IF open THEN Arm(CancelTask(ts), s) ELSE ts

Cancelled(s, clear) ==
  [s EXCEPT !.queue = IF clear THEN <<>> ELSE @, !.due = FALSE]

Enqueued(s, b) == [s EXCEPT !.queue = Append(@, Item(b)), !.due = TRUE]

Full(s) == Len(s.queue) >= Capacity

-----------------------------------------------------------------------------
Init ==
  /\ sess = [k \in Keys |-> NoSession]
  /\ tasks = [k \in Keys |-> {}]
  /\ selection = [k \in Keys |-> None] /\ active = None /\ restored = {}
  /\ open = TRUE
  /\ binding = [k \in Keys |-> 0]
  /\ calls = 0 /\ hints = 0 /\ faults = 0

Fails(ok) == faults' = IF ok THEN faults ELSE faults + 1
MayFail == IF faults < MaxFaults THEN BOOLEAN ELSE {TRUE}

Call == /\ open /\ calls < MaxCalls /\ calls' = calls + 1

\* The session of another provider is left: its queue is kept without due time.
\* Returns the sessions and tasks after that part of an observation.
Leaves(k) == active \notin {None, k}
LeftSess(k, ok) ==
  IF Leaves(k) THEN [sess EXCEPT ![active] = Save(Cancelled(@, FALSE), ok)] ELSE sess
LeftTasks(k) ==
  IF Leaves(k) THEN [tasks EXCEPT ![active] = CancelTask(@)] ELSE tasks

\* Refused after the other provider was left: that session cannot be saved, or
\* there is nothing persisted to reacquire.
ObserveRefused(k, mode) ==
  /\ Call
  /\ \E ok \in MayFail :
       /\ \/ ~ok /\ Leaves(k)
          \/ ok /\ mode = "reacquire" /\ k \notin restored
       /\ sess' = LeftSess(k, ok) /\ Fails(ok)
  /\ tasks' = LeftTasks(k)
  /\ UNCHANGED <<selection, active, restored, open, binding, hints>>

NewSelection(k, sel, mode) == mode = "start" /\ selection[k] # sel

\* Mutant: only a selection of this process is an earlier binding.
DropsKnown(k, sel, mode) ==
  NewSelection(k, sel, mode) /\ selection[k] # None

\* The reports of an earlier binding are dropped.
Drops(k, sel, mode) ==
  NewSelection(k, sel, mode) /\ (selection[k] # None \/ k \in restored)

\* What an observation makes of its own session, step by step: the earlier
\* binding dropped, the link set, the runner scheduled, a start report queued.
\* at is the save that raises.
Bind(k, sel, mode) == IF NewSelection(k, sel, mode) THEN binding[k] + 1 ELSE binding[k]

DroppedSess(k, sel, mode, at) ==
  LET s == LeftSess(k, TRUE)[k]
  IN IF Drops(k, sel, mode) THEN Save(Cancelled(s, TRUE), at # "cancel") ELSE s
DroppedTasks(k, sel, mode) ==
  LET ts == LeftTasks(k)[k] IN IF Drops(k, sel, mode) THEN CancelTask(ts) ELSE ts

Linked(s, b, at) == Save([s EXCEPT !.link = b], at # "link")
Scheduled(s) == [s EXCEPT !.broken = FALSE]
Started(s, b, at) == Save(IF Full(s) THEN s ELSE Enqueued(s, b), at # "enqueue")

\* observe_external_provider_selection_response.
ObserveAt(k, sel, mode, at) ==
  LET new == NewSelection(k, sel, mode)
      b == Bind(k, sel, mode)
      dropped == DroppedSess(k, sel, mode, at)
      ts == DroppedTasks(k, sel, mode)
      linked == Linked(dropped, b, at)
      started == Started(Scheduled(linked), b, at)
  IN /\ at = "cancel" => Drops(k, sel, mode)
     /\ at = "enqueue" => new
     /\ at = "none" \/ faults < MaxFaults
     /\ Fails(at = "none")
     /\ sess' = [LeftSess(k, TRUE) EXCEPT ![k] =
          IF at = "cancel" THEN dropped
          ELSE IF at = "link" THEN linked
          ELSE IF ~new THEN Scheduled(linked)
          ELSE started]
     /\ tasks' = [LeftTasks(k) EXCEPT ![k] =
          IF at \in {"cancel", "link"} THEN ts
          ELSE IF new /\ at = "none" /\ ~Full(linked)
          THEN ScheduleDue(ScheduleDue(ts, linked), started)
          ELSE ScheduleDue(ts, linked)]
     /\ IF at = "cancel"
        THEN UNCHANGED <<selection, active, binding>>
        ELSE /\ selection' = [selection EXCEPT ![k] = sel]
             /\ active' = k
             /\ binding' = [binding EXCEPT ![k] = b]

Observe(k, sel, mode) ==
  /\ Call
  /\ mode = "reacquire" => k \in restored
  /\ \E at \in {"none", "cancel", "link", "enqueue"} : ObserveAt(k, sel, mode, at)
  /\ UNCHANGED <<restored, open, hints>>

\* enqueue_report: a further event of the current source.
EnqueueReport(k) ==
  /\ Call
  /\ selection[k] # None
  /\ \E ok \in MayFail :
       LET s == Save(IF Full(sess[k]) THEN sess[k] ELSE Enqueued(sess[k], binding[k]), ok)
           armed == ok /\ ~Full(sess[k])
       IN /\ Fails(ok)
          /\ sess' = [sess EXCEPT ![k] = IF armed THEN [s EXCEPT !.broken = FALSE] ELSE s]
          /\ tasks' = [tasks EXCEPT ![k] = IF armed THEN ScheduleDue(@, s) ELSE @]
  /\ UNCHANGED <<selection, active, restored, open, binding, hints>>

-----------------------------------------------------------------------------
(***************************************************************************)
(* The runner                                                              *)
(***************************************************************************)

LockFree(k) == \A t \in tasks[k] : t.pc = "sleep"

\* Mutant: a retry is not counted.
SentAgain(k) ==
  LET q == IF sess[k].queue = <<>> THEN <<Item(binding[k])>> ELSE sess[k].queue
  IN [q EXCEPT ![1].attempts = 1]

\* The report to send: the timed one is made up when it is due.
Sent(k) ==
  LET q == IF sess[k].queue = <<>> THEN <<Item(binding[k])>> ELSE sess[k].queue
  IN [q EXCEPT ![1].attempts = @ + 1]

\* The attempt is recorded before the report leaves.  (A runner that the wall
\* clock tells it is too early saves the session as it is and arms itself.)
Post(k) ==
  /\ LockFree(k) /\ Sleeping \in tasks[k]
  /\ \E ok \in MayFail :
       /\ Fails(ok)
       /\ sess' = [sess EXCEPT ![k] = Save([@ EXCEPT !.queue = Sent(k)], ok)]
       /\ tasks' = [tasks EXCEPT ![k] = (@ \ {Sleeping}) \cup
                      (IF ok THEN {[pc |-> "post", cancelled |-> FALSE]} ELSE {})]
  /\ UNCHANGED <<selection, active, restored, open, binding, calls, hints>>

Posting(k) == [pc |-> "post", cancelled |-> FALSE] \in tasks[k]

\* The task that ran is replaced by those in next and, if armed, a successor.
Ends(k, pc, s, next, armed) ==
  tasks' = [tasks EXCEPT ![k] =
    LET rest == (@ \ {[pc |-> pc, cancelled |-> FALSE]}) \cup next
    IN IF armed THEN Arm(rest, s) ELSE rest]

Hint == IF hints < MaxHints THEN BOOLEAN ELSE {FALSE}
Hinted(hint) == hints' = IF hint THEN hints + 1 ELSE hints

\* HTTP 200: the report leaves the queue and the answer may set a due time.
Accepted(k) ==
  /\ Posting(k)
  /\ \E hint \in Hint :
       LET rest == Tail(sess[k].queue)
           s == Save([sess[k] EXCEPT !.queue = rest, !.due = hint \/ rest # <<>>], TRUE)
       IN /\ Hinted(hint)
          /\ sess' = [sess EXCEPT ![k] = s]
          /\ Ends(k, "post", s, {[pc |-> "notify", cancelled |-> FALSE]}, FALSE)
  /\ UNCHANGED <<selection, active, restored, open, binding, calls, faults>>

\* The metadata of the answer was handed on, or failed to be.
Notified(k) ==
  /\ [pc |-> "notify", cancelled |-> FALSE] \in tasks[k]
  /\ Ends(k, "notify", sess[k], {}, TRUE)
  /\ UNCHANGED <<sess, selection, active, restored, open, binding, calls, hints, faults>>

LastAttempt(k) == Head(sess[k].queue).attempts >= MaxAttempts

\* The end of a failed attempt: a save that raises leaves no successor.
Retried(k, queue, due, ok) ==
  LET s == Save([sess[k] EXCEPT !.queue = queue, !.due = due], ok)
  IN /\ sess' = [sess EXCEPT ![k] = s]
     /\ Ends(k, "post", s, {}, ok)

\* Another status, or the transport failed: retried until the last attempt.
Refused(k) ==
  /\ Posting(k)
  /\ \E ok \in MayFail :
       LET rest == IF LastAttempt(k) THEN Tail(sess[k].queue) ELSE sess[k].queue
       IN Fails(ok) /\ Retried(k, rest, rest # <<>>, ok)
  /\ UNCHANGED <<selection, active, restored, open, binding, calls, hints>>

\* HTTP 200, but the session is not saved: this counts as a failed transport, and
\* the retry path goes on about a report that has left the queue.  It sets the due
\* time of a retry or, after the last attempt, discards the next report instead,
\* and raises if there is none.
AcceptedUnsaved(k) ==
  LET rest == Tail(sess[k].queue)
  IN /\ Posting(k) /\ faults < MaxFaults
     /\ \/ /\ LastAttempt(k) /\ rest = <<>>
           /\ \E hint \in Hint : Hinted(hint) /\ Retried(k, rest, hint, FALSE)
           /\ faults' = faults + 1
        \/ /\ LastAttempt(k) => rest # <<>>
           /\ \E ok \in IF faults + 1 < MaxFaults THEN BOOLEAN ELSE {TRUE} :
                /\ Retried(k, IF LastAttempt(k) THEN Tail(rest) ELSE rest,
                           LastAttempt(k) => Tail(rest) # <<>>, ok)
                /\ faults' = faults + (IF ok THEN 1 ELSE 2)
           /\ UNCHANGED hints
     /\ UNCHANGED <<selection, active, restored, open, binding, calls>>

Unwind(k) ==
  /\ \E t \in tasks[k] : t.cancelled /\ tasks' = [tasks EXCEPT ![k] = @ \ {t}]
  /\ UNCHANGED <<sess, selection, active, restored, open, binding, calls, hints, faults>>

-----------------------------------------------------------------------------
(***************************************************************************)
(* Life cycle                                                              *)
(***************************************************************************)

Shutdown ==
  /\ open /\ open' = FALSE
  /\ tasks' = [k \in Keys |-> CancelTask(tasks[k])]
  /\ selection' = [k \in Keys |-> None] /\ active' = None
  /\ UNCHANGED <<sess, restored, binding, calls, hints, faults>>

\* Only the retries of the head are stored.  The stored status tells whether a
\* first attempt is counted too, and may do so wrongly either way: a report queued
\* behind an attempt resets it, a degraded or failed session has it without one.
Retries(item) ==
  CASE item.attempts = 0           -> 0
    [] item.attempts > MaxAttempts -> MaxAttempts - 1
    [] OTHER                       -> item.attempts - 1
Restored(q) ==
  IF q = <<>> THEN {q}
  ELSE {[q EXCEPT ![1].attempts = n] : n \in {Retries(q[1]), Retries(q[1]) + 1}}

\* The process ends, at any moment or after a shutdown, and starts again: links
\* are not durable and nothing is armed.  A row that cannot be restored clears
\* the queue of its session.
Restart ==
  /\ ~open \/ faults < MaxFaults
  /\ faults' = IF open THEN faults + 1 ELSE faults
  /\ LET rows == {k \in Keys : sess[k].row} IN
       /\ \E q \in [Keys -> UNION {Restored(sess[k].storedQueue) : k \in Keys} \cup {<<>>}] :
            /\ \A k \in Keys : q[k] \in Restored(sess[k].storedQueue) \cup {<<>>}
            /\ sess' = [k \in Keys |->
                 IF k \notin rows THEN NoSession
                 ELSE Save([sess[k] EXCEPT
                   !.queue = q[k], !.link = 0, !.broken = FALSE,
                   !.due = sess[k].storedDue /\ (q[k] = <<>> => sess[k].storedQueue = <<>>)], TRUE)]
       /\ restored' = rows
  /\ open' = TRUE
  /\ tasks' = [k \in Keys |-> {}]
  /\ selection' = [k \in Keys |-> None] /\ active' = None
  /\ UNCHANGED <<binding, calls, hints>>

-----------------------------------------------------------------------------
Runner(k) ==
  Post(k) \/ Accepted(k) \/ AcceptedUnsaved(k) \/ Notified(k) \/ Refused(k) \/ Unwind(k)

Next ==
  \/ \E k \in Keys, sel \in Selections, mode \in {"start", "reacquire"} : Observe(k, sel, mode)
  \/ \E k \in Keys, mode \in {"start", "reacquire"} : ObserveRefused(k, mode)
  \/ \E k \in Keys : EnqueueReport(k) \/ Runner(k)
  \/ Shutdown \/ Restart

\* A runner that can go on does: the clock reaches the due time and the HTTP
\* client bounds a post by its timeout.
ReportingSpec ==
  /\ Init /\ [][Next]_reportVars
  /\ \A k \in Keys : WF_reportVars(Runner(k))

-----------------------------------------------------------------------------
(***************************************************************************)
(* Properties                                                              *)
(***************************************************************************)

\* A report waits in a session that its runner serves.
Served(k) ==
  open /\ sess[k].queue # <<>> /\ sess[k].due /\ sess[k].link # 0 /\ ~sess[k].broken

\* A report is posted only under a link of the source binding it was queued
\* for: a new selection drops the queued reports and cancels the one in flight
\* (research_runtime.py:716), also when they come from before a restart.
BoundPost ==
  \A k \in Keys : Posting(k) => Head(sess[k].queue).bind = sess[k].link

\* Unless a failing save has ended its runner, a session with a due time and a link
\* has exactly one task that will serve it: none is left without a successor and none is
\* armed twice (reporting_scheduler.py:418).
OneSuccessor ==
  \A k \in Keys :
    /\ Cardinality(Live(tasks[k])) <= 1
    /\ open /\ sess[k].due /\ sess[k].link # 0 /\ ~sess[k].broken => Live(tasks[k]) # {}

\* A session that is due comes to an end of its queue: each report is accepted or
\* given up after the last attempt, also when the save after an answer fails and
\* the retry path is about a report already gone (reporting_scheduler.py:367).  It
\* may be left or shut down before, or stop where a save fails for good.
Drained == \A k \in Keys : Served(k) ~> ~Served(k)

=============================================================================
