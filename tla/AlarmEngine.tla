---------------------------- MODULE AlarmEngine ----------------------------
(***************************************************************************)
(* Alarms and timers (alarm_engine.py): each worker runs a pass over the   *)
(* enabled schedules, sleeps 30 seconds and runs the next.  A pass claims  *)
(* the occurrence of a minute by a durable marker and only then starts or  *)
(* stops radios, which may take longer than a minute.  Schedules are       *)
(* edited through the routes of routers/multiroom.py meanwhile.            *)
(*                                                                         *)
(* What a start or a stop does to the radios is RadioCommands and ZoneJobs *)
(* and abstracted to whether it raised.  One day is modelled: a minute of  *)
(* the clock is a time of day, and no marker (None) stands for none or one *)
(* of an earlier day.  Manual triggers and the play history touch neither  *)
(* markers nor schedules.                                                  *)
(***************************************************************************)
EXTENDS Naturals, FiniteSets

CONSTANTS
  Workers,       \* processes that run the loop
  Schedules,
  None,
  MaxClock,      \* minutes of the day
  MaxEdits,      \* changes of schedules by users
  MaxCrashes     \* ends of a process

ASSUME AlarmAssumption ==
  /\ None \notin Workers \cup Schedules \cup 0 .. MaxClock
  /\ MaxClock \in Nat \ {0} /\ MaxEdits \in Nat /\ MaxCrashes \in Nat

VARIABLES
  clock,
  half,          \* of the minute: 0 or 1
  row,           \* scheduled_actions
  marker,        \* runtime_state alarm:last_run and alarm:last_stop
  worker,
  fired,         \* history: dispatches of each kind, by minute
  touched,       \* history: schedules edited in the current minute
  moved,         \* history: schedules whose times were edited
  rested,        \* history: workers outside a pass when a half of the minute began
  edits, crashes

alarmVars == <<clock, half, row, marker, worker, fired, touched, moved, rested, edits, crashes>>

Kinds == {"start", "stop"}
Minutes == 1 .. MaxClock

\* end 0: no end time.
Rows == [live : BOOLEAN, enabled : BOOLEAN, start : Minutes, end : 0 .. MaxClock, once : BOOLEAN]

\* Mutant: the loop sleeps 90 seconds.
SleepLonger == 3

\* The sleep between two passes, in half minutes.
Sleep == 1

\* A worker outside a pass.  rows: the attributes as the pass loaded them, until
\* a commit or a rollback expires them; seen: the marker as read before the claim;
\* wake: when the sleep ends.
Stopped == [pc |-> "dead", minute |-> 0, todo |-> {}, cur |-> None, kind |-> "start",
            seen |-> None, rows |-> <<>>, expired |-> FALSE, wake |-> 0]
Waiting(m, wake) == [Stopped EXCEPT !.pc = "idle", !.minute = m, !.wake = wake]

\* Time in half minutes.
Now == 2 * clock + half

-----------------------------------------------------------------------------
Init ==
  /\ clock = 1 /\ half = 0
  /\ row \in [Schedules -> {r \in Rows : r.live /\ r.enabled /\ r.end # r.start}]
  /\ marker = [s \in Schedules |-> [k \in Kinds |-> None]]
  /\ worker = [w \in Workers |-> Waiting(0, 0)]
  /\ fired = [s \in Schedules |-> [k \in Kinds |-> [m \in Minutes |-> 0]]]
  /\ touched = {} /\ moved = {} /\ rested = Workers
  /\ edits = 0 /\ crashes = 0

\* The attributes the pass of w sees of schedule s.
View(w, s) == IF worker[w].expired THEN row[s] ELSE worker[w].rows[s]

\* An expired row that was deleted cannot be loaded again: the exception leaves
\* the pass and ends the loop.
Gone(w, s) == worker[w].expired /\ ~row[s].live

Time(r, kind) == IF kind = "start" THEN r.start ELSE r.end

Move(w, new) == worker' = [worker EXCEPT ![w] = new]
Quiet == UNCHANGED <<clock, half, touched, moved, rested, edits, crashes>>

-----------------------------------------------------------------------------
(***************************************************************************)
(* A pass                                                                  *)
(***************************************************************************)

\* After its sleep: the minute and the enabled schedules are read once.
Begin(w) ==
  /\ worker[w].pc = "idle" /\ worker[w].wake <= Now
  /\ Move(w, [pc |-> "row", minute |-> clock,
              todo |-> {s \in Schedules : row[s].live /\ row[s].enabled},
              cur |-> None, kind |-> "start", seen |-> None, rows |-> row, expired |-> FALSE,
              wake |-> 0])
  /\ UNCHANGED <<row, marker, fired>> /\ Quiet

\* The sleep begins when the pass ends, however long that took.
EndPass(w) ==
  /\ worker[w].pc = "row" /\ worker[w].todo = {}
  /\ Move(w, Waiting(worker[w].minute, Now + Sleep))
  /\ UNCHANGED <<row, marker, fired>> /\ Quiet

Dies(w, s) ==
  /\ Gone(w, s)
  /\ Move(w, Stopped)
  /\ UNCHANGED <<row, marker, fired>> /\ Quiet

\* After the part of kind: the end time is looked at, then the next schedule.
After(w, kind) ==
  [worker[w] EXCEPT !.pc = IF kind = "start" THEN "end" ELSE "row",
                    !.cur = IF kind = "start" THEN @ ELSE None,
                    !.kind = "start", !.seen = None]

\* The marker of the occurrence is read when its time has come.
Look(w, s, kind) ==
  /\ ~Gone(w, s)
  /\ LET due == Time(View(w, s), kind) = worker[w].minute
         seen == marker[s][kind]
         next == [worker[w] EXCEPT !.cur = s, !.todo = @ \ {s}]
     IN Move(w, IF due /\ seen # worker[w].minute
                THEN [next EXCEPT !.pc = "claim", !.kind = kind, !.seen = seen]
                ELSE [After(w, kind) EXCEPT !.cur = IF kind = "start" THEN s ELSE None,
                                            !.todo = @ \ {s}])
  /\ UNCHANGED <<row, marker, fired>> /\ Quiet

CheckStart(w) ==
  /\ worker[w].pc = "row"
  /\ \E s \in worker[w].todo : Look(w, s, "start") \/ Dies(w, s)

CheckEnd(w) ==
  /\ worker[w].pc = "end"
  /\ Look(w, worker[w].cur, "stop") \/ Dies(w, worker[w].cur)

\* Mutant: the update is not conditional on the value that was read.
WinsAlways(w) == TRUE

\* Compare and swap on the stored value, or the unique key of a first insert.
Wins(w) == marker[worker[w].cur][worker[w].kind] = worker[w].seen

Claim(w) ==
  LET s == worker[w].cur
      k == worker[w].kind
      m == worker[w].minute
  IN /\ worker[w].pc = "claim"
     /\ IF Wins(w)
        THEN /\ marker' = [marker EXCEPT ![s][k] = m]
             /\ fired' = [fired EXCEPT ![s][k][m] = @ + 1]
             /\ Move(w, [worker[w] EXCEPT !.pc = "busy", !.seen = None, !.rows = <<>>, !.expired = TRUE])
        ELSE /\ Move(w, [After(w, k) EXCEPT !.rows = <<>>, !.expired = TRUE])
             /\ UNCHANGED <<marker, fired>>
     /\ UNCHANGED row /\ Quiet

\* The start or stop returns, verified or not, or raises.  A schedule for one
\* day is disabled unless it raised; with an end time only after the stop.
Return(w) ==
  LET s == worker[w].cur
      k == worker[w].kind
  IN /\ worker[w].pc = "busy" /\ ~Gone(w, s)
     /\ \E raised \in BOOLEAN :
          row' = IF ~raised /\ row[s].once /\ (k = "start" => row[s].end = 0)
                 THEN [row EXCEPT ![s].enabled = FALSE] ELSE row
     /\ Move(w, After(w, k))
     /\ UNCHANGED <<marker, fired>> /\ Quiet

ReturnGone(w) == worker[w].pc = "busy" /\ Dies(w, worker[w].cur)

-----------------------------------------------------------------------------
(***************************************************************************)
(* The environment                                                         *)
(***************************************************************************)

Resting == {w \in Workers : worker[w].pc = "idle"}

\* Half a minute goes by.  A worker whose sleep ends in this half begins its pass
\* in it.  A worker in a pass may be held up for any time.
HalfMinute ==
  /\ \A w \in Resting : worker[w].wake > Now
  /\ UNCHANGED <<row, marker, worker, fired, moved, edits, crashes>>

MidMinute ==
  /\ half = 0 /\ half' = 1 /\ HalfMinute
  /\ rested' = rested \cup Resting
  /\ UNCHANGED <<clock, touched>>

Tick ==
  /\ half = 1 /\ clock < MaxClock /\ HalfMinute
  /\ half' = 0 /\ clock' = clock + 1 /\ touched' = {} /\ rested' = Resting

Edit(s) ==
  /\ row[s].live /\ edits < MaxEdits
  /\ edits' = edits + 1 /\ touched' = touched \cup {s}
  /\ UNCHANGED <<clock, half, marker, worker, fired, rested, crashes>>

UpdateSchedule(s) ==
  /\ Edit(s)
  /\ \E m \in Minutes, e \in 0 .. MaxClock :
       m # e /\ row' = [row EXCEPT ![s].start = m, ![s].end = e]
  /\ moved' = moved \cup {s}

EnableSchedule(s) ==
  /\ Edit(s)
  /\ row' = [row EXCEPT ![s].enabled = ~@]
  /\ UNCHANGED moved

DeleteSchedule(s) ==
  /\ Edit(s)
  /\ row' = [row EXCEPT ![s].live = FALSE]
  /\ UNCHANGED moved

\* The process of a worker ends and starts again; a claim stays.
Crash(w) ==
  /\ crashes < MaxCrashes
  /\ crashes' = crashes + 1
  /\ Move(w, Waiting(0, 0))
  /\ UNCHANGED <<clock, half, row, marker, fired, touched, moved, rested, edits>>

-----------------------------------------------------------------------------
Next ==
  \/ \E w \in Workers :
       Begin(w) \/ EndPass(w) \/ CheckStart(w) \/ CheckEnd(w) \/ Claim(w)
       \/ Return(w) \/ ReturnGone(w) \/ Crash(w)
  \/ \E s \in Schedules : UpdateSchedule(s) \/ EnableSchedule(s) \/ DeleteSchedule(s)
  \/ MidMinute \/ Tick

AlarmSpec == Init /\ [][Next]_alarmVars

-----------------------------------------------------------------------------
(***************************************************************************)
(* Properties                                                              *)
(***************************************************************************)

\* An occurrence of a schedule whose times nobody edited is dispatched at most
\* once, whichever workers meet in its minute and whenever one of them ends
\* (_claim_schedule_marker, alarm_engine.py:58).
AtMostOnce ==
  \A s \in Schedules \ moved, k \in Kinds, m \in Minutes : fired[s][k][m] <= 1

\* A minute does not go by unnoticed: an occurrence that was enabled all through
\* its minute is dispatched by its end if some worker is outside a pass then and
\* was so at the beginning or in the middle of the minute.  Otherwise the minute
\* may be skipped: a pass of an earlier minute that ends in its second half is
\* followed by a sleep into the next one (alarm_engine.py:359).  The times of the
\* schedule were not edited: a late claim of its old minute would spoil the
\* compare-and-set of the new one.
Noticed ==
  [][clock' # clock =>
      \A s \in Schedules \ (touched \cup moved), k \in Kinds :
        /\ row[s].live /\ row[s].enabled /\ Time(row[s], k) = clock
        /\ rested \cap Resting # {}
      => fired[s][k][clock] > 0]_alarmVars

=============================================================================
