------------------------- MODULE AlarmEngineProofs -------------------------
(***************************************************************************)
(* An occurrence of an alarm is dispatched at most once, and not missed by *)
(* a worker that keeps time, for every number of workers, schedules,       *)
(* minutes, edits and crashes.  A section of its own is about Keepalive,   *)
(* the other background loop: a lasting INVALID_SOURCE is diagnosed once.  *)
(***************************************************************************)
EXTENDS AlarmEngine, Keepalive, TLAPS

Pass == {"row", "end", "claim", "busy"}

WorkerRecord ==
  [pc : Pass \cup {"idle", "dead"}, minute : 0 .. MaxClock, todo : SUBSET Schedules,
   cur : Schedules \cup {None}, kind : Kinds, seen : Minutes \cup {None},
   rows : [Schedules -> Rows] \cup {<<>>}, expired : BOOLEAN, wake : Nat]

SameTimes(r, q) == r.start = q.start /\ r.end = q.end

\* The copies a pass works with agree with the rows in the times nobody edited.
CopiesCurrent(r) ==
  r.pc \in Pass /\ ~r.expired =>
    /\ r.rows \in [Schedules -> Rows]
    /\ \A s \in Schedules \ moved : SameTimes(r.rows[s], row[s])

\* A worker about to claim has seen another minute in the marker, and the time
\* of an unmoved schedule is the minute of its pass.
ClaimFresh(r) ==
  r.pc = "claim" =>
    /\ r.seen # r.minute
    /\ r.cur \notin moved => Time(row[r.cur], r.kind) = r.minute

WorkerInv(r) ==
  /\ r \in WorkerRecord
  /\ r.pc \in Pass => r.minute \in Minutes
  /\ r.pc \in {"end", "claim", "busy"} => r.cur \in Schedules
  /\ CopiesCurrent(r)
  /\ ClaimFresh(r)

AlarmTypeOK ==
  /\ clock \in Minutes /\ half \in 0 .. 1
  /\ row \in [Schedules -> Rows]
  /\ marker \in [Schedules -> [Kinds -> Minutes \cup {None}]]
  /\ fired \in [Schedules -> [Kinds -> [Minutes -> Nat]]]
  /\ moved \subseteq Schedules

\* A dispatch of an unmoved schedule was made at its time, and its marker still
\* names it.
FiredMarked ==
  \A s \in Schedules \ moved, k \in Kinds, m \in Minutes :
    fired[s][k][m] # 0 =>
      fired[s][k][m] = 1 /\ marker[s][k] = m /\ Time(row[s], k) = m

WorkersInv ==
  /\ worker \in [Workers -> WorkerRecord]
  /\ \A w \in Workers : WorkerInv(worker[w])

AlarmInv == AlarmTypeOK /\ WorkersInv /\ FiredMarked

-----------------------------------------------------------------------------
\* Rows may be edited, but the times of a schedule only when it counts as moved.
TimesKept ==
  /\ row' \in [Schedules -> Rows]
  /\ moved \subseteq moved' /\ moved' \subseteq Schedules
  /\ \A s \in Schedules \ moved' : SameTimes(row'[s], row[s])

\* A step that edits no schedule keeps all times.
LEMMA NothingEdited ==
  ASSUME AlarmTypeOK, UNCHANGED <<row, moved>>
  PROVE  TimesKept
  BY DEF AlarmTypeOK, TimesKept, SameTimes

\* The start and the end of an unmoved schedule stay what they were.
LEMMA KeptTime ==
  ASSUME TimesKept, NEW s \in Schedules \ moved', NEW k
  PROVE  Time(row'[s], k) = Time(row[s], k)
  BY DEF TimesKept, SameTimes, Time

\* What is known of a worker survives an edit of the rows.
LEMMA RecordKept ==
  ASSUME TimesKept, NEW v, WorkerInv(worker[v]), worker'[v] = worker[v]
  PROVE  WorkerInv(worker[v])'
<1>1. CopiesCurrent(worker[v])'
  BY DEF WorkerInv, CopiesCurrent, TimesKept, SameTimes
<1>2. ClaimFresh(worker[v])'
  BY KeptTime DEF WorkerInv, ClaimFresh, TimesKept
<1> QED BY <1>1, <1>2 DEF WorkerInv

\* A step that moves one worker to a good record keeps all workers good.
LEMMA MoveKeeps ==
  ASSUME AlarmTypeOK, WorkersInv, TimesKept, NEW w \in Workers, NEW new, Move(w, new),
         WorkerInv(worker[w])'
  PROVE  WorkersInv'
<1>1. worker' = [worker EXCEPT ![w] = new]
  BY DEF Move
<1>2. worker'[w] = new /\ new \in WorkerRecord
  BY <1>1 DEF WorkersInv, WorkerInv
<1>3. worker' \in [Workers -> WorkerRecord]
  BY <1>1, <1>2 DEF WorkersInv
<1>4. ASSUME NEW v \in Workers PROVE WorkerInv(worker[v])'
  <2>1. CASE v = w
    BY <2>1
  <2>2. CASE v # w
    BY <2>2, <1>1, RecordKept DEF WorkersInv
  <2> QED BY <2>1, <2>2
<1> QED BY <1>3, <1>4 DEF WorkersInv

\* A step of one worker that touches neither rows nor markers keeps the invariant.
LEMMA QuietMove ==
  ASSUME AlarmInv, NEW w \in Workers, NEW new, Move(w, new), WorkerInv(worker[w])',
         UNCHANGED <<clock, half, row, marker, fired, moved>>
  PROVE  AlarmInv'
<1>1. WorkersInv'
  BY NothingEdited, MoveKeeps DEF AlarmInv
<1> QED BY <1>1 DEF AlarmInv, AlarmTypeOK, FiredMarked

\* An edit of the rows that moves no worker keeps the invariant.
LEMMA EditKeeps ==
  ASSUME AlarmInv, TimesKept, clock' \in Minutes, half' \in 0 .. 1, UNCHANGED <<marker, worker, fired>>
  PROVE  AlarmInv'
<1>1. AlarmTypeOK'
  BY DEF AlarmInv, AlarmTypeOK, TimesKept
<1>2. WorkersInv'
  BY RecordKept DEF AlarmInv, WorkersInv
<1>3. FiredMarked'
  BY KeptTime DEF AlarmInv, FiredMarked, TimesKept
<1> QED BY <1>1, <1>2, <1>3 DEF AlarmInv

-----------------------------------------------------------------------------
\* The record a worker moves to is its record afterwards.
LEMMA MovedTo ==
  ASSUME WorkersInv, NEW w \in Workers, NEW new, Move(w, new)
  PROVE  worker'[w] = new
  BY DEF WorkersInv, Move

\* The records of a worker outside a pass have their type.
LEMMA RestingRecords ==
  ASSUME NEW m \in 0 .. MaxClock, NEW n \in Nat
  PROVE  Waiting(m, n) \in WorkerRecord /\ Stopped \in WorkerRecord
<1>1. Stopped \in WorkerRecord
  BY AlarmAssumption DEF Stopped, WorkerRecord, Pass, Kinds
<1>2. Waiting(m, n) \in WorkerRecord
  BY <1>1 DEF Waiting, WorkerRecord
<1> QED BY <1>1, <1>2

\* Every worker waits and nothing was dispatched at the start.
LEMMA InitAlarm == Init => AlarmInv
<1> SUFFICES ASSUME Init PROVE AlarmInv
  OBVIOUS
<1> USE AlarmAssumption
<1>1. AlarmTypeOK
  BY DEF Init, AlarmTypeOK, Minutes
<1>2. WorkersInv
  <2>1. Waiting(0, 0) \in WorkerRecord
    BY RestingRecords
  <2>2. Waiting(0, 0).pc = "idle"
    BY DEF Waiting, Stopped
  <2>3. WorkerInv(Waiting(0, 0))
    BY <2>1, <2>2 DEF WorkerInv, CopiesCurrent, ClaimFresh, Pass
  <2> QED BY <2>1, <2>3 DEF WorkersInv, Init
<1>3. FiredMarked
  BY DEF Init, FiredMarked
<1> QED BY <1>1, <1>2, <1>3 DEF AlarmInv

\* run_alarm_engine_once() begins: the pass copies the rows as they are.
LEMMA BeginKeeps ==
  ASSUME AlarmInv, NEW w \in Workers, Begin(w)
  PROVE  AlarmInv'
<1> DEFINE new == [pc |-> "row", minute |-> clock,
              todo |-> {s \in Schedules : row[s].live /\ row[s].enabled},
              cur |-> None, kind |-> "start", seen |-> None, rows |-> row, expired |-> FALSE,
              wake |-> 0]
<1>1. Move(w, new) /\ UNCHANGED <<clock, half, row, marker, fired, moved>>
  BY DEF Begin, Quiet
<1>2. worker'[w] = new
  BY <1>1, MovedTo DEF AlarmInv
<1>3. new \in WorkerRecord /\ new.minute \in Minutes
  BY AlarmAssumption DEF AlarmInv, AlarmTypeOK, WorkerRecord, Pass, Kinds, Minutes
<1>4. WorkerInv(worker[w])'
  BY <1>1, <1>2, <1>3 DEF WorkerInv, CopiesCurrent, ClaimFresh, AlarmInv, AlarmTypeOK, SameTimes
<1> QED BY <1>1, <1>4, QuietMove

\* A worker outside a pass is good, whatever happened before.
LEMMA IdleGood ==
  ASSUME NEW w, NEW m \in 0 .. MaxClock, NEW n \in Nat,
         worker'[w] = Waiting(m, n) \/ worker'[w] = Stopped
  PROVE  WorkerInv(worker[w])'
<1> USE AlarmAssumption
<1>1. Waiting(m, n) \in WorkerRecord /\ Stopped \in WorkerRecord
  BY RestingRecords
<1>2. Waiting(m, n).pc = "idle" /\ Stopped.pc = "dead"
  BY <1>1 DEF Waiting, Stopped, WorkerRecord
<1> QED BY <1>1, <1>2 DEF WorkerInv, CopiesCurrent, ClaimFresh, Pass

\* A worker that ends its pass, its loop or its process forgets what it knew.
LEMMA RestKeeps ==
  ASSUME AlarmInv, NEW w \in Workers, NEW m \in 0 .. MaxClock, NEW n \in Nat,
         Move(w, Waiting(m, n)) \/ Move(w, Stopped),
         UNCHANGED <<clock, half, row, marker, fired, moved>>
  PROVE  AlarmInv'
<1>1. CASE Move(w, Waiting(m, n))
  BY <1>1, MovedTo, IdleGood, QuietMove DEF AlarmInv
<1>2. CASE Move(w, Stopped)
  BY <1>2, MovedTo, IdleGood, QuietMove DEF AlarmInv
<1> QED BY <1>1, <1>2

\* The record after the part of a kind keeps what the pass knew.
LEMMA AfterGood ==
  ASSUME AlarmInv, NEW w \in Workers, worker[w].pc \in Pass, NEW k \in Kinds,
         NEW s \in Schedules, TimesKept,
         worker'[w] = [After(w, k) EXCEPT !.cur = IF k = "start" THEN s ELSE None,
                                          !.todo = @ \ {s}]
  PROVE  WorkerInv(worker[w])'
<1> DEFINE new == [After(w, k) EXCEPT !.cur = IF k = "start" THEN s ELSE None,
                                          !.todo = @ \ {s}]
<1>1. worker[w] \in WorkerRecord /\ worker[w].minute \in Minutes /\ CopiesCurrent(worker[w])
  BY DEF AlarmInv, WorkersInv, WorkerInv
<1>2. /\ new \in WorkerRecord
      /\ new.pc = (IF k = "start" THEN "end" ELSE "row") /\ new.minute = worker[w].minute
      /\ new.cur = (IF k = "start" THEN s ELSE None)
      /\ new.rows = worker[w].rows /\ new.expired = worker[w].expired
  BY <1>1 DEF After, WorkerRecord, Pass, Kinds
<1>3. CopiesCurrent(worker[w])'
  BY <1>1, <1>2 DEF CopiesCurrent, TimesKept, SameTimes
<1>4. ClaimFresh(worker[w])'
  BY <1>2 DEF ClaimFresh
<1> QED BY <1>1, <1>2, <1>3, <1>4 DEF WorkerInv, Kinds

\* The times a pass sees of an unmoved schedule are the stored ones.
LEMMA ViewTime ==
  ASSUME AlarmInv, NEW w \in Workers, worker[w].pc \in Pass, NEW s \in Schedules \ moved, NEW k
  PROVE  Time(View(w, s), k) = Time(row[s], k)
<1>1. ~worker[w].expired => SameTimes(worker[w].rows[s], row[s])
  BY DEF AlarmInv, WorkersInv, WorkerInv, CopiesCurrent
<1>2. worker[w].expired \in BOOLEAN
  BY DEF AlarmInv, WorkersInv, WorkerRecord
<1> QED BY <1>1, <1>2 DEF View, Time, SameTimes

\* The marker is read: the worker goes on to the claim only when the minute is due
\* and the marker names another one.
LEMMA LookKeeps ==
  ASSUME AlarmInv, NEW w \in Workers, worker[w].pc \in {"row", "end"}, NEW s \in Schedules,
         NEW k \in Kinds, Look(w, s, k)
  PROVE  AlarmInv'
<1>0. worker[w].pc \in Pass
  BY DEF Pass
<1>1. UNCHANGED <<clock, half, row, marker, fired, moved>>
  BY DEF Look, Quiet
<1>2. TimesKept
  BY <1>1, NothingEdited DEF AlarmInv
<1> DEFINE due == Time(View(w, s), k) = worker[w].minute
           seen == marker[s][k]
           next == [worker[w] EXCEPT !.cur = s, !.todo = @ \ {s}]
           claim == [next EXCEPT !.pc = "claim", !.kind = k, !.seen = seen]
           skip == [After(w, k) EXCEPT !.cur = IF k = "start" THEN s ELSE None,
                                       !.todo = @ \ {s}]
<1>3. CASE due /\ seen # worker[w].minute
  <2>1. Move(w, claim)
    BY <1>3 DEF Look
  <2>2. worker'[w] = claim
    BY <2>1, MovedTo DEF AlarmInv
  <2>3. worker[w] \in WorkerRecord /\ worker[w].minute \in Minutes /\ CopiesCurrent(worker[w])
    BY <1>0 DEF AlarmInv, WorkersInv, WorkerInv
  <2>4. seen \in Minutes \cup {None}
    BY DEF AlarmInv, AlarmTypeOK
  <2>5. /\ claim \in WorkerRecord
        /\ claim.pc = "claim" /\ claim.minute = worker[w].minute /\ claim.cur = s
        /\ claim.kind = k /\ claim.seen = seen
        /\ claim.rows = worker[w].rows /\ claim.expired = worker[w].expired
    <3> HIDE DEF seen
    <3> QED BY <2>3, <2>4 DEF WorkerRecord, Pass
  <2>6. s \notin moved => Time(row[s], k) = worker[w].minute
    BY <1>0, <1>3, ViewTime
  <2> HIDE DEF claim, seen
  <2>7. ClaimFresh(worker[w])'
    BY <1>1, <1>3, <2>2, <2>5, <2>6 DEF ClaimFresh
  <2>8. CopiesCurrent(worker[w])'
    BY <1>0, <1>1, <2>2, <2>3, <2>5 DEF CopiesCurrent
  <2>9. WorkerInv(worker[w])'
    BY <2>2, <2>3, <2>5, <2>7, <2>8 DEF WorkerInv
  <2> QED BY <1>1, <2>1, <2>9, QuietMove
<1>4. CASE ~(due /\ seen # worker[w].minute)
  <2>1. Move(w, skip)
    BY <1>4 DEF Look
  <2>2. worker'[w] = skip
    BY <2>1, MovedTo DEF AlarmInv
  <2>3. WorkerInv(worker[w])'
    BY <1>0, <1>2, <2>2, AfterGood
  <2> QED BY <1>1, <2>1, <2>3, QuietMove
<1> QED BY <1>3, <1>4

\* A deleted row ends the loop.
LEMMA DiesKeeps ==
  ASSUME AlarmInv, NEW w \in Workers, NEW s, Dies(w, s)
  PROVE  AlarmInv'
<1>1. 0 \in 0 .. MaxClock
  BY AlarmAssumption
<1> QED BY <1>1, RestKeeps DEF Dies, Quiet

\* The claim: the marker still has the value that was read, so the occurrence was
\* not dispatched before, and no other minute of it was.
LEMMA ClaimKeeps ==
  ASSUME AlarmInv, NEW w \in Workers, Claim(w)
  PROVE  AlarmInv'
<1> DEFINE s == worker[w].cur
           k == worker[w].kind
           m == worker[w].minute
<1>1. UNCHANGED <<clock, half, row, moved>> /\ TimesKept
  BY NothingEdited DEF Claim, Quiet, AlarmInv
<1>2. /\ worker[w] \in WorkerRecord /\ worker[w].pc = "claim"
      /\ s \in Schedules /\ k \in Kinds /\ m \in Minutes
      /\ worker[w].seen # m
      /\ s \notin moved => Time(row[s], k) = m
  BY DEF Claim, AlarmInv, WorkersInv, WorkerInv, ClaimFresh, WorkerRecord, Pass
<1>3. CASE Wins(w)
  <2> DEFINE new == [worker[w] EXCEPT !.pc = "busy", !.seen = None, !.rows = <<>>, !.expired = TRUE]
  <2>1. /\ marker' = [marker EXCEPT ![s][k] = m]
        /\ fired' = [fired EXCEPT ![s][k][m] = @ + 1]
        /\ Move(w, new)
    BY <1>3 DEF Claim
  <2>2. marker[s][k] # m
    BY <1>2, <1>3 DEF Wins
  <2>3. worker'[w] = new
    BY <2>1, MovedTo DEF AlarmInv
  <2>4. /\ new \in WorkerRecord /\ new.pc = "busy" /\ new.minute = m /\ new.cur = s
        /\ new.expired = TRUE
    <3> DEFINE RowSet == [Schedules -> Rows] \cup {<<>>}
    <3>1. <<>> \in RowSet /\ WorkerRecord = [pc : Pass \cup {"idle", "dead"},
             minute : 0 .. MaxClock, todo : SUBSET Schedules, cur : Schedules \cup {None},
             kind : Kinds, seen : Minutes \cup {None}, rows : RowSet, expired : BOOLEAN, wake : Nat]
      BY DEF WorkerRecord
    <3> HIDE DEF RowSet
    <3> QED BY <1>2, <3>1 DEF Pass
  <2>5. WorkerInv(worker[w])'
    BY <1>2, <2>3, <2>4 DEF WorkerInv, CopiesCurrent, ClaimFresh
  <2>6. WorkersInv'
    BY <1>1, <2>1, <2>5, MoveKeeps DEF AlarmInv
  <2>7. AlarmTypeOK'
    <3> HIDE DEF s, k, m, new
    <3>1. marker' \in [Schedules -> [Kinds -> Minutes \cup {None}]]
      BY <1>2, <2>1 DEF AlarmInv, AlarmTypeOK
    <3>2. fired' \in [Schedules -> [Kinds -> [Minutes -> Nat]]]
      <4>1. fired \in [Schedules -> [Kinds -> [Minutes -> Nat]]] /\ fired[s][k] \in [Minutes -> Nat]
        BY <1>2 DEF AlarmInv, AlarmTypeOK
      <4>2. [fired[s][k] EXCEPT ![m] = @ + 1] \in [Minutes -> Nat]
        BY <1>2, <4>1
      <4>3. [fired[s] EXCEPT ![k] = [fired[s][k] EXCEPT ![m] = @ + 1]] \in [Kinds -> [Minutes -> Nat]]
        BY <1>2, <4>1, <4>2
      <4>4. fired' = [fired EXCEPT ![s] = [fired[s] EXCEPT ![k] = [fired[s][k] EXCEPT ![m] = @ + 1]]]
        BY <2>1, Zenon
      <4> QED BY <1>2, <4>1, <4>3, <4>4, Zenon
    <3> QED BY <1>1, <3>1, <3>2 DEF AlarmInv, AlarmTypeOK
  <2>8. FiredMarked'
    <3> SUFFICES ASSUME NEW s1 \in Schedules \ moved, NEW k1 \in Kinds, NEW m1 \in Minutes,
                        fired'[s1][k1][m1] # 0
                 PROVE  fired'[s1][k1][m1] = 1 /\ marker'[s1][k1] = m1 /\ Time(row[s1], k1) = m1
      BY <1>1 DEF FiredMarked
    <3> HIDE DEF s, k, m
    <3>1. CASE s1 = s /\ k1 = k /\ m1 = m
      <4>1. fired[s][k][m] = 0
        BY <2>2, <3>1 DEF AlarmInv, FiredMarked
      <4>2. fired'[s][k][m] = 1 /\ marker'[s][k] = m
        BY <1>2, <2>1, <4>1 DEF AlarmInv, AlarmTypeOK
      <4> QED BY <1>2, <3>1, <4>2
    <3>2. CASE ~(s1 = s /\ k1 = k /\ m1 = m)
      <4>1. fired'[s1][k1][m1] = fired[s1][k1][m1]
        BY <1>2, <2>1, <3>2 DEF AlarmInv, AlarmTypeOK
      <4>2. fired[s1][k1][m1] = 1 /\ marker[s1][k1] = m1 /\ Time(row[s1], k1) = m1
        BY <4>1 DEF AlarmInv, FiredMarked
      <4>3. ~(s1 = s /\ k1 = k)
        BY <1>2, <3>2, <4>2
      <4>4. marker'[s1][k1] = marker[s1][k1]
        BY <1>2, <2>1, <4>3 DEF AlarmInv, AlarmTypeOK
      <4> QED BY <4>1, <4>2, <4>4
    <3> QED BY <3>1, <3>2
  <2> QED BY <2>6, <2>7, <2>8 DEF AlarmInv
<1>4. CASE ~Wins(w)
  <2> DEFINE new == [After(w, k) EXCEPT !.rows = <<>>, !.expired = TRUE]
  <2>1. Move(w, new) /\ UNCHANGED <<marker, fired>>
    BY <1>4 DEF Claim
  <2>2. worker'[w] = new
    BY <2>1, MovedTo DEF AlarmInv
  <2>3. /\ new \in WorkerRecord /\ new.pc = (IF k = "start" THEN "end" ELSE "row")
        /\ new.minute = m /\ new.cur = (IF k = "start" THEN s ELSE None) /\ new.expired = TRUE
    <3> DEFINE RowSet == [Schedules -> Rows] \cup {<<>>}
    <3>1. <<>> \in RowSet /\ WorkerRecord = [pc : Pass \cup {"idle", "dead"},
             minute : 0 .. MaxClock, todo : SUBSET Schedules, cur : Schedules \cup {None},
             kind : Kinds, seen : Minutes \cup {None}, rows : RowSet, expired : BOOLEAN, wake : Nat]
      BY DEF WorkerRecord
    <3> HIDE DEF RowSet
    <3> QED BY <1>2, <3>1 DEF After, Pass, Kinds
  <2>4. WorkerInv(worker[w])'
    BY <1>2, <2>2, <2>3 DEF WorkerInv, CopiesCurrent, ClaimFresh, Kinds
  <2> QED BY <1>1, <2>1, <2>4, QuietMove
<1> QED BY <1>3, <1>4

\* Enabling, disabling or deleting a schedule leaves all times alone.
LEMMA FlagKept ==
  ASSUME AlarmTypeOK, NEW s \in Schedules, NEW b \in BOOLEAN,
         row' = [row EXCEPT ![s].enabled = b] \/ row' = [row EXCEPT ![s].live = b],
         NEW t \in Schedules
  PROVE  SameTimes(row'[t], row[t])
<1>1. row'[t] = row[t] \/ row'[t] = [row[t] EXCEPT !.enabled = b]
                       \/ row'[t] = [row[t] EXCEPT !.live = b]
  BY DEF AlarmTypeOK
<1>2. row[t] \in Rows
  BY DEF AlarmTypeOK
<1> QED BY <1>1, <1>2 DEF SameTimes, Rows

\* A return may disable the schedule, which leaves its times alone.
LEMMA ReturnKeeps ==
  ASSUME AlarmInv, NEW w \in Workers, Return(w)
  PROVE  AlarmInv'
<1> DEFINE s == worker[w].cur
           k == worker[w].kind
<1>1. /\ worker[w] \in WorkerRecord /\ worker[w].pc = "busy" /\ worker[w].pc \in Pass
      /\ s \in Schedules /\ k \in Kinds /\ worker[w].minute \in Minutes
      /\ CopiesCurrent(worker[w])
  BY DEF Return, AlarmInv, WorkersInv, WorkerInv, WorkerRecord, Pass
<1>2. /\ Move(w, After(w, k)) /\ UNCHANGED <<clock, half, marker, fired, moved>>
      /\ row' = [row EXCEPT ![s].enabled = FALSE] \/ row' = row
  BY DEF Return, Quiet
<1>3. TimesKept
  <2> HIDE DEF s
  <2>1. row' \in [Schedules -> Rows]
    <3>1. row \in [Schedules -> Rows] /\ row[s] \in Rows
      BY <1>1 DEF AlarmInv, AlarmTypeOK
    <3>2. [row[s] EXCEPT !.enabled = FALSE] \in Rows
      BY <3>1 DEF Rows
    <3> QED BY <1>1, <1>2, <3>1, <3>2
  <2>2. row' = row \/ (\E b \in BOOLEAN : row' = [row EXCEPT ![s].enabled = b])
    BY <1>2
  <2>3. \A t \in Schedules : SameTimes(row'[t], row[t])
    BY <1>1, <2>2, FlagKept DEF AlarmInv, SameTimes
  <2> QED BY <1>2, <2>1, <2>3 DEF TimesKept, AlarmInv, AlarmTypeOK
<1>4. worker'[w] = After(w, k)
  BY <1>2, MovedTo DEF AlarmInv
<1>5. /\ After(w, k) \in WorkerRecord
      /\ After(w, k).pc = (IF k = "start" THEN "end" ELSE "row")
      /\ After(w, k).minute = worker[w].minute
      /\ After(w, k).cur = (IF k = "start" THEN s ELSE None)
      /\ After(w, k).rows = worker[w].rows /\ After(w, k).expired = worker[w].expired
  BY <1>1 DEF After, WorkerRecord, Pass, Kinds
<1>6. CopiesCurrent(worker[w])'
  BY <1>1, <1>3, <1>4, <1>5 DEF CopiesCurrent, TimesKept, SameTimes
<1>7. ClaimFresh(worker[w])'
  BY <1>4, <1>5 DEF ClaimFresh
<1>8. WorkerInv(worker[w])'
  BY <1>1, <1>4, <1>5, <1>6, <1>7 DEF WorkerInv
<1>9. WorkersInv'
  BY <1>2, <1>3, <1>8, MoveKeeps DEF AlarmInv
<1>10. AlarmTypeOK'
  BY <1>2, <1>3 DEF AlarmInv, AlarmTypeOK, TimesKept
<1>11. FiredMarked'
  BY <1>2, <1>3, KeptTime DEF AlarmInv, FiredMarked, TimesKept
<1> QED BY <1>9, <1>10, <1>11 DEF AlarmInv

\* An edit changes the times of no schedule but one that counts as moved.
LEMMA EditedTimes ==
  ASSUME AlarmInv, NEW s \in Schedules,
         UpdateSchedule(s) \/ EnableSchedule(s) \/ DeleteSchedule(s)
  PROVE  TimesKept
<1>1. CASE UpdateSchedule(s)
  <2>1. PICK m \in Minutes, e \in 0 .. MaxClock :
          row' = [row EXCEPT ![s].start = m, ![s].end = e]
    BY <1>1 DEF UpdateSchedule
  <2>2. moved' = moved \cup {s}
    BY <1>1 DEF UpdateSchedule
  <2>3. row' \in [Schedules -> Rows]
    BY <2>1 DEF AlarmInv, AlarmTypeOK, Rows
  <2>4. \A t \in Schedules \ {s} : row'[t] = row[t]
    BY <2>1 DEF AlarmInv, AlarmTypeOK
  <2> QED BY <2>2, <2>3, <2>4 DEF TimesKept, SameTimes, AlarmInv, AlarmTypeOK
<1>2. CASE EnableSchedule(s)
  <2>1. row' = [row EXCEPT ![s].enabled = ~row[s].enabled] /\ moved' = moved
    BY <1>2 DEF EnableSchedule
  <2>2. row' \in [Schedules -> Rows]
    BY <2>1 DEF AlarmInv, AlarmTypeOK, Rows
  <2>3. \A t \in Schedules : SameTimes(row'[t], row[t])
    BY <2>1, FlagKept DEF AlarmInv, AlarmTypeOK, Rows
  <2> QED BY <2>1, <2>2, <2>3 DEF TimesKept, AlarmInv, AlarmTypeOK
<1>3. CASE DeleteSchedule(s)
  <2>1. row' = [row EXCEPT ![s].live = FALSE] /\ moved' = moved
    BY <1>3 DEF DeleteSchedule
  <2>2. row' \in [Schedules -> Rows]
    BY <2>1 DEF AlarmInv, AlarmTypeOK, Rows
  <2>3. \A t \in Schedules : SameTimes(row'[t], row[t])
    BY <2>1, FlagKept DEF AlarmInv
  <2> QED BY <2>1, <2>2, <2>3 DEF TimesKept, AlarmInv, AlarmTypeOK
<1> QED BY <1>1, <1>2, <1>3

\* The routes edit schedules at any moment; moving one gives up its guarantee.
LEMMA EditsKeep ==
  ASSUME AlarmInv, NEW s \in Schedules,
         UpdateSchedule(s) \/ EnableSchedule(s) \/ DeleteSchedule(s)
  PROVE  AlarmInv'
<1>1. clock' \in Minutes /\ half' \in 0 .. 1 /\ UNCHANGED <<marker, worker, fired>>
  BY DEF UpdateSchedule, EnableSchedule, DeleteSchedule, Edit, AlarmInv, AlarmTypeOK
<1> QED BY <1>1, EditedTimes, EditKeeps

\* Half a minute goes by.
LEMMA TickKeeps ==
  ASSUME AlarmInv, MidMinute \/ Tick
  PROVE  AlarmInv'
<1>1. clock' \in Minutes /\ half' \in 0 .. 1
  BY AlarmAssumption DEF MidMinute, Tick, HalfMinute, AlarmInv, AlarmTypeOK, Minutes
<1>2. UNCHANGED <<row, moved, marker, worker, fired>>
  BY DEF MidMinute, Tick, HalfMinute
<1>3. TimesKept
  BY <1>2, NothingEdited DEF AlarmInv
<1> QED BY <1>1, <1>2, <1>3, EditKeeps

\* Half minutes are counted by numbers.
LEMMA NowTyped ==
  ASSUME AlarmTypeOK
  PROVE  clock \in Nat /\ clock > 0 /\ Now \in Nat
<1>1. clock \in Nat /\ clock > 0
  BY AlarmAssumption DEF AlarmTypeOK, Minutes
<1> QED BY <1>1 DEF Now, AlarmTypeOK

\* Every step keeps the invariant.
LEMMA NextAlarm ==
  ASSUME AlarmInv, [Next]_alarmVars
  PROVE  AlarmInv'
<1>1. ASSUME NEW w \in Workers, Begin(w) PROVE AlarmInv'
  BY <1>1, BeginKeeps
<1>2. ASSUME NEW w \in Workers, EndPass(w) PROVE AlarmInv'
  <2>1. worker[w].minute \in 0 .. MaxClock
    BY DEF AlarmInv, WorkersInv, WorkerRecord
  <2>2. Now + Sleep \in Nat
    BY NowTyped DEF AlarmInv, Sleep
  <2>3. Move(w, Waiting(worker[w].minute, Now + Sleep)) /\ UNCHANGED <<clock, half, row, marker, fired, moved>>
    BY <1>2 DEF EndPass, Quiet
  <2> QED BY <2>1, <2>2, <2>3, RestKeeps
<1>3. ASSUME NEW w \in Workers, CheckStart(w) PROVE AlarmInv'
  <2>1. PICK s \in worker[w].todo : Look(w, s, "start") \/ Dies(w, s)
    BY <1>3 DEF CheckStart
  <2>2. s \in Schedules /\ worker[w].pc \in {"row", "end"} /\ "start" \in Kinds
    BY <1>3 DEF AlarmInv, WorkersInv, WorkerRecord, CheckStart, Kinds
  <2> QED BY <2>1, <2>2, LookKeeps, DiesKeeps
<1>4. ASSUME NEW w \in Workers, CheckEnd(w) PROVE AlarmInv'
  <2>1. worker[w].cur \in Schedules /\ worker[w].pc \in {"row", "end"} /\ "stop" \in Kinds
    BY <1>4 DEF AlarmInv, WorkersInv, WorkerInv, CheckEnd, Kinds
  <2> QED BY <1>4, <2>1, LookKeeps, DiesKeeps DEF CheckEnd
<1>5. ASSUME NEW w \in Workers, Claim(w) PROVE AlarmInv'
  BY <1>5, ClaimKeeps
<1>6. ASSUME NEW w \in Workers, Return(w) PROVE AlarmInv'
  BY <1>6, ReturnKeeps
<1>7. ASSUME NEW w \in Workers, ReturnGone(w) PROVE AlarmInv'
  BY <1>7, DiesKeeps DEF ReturnGone
<1>8. ASSUME NEW w \in Workers, Crash(w) PROVE AlarmInv'
  <2>1. 0 \in 0 .. MaxClock
    BY AlarmAssumption
  <2> QED BY <1>8, <2>1, RestKeeps DEF Crash
<1>9. ASSUME NEW s \in Schedules, UpdateSchedule(s) \/ EnableSchedule(s) \/ DeleteSchedule(s)
      PROVE  AlarmInv'
  BY <1>9, EditsKeep
<1>10. CASE MidMinute \/ Tick
  BY <1>10, TickKeeps
<1>11. CASE UNCHANGED alarmVars
  BY <1>11 DEF alarmVars, AlarmInv, AlarmTypeOK, WorkersInv, WorkerInv, CopiesCurrent,
               ClaimFresh, FiredMarked
<1> QED BY <1>1, <1>2, <1>3, <1>4, <1>5, <1>6, <1>7, <1>8, <1>9, <1>10, <1>11 DEF Next

-----------------------------------------------------------------------------
\* The types, what workers know and what markers name are kept by every pass,
\* edit, crash and minute of alarm_engine.py.
THEOREM AlarmInvariant == AlarmSpec => []AlarmInv
  BY InitAlarm, NextAlarm, PTL DEF AlarmSpec

\* _claim_schedule_marker() (alarm_engine.py:58) lets an occurrence of a schedule
\* whose times nobody edited be dispatched at most once, whichever workers meet
\* in its minute and whenever one of them ends.
THEOREM AtMostOnceHolds == AlarmSpec => []AtMostOnce
<1>1. AlarmInv => AtMostOnce
  BY DEF AlarmInv, AlarmTypeOK, FiredMarked, AtMostOnce
<1> QED BY <1>1, AlarmInvariant, PTL


-----------------------------------------------------------------------------
(***************************************************************************)
(* No occurrence goes by unnoticed                                         *)
(***************************************************************************)

\* An occurrence of the current minute that a finished pass must have dispatched.
Owed(s, k) ==
  /\ s \in Schedules \ (touched \cup moved)
  /\ row[s].live /\ row[s].enabled /\ Time(row[s], k) = clock

\* A worker r still has to look at the occurrence, or is about to claim it.
StillAhead(r, s, k) ==
  \/ s \in r.todo
  \/ r.cur = s /\ r.pc = "claim" /\ r.kind = k
  \/ r.cur = s /\ r.pc = "end" /\ k = "stop"
  \/ r.cur = s /\ r.pc \in {"claim", "busy"} /\ r.kind = "start" /\ k = "stop"

\* A marker of an unmoved schedule is the trace of a dispatch at its time.
MarkerFired ==
  \A s \in Schedules \ moved, k \in Kinds :
    marker[s][k] # None => marker[s][k] = Time(row[s], k) /\ fired[s][k][marker[s][k]] > 0

\* A pass looks at each schedule once, and what it is about to claim was unclaimed.
PassInv(r) ==
  /\ r.minute <= clock
  /\ r.pc = "idle" => r.todo = {}
  /\ r.pc \in {"end", "claim", "busy"} => r.cur \notin r.todo
  /\ r.pc = "claim" /\ r.cur \notin moved => r.seen = None

\* A worker in the current minute leaves no occurrence behind.
NothingMissed(r) ==
  r.minute = clock =>
    \A s \in Schedules, k \in Kinds :
      Owed(s, k) => fired[s][k][clock] > 0 \/ StillAhead(r, s, k)

\* A worker that was outside a pass in this minute and is now in one, or sleeps on,
\* began a pass in this minute.  Nobody sleeps beyond the next half.
KeepsTime(w) ==
  /\ worker[w].pc = "idle" => worker[w].wake <= Now + 1
  /\ w \in rested /\ worker[w].pc \in Pass => worker[w].minute = clock
  /\ w \in rested /\ worker[w].pc = "idle" /\ worker[w].wake > Now => worker[w].minute = clock

NoticeInv ==
  /\ MarkerFired
  /\ \A w \in Workers : PassInv(worker[w]) /\ NothingMissed(worker[w]) /\ KeepsTime(w)

\* A step within a minute that owes nothing new and forgets no dispatch.
SameMinute ==
  /\ clock' = clock /\ moved \subseteq moved'
  /\ \A s \in Schedules, k \in Kinds : Owed(s, k)' => Owed(s, k)
  /\ \A s \in Schedules, k \in Kinds, m \in Minutes : fired[s][k][m] > 0 => fired'[s][k][m] > 0

\* Such a step keeps what holds of the workers it does not move.
LEMMA OthersKept ==
  ASSUME AlarmTypeOK, SameMinute, NEW v, PassInv(worker[v]), NothingMissed(worker[v]),
         worker'[v] = worker[v]
  PROVE  PassInv(worker[v])' /\ NothingMissed(worker[v])'
<1>1. PassInv(worker[v])'
  BY DEF PassInv, SameMinute
<1>2. NothingMissed(worker[v])'
  BY DEF NothingMissed, SameMinute, StillAhead, AlarmTypeOK
<1> QED BY <1>1, <1>2

\* A worker that stays where it is keeps time while time does not pass.
LEMMA OthersKeepTime ==
  ASSUME UNCHANGED <<clock, half, rested>>, NEW v, KeepsTime(v), worker'[v] = worker[v]
  PROVE  KeepsTime(v)'
  BY DEF KeepsTime, Now

\* A step of one worker is judged by where it leaves that worker.
LEMMA OneWorker ==
  ASSUME AlarmInv, NoticeInv, SameMinute, MarkerFired', NEW w \in Workers, NEW new,
         Move(w, new), PassInv(worker[w])', NothingMissed(worker[w])', KeepsTime(w)',
         UNCHANGED <<half, rested>>
  PROVE  NoticeInv'
<1>1. \A v \in Workers : v # w => worker'[v] = worker[v]
  BY DEF Move, AlarmInv, WorkersInv
<1>2. ASSUME NEW v \in Workers
      PROVE  PassInv(worker[v])' /\ NothingMissed(worker[v])' /\ KeepsTime(v)'
  <2>1. CASE v = w
    BY <2>1
  <2>2. CASE v # w
    BY <1>1, <2>2, OthersKept, OthersKeepTime DEF AlarmInv, NoticeInv, SameMinute
  <2> QED BY <2>1, <2>2
<1> QED BY <1>2 DEF NoticeInv

\* So does one that goes on within its pass.
LEMMA PassKeepsTime ==
  ASSUME UNCHANGED <<clock, half, rested>>, NEW w \in Workers, KeepsTime(w),
         worker[w].pc \in Pass, worker'[w].pc \in Pass, worker'[w].minute = worker[w].minute
  PROVE  KeepsTime(w)'
  BY DEF KeepsTime, Pass

\* Without an edit and a claim the minute goes on as it was.
LEMMA NothingHappened ==
  ASSUME NoticeInv, UNCHANGED <<clock, row, marker, fired, touched, moved>>
  PROVE  SameMinute /\ MarkerFired'
  BY DEF SameMinute, Owed, NoticeInv, MarkerFired

\* A worker that rests has left nothing behind, or has no minute.
LEMMA RestNotices ==
  ASSUME AlarmInv, NoticeInv, NEW w \in Workers, NEW new, Move(w, new),
         UNCHANGED <<clock, half, row, marker, fired, touched, moved, rested>>,
         new = Stopped \/ new = Waiting(0, 0)
           \/ (new = Waiting(worker[w].minute, Now + 1) /\ worker[w].pc = "row" /\ worker[w].todo = {})
  PROVE  NoticeInv'
<1>1. worker'[w] = new
  BY MovedTo DEF AlarmInv
<1>2. /\ clock \in Nat /\ clock > 0 /\ Now \in Nat /\ Now' = Now
      /\ PassInv(worker[w]) /\ NothingMissed(worker[w]) /\ KeepsTime(w)
  BY NowTyped DEF AlarmInv, NoticeInv, Now
<1>3. /\ worker'[w].pc \in {"dead", "idle"} /\ worker'[w].todo = {}
      /\ \/ worker'[w].minute = 0 /\ worker'[w].wake = 0
         \/ /\ worker'[w].minute = worker[w].minute /\ worker[w].pc = "row" /\ worker[w].todo = {}
            /\ worker'[w].wake = Now + 1
  <2>1. Stopped.pc = "dead" /\ Stopped.todo = {} /\ Stopped.minute = 0 /\ Stopped.wake = 0
    BY DEF Stopped
  <2>2. \A m, n : /\ Waiting(m, n).pc = "idle" /\ Waiting(m, n).todo = {}
                  /\ Waiting(m, n).minute = m /\ Waiting(m, n).wake = n
    BY DEF Stopped, Waiting
  <2> QED BY <1>1, <2>1, <2>2
<1>4. PassInv(worker[w])'
  BY <1>2, <1>3 DEF PassInv
<1>5. NothingMissed(worker[w])'
  <2>1. CASE worker'[w].minute = 0
    BY <1>2, <2>1 DEF NothingMissed
  <2>2. CASE worker'[w].minute = worker[w].minute /\ worker[w].pc = "row" /\ worker[w].todo = {}
    BY <1>2, <2>2, NothingHappened DEF NothingMissed, StillAhead, SameMinute
  <2> QED BY <1>3, <2>1, <2>2
<1>6. KeepsTime(w)'
  <2>1. CASE worker'[w].minute = 0 /\ worker'[w].wake = 0
    <3>1. ~(worker'[w].wake > Now') /\ worker'[w].wake <= Now' + 1
      BY <1>2, <2>1
    <3> QED BY <1>3, <3>1 DEF KeepsTime, Pass
  <2>2. CASE worker'[w].minute = worker[w].minute /\ worker[w].pc = "row" /\ worker'[w].wake = Now + 1
    <3>1. w \in rested => worker[w].minute = clock
      BY <1>2, <2>2 DEF KeepsTime, Pass
    <3>2. worker'[w].wake <= Now' + 1
      BY <1>2, <2>2
    <3> QED BY <1>3, <2>2, <3>1, <3>2 DEF KeepsTime, Pass
  <2> QED BY <1>3, <2>1, <2>2
<1> QED BY <1>4, <1>5, <1>6, NothingHappened, OneWorker

\* A pass begins with every schedule that is enabled ahead of it.
LEMMA BeginNotices ==
  ASSUME AlarmInv, NoticeInv, NEW w \in Workers, Begin(w)
  PROVE  NoticeInv'
<1> DEFINE new == [pc |-> "row", minute |-> clock,
              todo |-> {s \in Schedules : row[s].live /\ row[s].enabled},
              cur |-> None, kind |-> "start", seen |-> None, rows |-> row, expired |-> FALSE,
              wake |-> 0]
<1>1. Move(w, new) /\ UNCHANGED <<clock, half, row, marker, fired, touched, moved, rested>>
  BY DEF Begin, Quiet
<1>2. worker'[w] = new
  BY <1>1, MovedTo DEF AlarmInv
<1>3. /\ worker'[w].pc = "row" /\ worker'[w].minute = clock
      /\ worker'[w].todo = {s \in Schedules : row[s].live /\ row[s].enabled}
  BY <1>2
<1>4. PassInv(worker[w])'
  BY <1>1, <1>3, AlarmAssumption DEF PassInv, AlarmInv, AlarmTypeOK, Minutes
<1>5. NothingMissed(worker[w])'
  BY <1>1, <1>3 DEF NothingMissed, Owed, StillAhead
<1>6. KeepsTime(w)'
  BY <1>1, <1>3 DEF KeepsTime
<1> HIDE DEF new
<1> QED BY <1>1, <1>4, <1>5, <1>6, NothingHappened, OneWorker

\* A pass that looks at an occurrence goes on to claim it, unless it is not due or
\* its marker shows that it was dispatched.
LEMMA LookNotices ==
  ASSUME AlarmInv, NoticeInv, NEW w \in Workers, NEW s \in Schedules, NEW k \in Kinds,
         Look(w, s, k),
         \/ k = "start" /\ worker[w].pc = "row" /\ s \in worker[w].todo
         \/ k = "stop" /\ worker[w].pc = "end" /\ s = worker[w].cur
  PROVE  NoticeInv'
<1> DEFINE r == worker[w]
           due == Time(View(w, s), k) = r.minute /\ marker[s][k] # r.minute
           A == [r EXCEPT !.cur = s, !.todo = @ \ {s}, !.pc = "claim", !.kind = k,
                          !.seen = marker[s][k]]
           B == [After(w, k) EXCEPT !.cur = IF k = "start" THEN s ELSE None, !.todo = @ \ {s}]
<1>1. UNCHANGED <<clock, half, row, marker, fired, touched, moved, rested>>
  BY DEF Look, Quiet
<1>2. r \in WorkerRecord /\ KeepsTime(w) /\ PassInv(r) /\ NothingMissed(r) /\ MarkerFired /\ r.pc \in Pass
  BY DEF AlarmInv, WorkersInv, NoticeInv, Pass
<1>3. PICK new : Move(w, new) /\ new = IF due THEN A ELSE B
  BY DEF Look
<1>4. worker'[w] = new
  BY <1>3, MovedTo DEF AlarmInv
<1>5. due => /\ new.pc = "claim" /\ new.cur = s /\ new.kind = k /\ new.seen = marker[s][k]
             /\ new.minute = r.minute /\ new.todo = r.todo \ {s}
  BY <1>2, <1>3 DEF WorkerRecord
<1>6. ~due => /\ new.minute = r.minute /\ new.todo = r.todo \ {s}
              /\ k = "start" => new.pc = "end" /\ new.cur = s
              /\ k = "stop" => new.pc = "row"
  BY <1>2, <1>3 DEF WorkerRecord, After, Kinds
<1>7. s \notin moved => Time(View(w, s), k) = Time(row[s], k)
  BY <1>2, ViewTime
<1>8. PassInv(worker[w])'
  <2>1. due /\ s \notin moved => marker[s][k] = None
    BY <1>2, <1>7 DEF MarkerFired
  <2> QED BY <1>1, <1>2, <1>4, <1>5, <1>6, <2>1 DEF PassInv, Kinds
<1>9. NothingMissed(worker[w])'
  <2> SUFFICES ASSUME r.minute = clock, NEW z \in Schedules, NEW j \in Kinds, Owed(z, j)
               PROVE  fired[z][j][clock] > 0 \/ StillAhead(new, z, j)
    BY <1>1, <1>4, <1>5, <1>6 DEF NothingMissed, Owed, StillAhead
  <2>1. fired[z][j][clock] > 0 \/ StillAhead(r, z, j)
    BY <1>2 DEF NothingMissed
  <2>2. CASE z # s
    BY <1>5, <1>6, <2>1, <2>2 DEF StillAhead
  <2>3. CASE z = s /\ j = k
    <3>1. Time(View(w, s), k) = clock
      BY <1>7, <2>3 DEF Owed
    <3>2. CASE due
      BY <1>5, <2>3, <3>2 DEF StillAhead
    <3>3. CASE ~due
      <4>1. marker[s][k] = clock /\ clock # None
        BY <3>1, <3>3, AlarmAssumption DEF AlarmInv, AlarmTypeOK, Minutes
      <4>2. fired[s][k][clock] > 0
        BY <1>2, <2>3, <4>1 DEF MarkerFired, Owed
      <4> QED BY <2>3, <4>2
    <3> QED BY <3>2, <3>3
  <2>4. CASE z = s /\ j # k /\ k = "start"
    BY <1>5, <1>6, <2>4 DEF StillAhead, Kinds
  <2>5. CASE z = s /\ j # k /\ k = "stop"
    BY <1>2, <2>1, <2>5 DEF StillAhead, PassInv, Kinds
  <2> QED BY <2>2, <2>3, <2>4, <2>5 DEF Kinds
<1>10. KeepsTime(w)'
  <2>1. worker'[w].pc \in Pass /\ worker'[w].minute = r.minute
    BY <1>4, <1>5, <1>6 DEF Pass, Kinds
  <2> QED BY <1>1, <1>2, <2>1, PassKeepsTime
<1> QED BY <1>1, <1>3, <1>8, <1>9, <1>10, NothingHappened, OneWorker

\* A claim that succeeds is a dispatch.  One that fails has met another worker's
\* claim of the same occurrence, because the marker had no value when it was read.
LEMMA ClaimNotices ==
  ASSUME AlarmInv, NoticeInv, NEW w \in Workers, Claim(w)
  PROVE  NoticeInv'
<1>0. PICK r \in WorkerRecord : r = worker[w]
  BY DEF AlarmInv, WorkersInv
<1> DEFINE A == [r EXCEPT !.pc = "busy", !.seen = None, !.rows = <<>>, !.expired = TRUE]
           B == [After(w, r.kind) EXCEPT !.rows = <<>>, !.expired = TRUE]
<1>1. /\ UNCHANGED <<clock, half, row, touched, moved, rested>> /\ r.pc = "claim" /\ r.pc \in Pass
      /\ r.cur \in Schedules /\ r.kind \in Kinds /\ r.minute \in Minutes
  BY <1>0 DEF Claim, Quiet, AlarmInv, WorkersInv, WorkerInv, WorkerRecord, Pass
<1>2. PassInv(r) /\ NothingMissed(r) /\ KeepsTime(w) /\ MarkerFired
  BY <1>0 DEF NoticeInv
<1>3. r.cur \notin moved => r.seen = None /\ Time(row[r.cur], r.kind) = r.minute
  BY <1>0, <1>1, <1>2 DEF PassInv, AlarmInv, WorkersInv, WorkerInv, ClaimFresh
<1>4. PICK new : Move(w, new) /\ new = IF Wins(w) THEN A ELSE B
  BY <1>0 DEF Claim
<1>5. worker'[w] = new
  BY <1>4, MovedTo DEF AlarmInv
<1>6. Wins(w) => /\ new.pc = "busy" /\ new.cur = r.cur /\ new.kind = r.kind
                 /\ new.minute = r.minute /\ new.todo = r.todo
  BY <1>4 DEF WorkerRecord
<1>7. ~Wins(w) => /\ new.minute = r.minute /\ new.todo = r.todo
                  /\ r.kind = "start" => new.pc = "end" /\ new.cur = r.cur
                  /\ r.kind = "stop" => new.pc = "row"
  BY <1>0, <1>1, <1>4 DEF WorkerRecord, After, Kinds
<1>8. /\ \A z \in Schedules, j \in Kinds :
           marker'[z][j] = IF Wins(w) /\ z = r.cur /\ j = r.kind THEN r.minute ELSE marker[z][j]
      /\ \A z \in Schedules, j \in Kinds, m \in Minutes :
           fired'[z][j][m] = IF Wins(w) /\ z = r.cur /\ j = r.kind /\ m = r.minute
                             THEN fired[z][j][m] + 1 ELSE fired[z][j][m]
  <2>1. /\ marker' = IF Wins(w) THEN [marker EXCEPT ![r.cur][r.kind] = r.minute] ELSE marker
        /\ fired' = IF Wins(w) THEN [fired EXCEPT ![r.cur][r.kind][r.minute] = @ + 1] ELSE fired
    BY <1>0 DEF Claim
  <2> QED BY <1>1, <2>1 DEF AlarmInv, AlarmTypeOK
<1>9. \A z \in Schedules, j \in Kinds, m \in Minutes : fired[z][j][m] \in Nat
  BY DEF AlarmInv, AlarmTypeOK
<1>10. \A z \in Schedules, j \in Kinds, m \in Minutes : fired[z][j][m] > 0 => fired'[z][j][m] > 0
  BY <1>8, <1>9
<1>11. SameMinute
  BY <1>1, <1>10 DEF SameMinute, Owed
<1>12. Wins(w) => fired'[r.cur][r.kind][r.minute] > 0
  BY <1>1, <1>8, <1>9
<1>13. MarkerFired'
  <2> SUFFICES ASSUME NEW z \in Schedules \ moved, NEW j \in Kinds, marker'[z][j] # None
               PROVE  marker'[z][j] = Time(row[z], j) /\ fired'[z][j][marker'[z][j]] > 0
    BY <1>1 DEF MarkerFired
  <2>1. CASE Wins(w) /\ z = r.cur /\ j = r.kind
    BY <1>3, <1>8, <1>12, <2>1
  <2>2. CASE ~(Wins(w) /\ z = r.cur /\ j = r.kind)
    <3>1. marker'[z][j] = marker[z][j] /\ marker[z][j] \in Minutes
      BY <1>8, <2>2 DEF AlarmInv, AlarmTypeOK
    <3> QED BY <1>2, <1>10, <3>1 DEF MarkerFired
  <2> QED BY <2>1, <2>2
<1>14. PassInv(worker[w])'
  BY <1>1, <1>2, <1>5, <1>6, <1>7 DEF PassInv, Kinds
<1>15. NothingMissed(worker[w])'
  <2> SUFFICES ASSUME r.minute = clock, NEW z \in Schedules, NEW j \in Kinds, Owed(z, j)
               PROVE  fired'[z][j][clock] > 0 \/ StillAhead(new, z, j)
    BY <1>1, <1>5, <1>6, <1>7 DEF NothingMissed, Owed, StillAhead
  <2>1. fired'[z][j][clock] > 0 \/ StillAhead(r, z, j)
    BY <1>1, <1>2, <1>10 DEF NothingMissed
  <2>2. CASE z \in r.todo
    BY <1>6, <1>7, <2>2 DEF StillAhead
  <2>3. CASE z = r.cur /\ j = "stop" /\ r.kind = "start"
    BY <1>6, <1>7, <2>3 DEF StillAhead
  <2>4. CASE z = r.cur /\ j = r.kind
    <3>1. CASE Wins(w)
      BY <1>12, <2>4, <3>1
    <3>2. CASE ~Wins(w)
      <4>1. r.seen = None /\ Time(row[z], j) = clock /\ z \in Schedules \ moved
        BY <1>3, <2>4 DEF Owed
      <4>2. marker[z][j] # None
        BY <1>0, <2>4, <3>2, <4>1 DEF Wins
      <4>3. fired[z][j][clock] > 0
        BY <1>2, <4>1, <4>2 DEF MarkerFired
      <4> QED BY <1>1, <1>10, <4>3
    <3> QED BY <3>1, <3>2
  <2> QED BY <1>1, <2>1, <2>2, <2>3, <2>4 DEF StillAhead
<1>16. KeepsTime(w)'
  <2>1. worker'[w].pc \in Pass /\ worker'[w].minute = r.minute
    BY <1>1, <1>5, <1>6, <1>7 DEF Pass, Kinds
  <2> QED BY <1>0, <1>1, <1>2, <2>1, PassKeepsTime
<1> QED BY <1>1, <1>4, <1>11, <1>13, <1>14, <1>15, <1>16, OneWorker

\* The end of a dispatch may disable its schedule, and looks at the end time next.
LEMMA ReturnNotices ==
  ASSUME AlarmInv, NoticeInv, NEW w \in Workers, Return(w)
  PROVE  NoticeInv'
<1>0. PICK r \in WorkerRecord : r = worker[w]
  BY DEF AlarmInv, WorkersInv
<1>1. /\ UNCHANGED <<clock, half, marker, fired, touched, moved, rested>> /\ r.pc = "busy"
      /\ r.cur \in Schedules /\ r.kind \in Kinds
  BY <1>0 DEF Return, Quiet, AlarmInv, WorkersInv, WorkerInv, WorkerRecord
<1>2. PassInv(r) /\ NothingMissed(r) /\ KeepsTime(w) /\ MarkerFired
  BY <1>0 DEF NoticeInv
<1>3. PICK new : Move(w, new) /\ new = After(w, r.kind)
  BY <1>0 DEF Return
<1>4. worker'[w] = new
  BY <1>3, MovedTo DEF AlarmInv
<1>5. /\ new.minute = r.minute /\ new.todo = r.todo
      /\ r.kind = "start" => new.pc = "end" /\ new.cur = r.cur
      /\ r.kind = "stop" => new.pc = "row"
  BY <1>0, <1>1, <1>3 DEF WorkerRecord, After, Kinds
<1>6. \A z \in Schedules :
        /\ row'[z].start = row[z].start /\ row'[z].end = row[z].end /\ row'[z].live = row[z].live
        /\ row'[z].enabled => row[z].enabled
  <2>1. row' = row \/ row' = [row EXCEPT ![r.cur].enabled = FALSE]
    BY <1>0 DEF Return
  <2>2. CASE row' = row
    BY <2>2
  <2>3. CASE row' = [row EXCEPT ![r.cur].enabled = FALSE]
    <3>1. row'[r.cur] = [row[r.cur] EXCEPT !.enabled = FALSE] /\ row[r.cur] \in Rows
      BY <1>1, <2>3 DEF AlarmInv, AlarmTypeOK
    <3>2. \A z \in Schedules : z # r.cur => row'[z] = row[z]
      BY <2>3 DEF AlarmInv, AlarmTypeOK
    <3>3. /\ row'[r.cur].start = row[r.cur].start /\ row'[r.cur].end = row[r.cur].end
          /\ row'[r.cur].live = row[r.cur].live /\ ~row'[r.cur].enabled
      BY <3>1 DEF Rows
    <3> QED BY <3>2, <3>3
  <2> QED BY <2>1, <2>2, <2>3
<1>7. \A z \in Schedules, j \in Kinds : Time(row'[z], j) = Time(row[z], j)
  BY <1>6 DEF Time
<1>8. SameMinute
  BY <1>1, <1>6, <1>7 DEF SameMinute, Owed
<1>9. MarkerFired'
  BY <1>1, <1>2, <1>7 DEF MarkerFired
<1>10. PassInv(worker[w])'
  BY <1>1, <1>2, <1>4, <1>5 DEF PassInv, Kinds
<1>11. NothingMissed(worker[w])'
  <2> SUFFICES ASSUME r.minute = clock, NEW z \in Schedules, NEW j \in Kinds, Owed(z, j)
               PROVE  fired[z][j][clock] > 0 \/ StillAhead(new, z, j)
    BY <1>1, <1>4, <1>5, <1>8 DEF NothingMissed, SameMinute, StillAhead
  <2>1. fired[z][j][clock] > 0 \/ StillAhead(r, z, j)
    BY <1>2 DEF NothingMissed
  <2> QED BY <1>1, <1>5, <2>1 DEF StillAhead, Kinds
<1>12. KeepsTime(w)'
  <2>1. worker[w].pc \in Pass /\ worker'[w].pc \in Pass /\ worker'[w].minute = worker[w].minute
    BY <1>0, <1>1, <1>4, <1>5 DEF Pass, Kinds
  <2> QED BY <1>1, <1>2, <2>1, PassKeepsTime
<1> QED BY <1>1, <1>3, <1>8, <1>9, <1>10, <1>11, <1>12, OneWorker

\* What a user edits is not owed any more in this minute.
LEMMA EditNotices ==
  ASSUME AlarmInv, NoticeInv, NEW s \in Schedules,
         UpdateSchedule(s) \/ EnableSchedule(s) \/ DeleteSchedule(s)
  PROVE  NoticeInv'
<1>1. /\ UNCHANGED <<clock, half, marker, worker, fired, rested>> /\ touched' = touched \cup {s}
      /\ moved \subseteq moved'
  BY DEF UpdateSchedule, EnableSchedule, DeleteSchedule, Edit
<1>2. \A z \in Schedules : z # s => row'[z] = row[z]
  BY DEF UpdateSchedule, EnableSchedule, DeleteSchedule, AlarmInv, AlarmTypeOK
<1>3. SameMinute
  BY <1>1, <1>2 DEF SameMinute, Owed
<1>4. TimesKept
  BY EditedTimes
<1>5. MarkerFired'
  BY <1>1, <1>4, KeptTime DEF NoticeInv, MarkerFired, TimesKept
<1> QED BY <1>1, <1>3, <1>5, OthersKept, OthersKeepTime DEF NoticeInv, AlarmInv

\* A worker outside a pass has slept until the next half when that begins.
LEMMA HalfMinuteKeeps ==
  ASSUME AlarmInv, NoticeInv, HalfMinute, Now' = Now + 1, NEW w \in Workers,
         worker'[w].pc = "idle"
  PROVE  worker'[w].wake = Now' /\ Now' \in Nat
<1>1. worker'[w] = worker[w] /\ worker[w].wake > Now
  BY DEF HalfMinute, Resting
<1>2. worker[w].wake \in Nat /\ Now \in Nat
  BY NowTyped DEF AlarmInv, WorkersInv, WorkerRecord
<1>3. worker[w].wake <= Now + 1
  BY <1>1 DEF NoticeInv, KeepsTime
<1> QED BY <1>1, <1>2, <1>3

\* A new minute finds no worker in it.
LEMMA TickNotices ==
  ASSUME AlarmInv, NoticeInv, Tick
  PROVE  NoticeInv'
<1>1. clock' = clock + 1 /\ clock \in Nat /\ UNCHANGED <<row, marker, worker, fired, moved>>
  BY NowTyped DEF Tick, HalfMinute, AlarmInv
<1>2. MarkerFired'
  BY <1>1 DEF NoticeInv, MarkerFired
<1>3. ASSUME NEW w \in Workers PROVE PassInv(worker[w])' /\ NothingMissed(worker[w])'
  <2>1. PassInv(worker[w]) /\ worker[w].minute \in Nat
    BY AlarmAssumption DEF NoticeInv, AlarmInv, WorkersInv, WorkerRecord
  <2>2. worker'[w].minute <= clock' /\ worker'[w].minute # clock'
    BY <1>1, <2>1 DEF PassInv
  <2> QED BY <1>1, <2>1, <2>2 DEF PassInv, NothingMissed
<1>4. ASSUME NEW w \in Workers PROVE KeepsTime(w)'
  <2>1. rested' = Resting /\ HalfMinute /\ Now' = Now + 1
    BY <1>1 DEF Tick, HalfMinute, Now
  <2>2. w \in rested' => worker'[w].pc = "idle"
    BY <1>1, <2>1 DEF Resting
  <2> QED BY <1>1, <2>1, <2>2, HalfMinuteKeeps DEF KeepsTime, Pass
<1> QED BY <1>2, <1>3, <1>4 DEF NoticeInv

\* In the middle of a minute nothing changes but who was seen outside a pass.
LEMMA MiddleNotices ==
  ASSUME AlarmInv, NoticeInv, MidMinute
  PROVE  NoticeInv'
<1>1. /\ UNCHANGED <<clock, row, marker, worker, fired, touched, moved>>
      /\ rested' = rested \cup Resting /\ HalfMinute
  BY DEF MidMinute, HalfMinute
<1>2. SameMinute /\ MarkerFired'
  BY <1>1, NothingHappened
<1>3. ASSUME NEW w \in Workers PROVE KeepsTime(w)'
  <2>1. Now' = Now + 1 /\ KeepsTime(w)
    BY NowTyped DEF MidMinute, HalfMinute, Now, NoticeInv, AlarmInv
  <2>2. w \in rested' /\ worker'[w].pc \in Pass => worker'[w].minute = clock'
    BY <1>1, <2>1 DEF KeepsTime, Resting, Pass
  <2> QED BY <1>1, <2>1, <2>2, HalfMinuteKeeps DEF KeepsTime
<1> QED BY <1>1, <1>2, <1>3, OthersKept DEF NoticeInv, AlarmInv

\* Every step keeps what is known of the current minute.
LEMMA NextNotices ==
  ASSUME AlarmInv, NoticeInv, [Next]_alarmVars
  PROVE  NoticeInv'
<1>1. ASSUME NEW w \in Workers, Begin(w) PROVE NoticeInv'
  BY <1>1, BeginNotices
<1>2. ASSUME NEW w \in Workers, EndPass(w) PROVE NoticeInv'
  BY <1>2, RestNotices DEF EndPass, Quiet, Sleep
<1>3. ASSUME NEW w \in Workers, NEW s, Dies(w, s) PROVE NoticeInv'
  BY <1>3, RestNotices DEF Dies, Quiet
<1>4. ASSUME NEW w \in Workers, Crash(w) PROVE NoticeInv'
  BY <1>4, RestNotices DEF Crash
<1>5. ASSUME NEW w \in Workers, CheckStart(w) PROVE NoticeInv'
  <2>1. PICK s \in worker[w].todo : Look(w, s, "start") \/ Dies(w, s)
    BY <1>5 DEF CheckStart
  <2>2. s \in Schedules /\ worker[w].pc = "row" /\ "start" \in Kinds
    BY <1>5 DEF AlarmInv, WorkersInv, WorkerRecord, CheckStart, Kinds
  <2> QED BY <1>3, <2>1, <2>2, LookNotices
<1>6. ASSUME NEW w \in Workers, CheckEnd(w) PROVE NoticeInv'
  <2>1. worker[w].cur \in Schedules /\ worker[w].pc = "end" /\ "stop" \in Kinds
    BY <1>6 DEF AlarmInv, WorkersInv, WorkerInv, CheckEnd, Kinds
  <2> QED BY <1>3, <1>6, <2>1, LookNotices DEF CheckEnd
<1>7. ASSUME NEW w \in Workers, Claim(w) PROVE NoticeInv'
  BY <1>7, ClaimNotices
<1>8. ASSUME NEW w \in Workers, Return(w) PROVE NoticeInv'
  BY <1>8, ReturnNotices
<1>9. ASSUME NEW s \in Schedules, UpdateSchedule(s) \/ EnableSchedule(s) \/ DeleteSchedule(s)
      PROVE  NoticeInv'
  BY <1>9, EditNotices
<1>10. CASE Tick
  BY <1>10, TickNotices
<1>11. CASE MidMinute
  BY <1>11, MiddleNotices
<1>12. CASE UNCHANGED alarmVars
  BY <1>12, NothingHappened, OthersKept, OthersKeepTime DEF alarmVars, NoticeInv, AlarmInv
<1> QED BY <1>1, <1>2, <1>3, <1>4, <1>5, <1>6, <1>7, <1>8, <1>9, <1>10, <1>11, <1>12
        DEF Next, ReturnGone

\* The loop of alarm_engine.py and _claim_schedule_marker(): when a minute ends that
\* some worker spends outside a pass at its end and at its beginning or middle,
\* every occurrence of it that was enabled all along, of a schedule whose times
\* nobody edited, was dispatched, by that worker or by the one that took the claim
\* from it.
THEOREM NoticedHolds == AlarmSpec => Noticed
<1> DEFINE A == clock' # clock =>
                 \A s \in Schedules \ (touched \cup moved), k \in Kinds :
                   /\ row[s].live /\ row[s].enabled /\ Time(row[s], k) = clock
                   /\ rested \cap Resting # {}
                 => fired[s][k][clock] > 0
<1>1. Init => NoticeInv
  <2> SUFFICES ASSUME Init PROVE NoticeInv
    OBVIOUS
  <2>1. MarkerFired
    BY DEF Init, MarkerFired
  <2>2. ASSUME NEW w \in Workers
        PROVE  PassInv(worker[w]) /\ NothingMissed(worker[w]) /\ KeepsTime(w)
    <3>1. /\ worker[w].pc = "idle" /\ worker[w].minute = 0 /\ worker[w].todo = {} /\ clock = 1
          /\ worker[w].wake = 0
      BY DEF Init, Waiting, Stopped
    <3>2. Now = 2
      BY <3>1 DEF Init, Now
    <3> QED BY <3>1, <3>2 DEF PassInv, NothingMissed, KeepsTime, Pass
  <2> QED BY <2>1, <2>2 DEF NoticeInv
<1>2. AlarmInv /\ NoticeInv /\ [Next]_alarmVars => NoticeInv'
  BY NextNotices
<1>3. NoticeInv /\ [Next]_alarmVars => [A]_alarmVars
  <2> SUFFICES ASSUME NoticeInv, Next, clock' # clock,
                      NEW s \in Schedules \ (touched \cup moved), NEW k \in Kinds,
                      row[s].live, row[s].enabled, Time(row[s], k) = clock,
                      NEW w \in rested \cap Resting
               PROVE  fired[s][k][clock] > 0
    OBVIOUS
  <2>1. Tick
    BY DEF Next, Begin, EndPass, CheckStart, CheckEnd, Look, Dies, Claim, Return, ReturnGone,
           Crash, Quiet, UpdateSchedule, EnableSchedule, DeleteSchedule, Edit, MidMinute
  <2>2. worker[w].minute = clock /\ Owed(s, k)
    BY <2>1 DEF Tick, HalfMinute, Resting, NoticeInv, KeepsTime, Owed
  <2>3. ~StillAhead(worker[w], s, k)
    BY DEF Resting, NoticeInv, PassInv, StillAhead
  <2> QED BY <2>2, <2>3 DEF Resting, NoticeInv, NothingMissed
<1> QED BY <1>1, <1>2, <1>3, AlarmInvariant, PTL DEF AlarmSpec, Noticed

-----------------------------------------------------------------------------
(***************************************************************************)
(* Keepalive: a lasting INVALID_SOURCE is diagnosed once                   *)
(***************************************************************************)

\* The stored state, the device row, and a poll with its copy of the state.
KeepaliveRecord == [failures : 0 .. Pause, retry : BOOLEAN, invalid : BOOLEAN, manual : BOOLEAN]

DeviceRow == [failures : 0 .. Pause, reachable : BOOLEAN]

PollRecord ==
  [pc : {"idle", "find", "skip", "enter"} \cup Working, copy : KeepaliveRecord,
   saw : Reports, open : BOOLEAN, first : BOOLEAN]

Owners == Pollers \cup {"none", "command"}

\* The types.
KeepaliveTypeOK ==
  /\ radio \in [online : BOOLEAN, report : Reports]
  /\ device \in DeviceRow /\ safe \in BOOLEAN
  /\ ka \in KeepaliveRecord /\ ahead \in BOOLEAN
  /\ poll \in [Pollers -> PollRecord] /\ owner \in Owners
  /\ diagnosed \in Nat

\* Only the owner of the radio works with a copy that it will store as it is.
OwnerWorks == \A p \in Pollers : poll[p].pc \in Working => owner = p

\* Who does not remember the invalid source, the stored state or the copy a poll
\* works with under the lock, has not diagnosed it since.
DiagnosisRemembered ==
  /\ ~ka.invalid => diagnosed = 0
  /\ \A p \in Pollers : poll[p].pc \in Working /\ ~poll[p].copy.invalid => diagnosed = 0

\* The inductive invariant.
KeepaliveInv == KeepaliveTypeOK /\ OwnerWorks /\ DiagnosisRemembered /\ DiagnosedOnce

\* No stored state and no poll have their types.
LEMMA NoneStored ==
  NoKeepalive \in KeepaliveRecord /\ NoPoll \in PollRecord /\ NoPoll.pc \notin Working
<1>1. NoKeepalive \in KeepaliveRecord
  BY KeepaliveAssumption DEF NoKeepalive, KeepaliveRecord
<1> QED BY <1>1 DEF NoPoll, PollRecord, Reports, Working

\* The invariant holds before the first poll.
LEMMA KeepaliveStarts == KeepaliveInit => KeepaliveInv
<1> SUFFICES ASSUME KeepaliveInit PROVE KeepaliveInv
  OBVIOUS
<1>1. device \in DeviceRow
  BY KeepaliveAssumption DEF KeepaliveInit, DeviceRow
<1>2. poll \in [Pollers -> PollRecord] /\ \A p \in Pollers : poll[p].pc \notin Working
  BY NoneStored DEF KeepaliveInit
<1>3. KeepaliveTypeOK
  BY <1>1, <1>2, NoneStored DEF KeepaliveInit, KeepaliveTypeOK, Owners
<1> QED BY <1>2, <1>3
  DEF KeepaliveInit, KeepaliveInv, OwnerWorks, DiagnosisRemembered, DiagnosedOnce

\* Counting a failure keeps both counters within their limit.
LEMMA Capped ==
  ASSUME NEW a \in 0 .. Pause, NEW b \in 0 .. Pause
  PROVE  LET n == Larger(a, b) + 1
         IN  n \in Nat /\ (IF n > Pause THEN Pause ELSE n) \in 0 .. Pause
  BY KeepaliveAssumption DEF Larger

\* A row of the device.
LEMMA RowOf ==
  ASSUME NEW n \in 0 .. Pause, NEW b \in BOOLEAN
  PROVE  [failures |-> n, reachable |-> b] \in DeviceRow
  BY DEF DeviceRow

\* A row without failures.
LEMMA RowCleared == [failures |-> 0, reachable |-> TRUE] \in DeviceRow
<1>1. 0 \in 0 .. Pause
  BY KeepaliveAssumption
<1> QED BY <1>1 DEF DeviceRow

\* One poll takes a step.
LEMMA OnePollMoves ==
  ASSUME KeepaliveTypeOK, NEW p \in Pollers, NEW new \in PollRecord,
         poll' = [poll EXCEPT ![p] = new]
  PROVE  /\ poll' \in [Pollers -> PollRecord] /\ poll'[p] = new
         /\ \A q \in Pollers \ {p} : poll'[q] = poll[q]
  BY DEF KeepaliveTypeOK

\* A poll begins to work as it becomes the owner, and ends as it lets go.
LEMMA OwnerStep ==
  ASSUME KeepaliveInv, NEW p \in Pollers, NEW new \in PollRecord,
         poll' = [poll EXCEPT ![p] = new],
         \/ owner' = owner /\ (new.pc \in Working => poll[p].pc \in Working)
         \/ owner = "none" /\ owner' = p
         \/ poll[p].pc \in Working /\ new.pc \notin Working /\ owner' = "none"
  PROVE  OwnerWorks' /\ owner' \in Owners
<1>1. /\ poll'[p] = new /\ \A q \in Pollers \ {p} : poll'[q] = poll[q]
      /\ OwnerWorks /\ owner \in Owners
  BY OnePollMoves DEF KeepaliveInv, KeepaliveTypeOK
<1>2. "none" \notin Pollers
  BY KeepaliveAssumption
<1>3. OwnerWorks'
  BY <1>1, <1>2 DEF OwnerWorks
<1> QED BY <1>1, <1>3 DEF Owners

\* What is stored, or what the owner goes on with, remembers a diagnosis that was
\* made and not discarded.
LEMMA RememberedKept ==
  ASSUME KeepaliveInv, KeepaliveTypeOK', OwnerWorks',
         NEW p \in Pollers, NEW new \in PollRecord, poll' = [poll EXCEPT ![p] = new],
         diagnosed' \in {0, diagnosed},
         ~ka'.invalid => diagnosed' = 0,
         new.pc \in Working /\ ~new.copy.invalid => diagnosed' = 0
  PROVE  KeepaliveInv'
<1>1. poll'[p] = new /\ \A q \in Pollers \ {p} : poll'[q] = poll[q]
  BY OnePollMoves DEF KeepaliveInv
<1>2. \A q \in Pollers : poll'[q].pc \in Working /\ ~poll'[q].copy.invalid => diagnosed' = 0
  BY <1>1 DEF KeepaliveInv, DiagnosisRemembered
<1>3. DiagnosedOnce'
  BY DEF KeepaliveInv, DiagnosedOnce, KeepaliveTypeOK
<1> QED BY <1>2, <1>3 DEF KeepaliveInv, DiagnosisRemembered

\* The policy's verdicts are truth values.
LEMMA Verdicts == CircuitOpen \in BOOLEAN /\ Denied \in BOOLEAN
  BY DEF CircuitOpen, Denied

\* A rediscovery clears the failures and leaves the source remembered.
LEMMA FoundKeeps ==
  ASSUME KeepaliveTypeOK, Found
  PROVE  /\ device' \in DeviceRow
         /\ ka' \in KeepaliveRecord /\ ka'.invalid = ka.invalid
         /\ ahead' = ahead
<1>1. 0 \in 0 .. Pause
  BY KeepaliveAssumption
<1>2. ka' \in KeepaliveRecord /\ ka'.invalid = ka.invalid
  BY <1>1 DEF Found, KeepaliveTypeOK, KeepaliveRecord
<1> QED BY <1>2, RowCleared DEF Found

\* A poll goes on outside the lock.
LEMMA GoesOutside ==
  ASSUME NEW p \in Pollers, NEW pc \in {"find", "skip", "enter"}, NEW k \in KeepaliveRecord,
         NEW o \in BOOLEAN, Goes(p, pc, k, o)
  PROVE  \E new \in PollRecord : new.pc \notin Working /\ poll' = [poll EXCEPT ![p] = new]
<1> DEFINE new == [NoPoll EXCEPT !.pc = pc, !.copy = k, !.open = o]
<1>1. new \in PollRecord /\ new.pc = pc
  BY NoneStored DEF PollRecord
<1>2. poll' = [poll EXCEPT ![p] = new]
  BY DEF Goes
<1> HIDE DEF new
<1>3. new.pc \notin Working
  BY <1>1 DEF Working
<1> QED BY <1>1, <1>2, <1>3

\* A poll enters, looks for the radio, or is to be skipped.
LEMMA PollStartsKeeps ==
  ASSUME KeepaliveInv, NEW p \in Pollers, PollStarts(p) PROVE KeepaliveInv'
<1>1. /\ UNCHANGED <<radio, safe, device, ka, ahead, owner, diagnosed>>
      /\ KeepaliveTypeOK /\ DiagnosisRemembered
  BY DEF PollStarts, Outside, KeepaliveInv
<1>2. ka \in KeepaliveRecord /\ CircuitOpen \in BOOLEAN
  BY <1>1, Verdicts DEF KeepaliveTypeOK
<1>3. \/ Goes(p, "enter", NoKeepalive, FALSE)
      \/ Goes(p, "find", ka, CircuitOpen)
      \/ Goes(p, "skip", ka, FALSE)
  BY DEF PollStarts
<1>4. PICK new \in PollRecord : new.pc \notin Working /\ poll' = [poll EXCEPT ![p] = new]
  BY <1>2, <1>3, NoneStored, GoesOutside
<1>5. OwnerWorks' /\ poll' \in [Pollers -> PollRecord]
  BY <1>1, <1>4, OwnerStep, OnePollMoves
<1>6. KeepaliveTypeOK'
  BY <1>1, <1>5 DEF KeepaliveTypeOK
<1> QED BY <1>1, <1>4, <1>5, <1>6, RememberedKept DEF DiagnosisRemembered

\* A denied radio is found without the lock.
LEMMA FindsKeeps ==
  ASSUME KeepaliveInv, NEW p \in Pollers, Finds(p) PROVE KeepaliveInv'
<1>1. /\ UNCHANGED <<radio, safe, owner, diagnosed>>
      /\ KeepaliveTypeOK /\ DiagnosisRemembered /\ Found
  BY DEF Finds, Outside, KeepaliveInv
<1>2. /\ device' \in DeviceRow /\ ka' \in KeepaliveRecord /\ ka'.invalid = ka.invalid
      /\ ahead' = ahead
  BY <1>1, FoundKeeps
<1>3. Goes(p, "enter", NoKeepalive, FALSE) \/ Goes(p, "skip", ka', FALSE)
  BY DEF Finds
<1>4. PICK new \in PollRecord : new.pc \notin Working /\ poll' = [poll EXCEPT ![p] = new]
  BY <1>2, <1>3, NoneStored, GoesOutside
<1>5. OwnerWorks' /\ poll' \in [Pollers -> PollRecord]
  BY <1>1, <1>4, OwnerStep, OnePollMoves
<1>6. KeepaliveTypeOK'
  BY <1>1, <1>2, <1>5 DEF KeepaliveTypeOK
<1> QED BY <1>1, <1>2, <1>4, <1>5, <1>6, RememberedKept DEF DiagnosisRemembered

\* A skipped poll stores the copy it has loaded, and with it an older memory.
LEMMA SkipKeeps ==
  ASSUME KeepaliveInv, NEW p \in Pollers, Skip(p) PROVE KeepaliveInv'
<1>1. /\ UNCHANGED <<radio, safe, device, owner>>
      /\ KeepaliveTypeOK /\ DiagnosisRemembered
      /\ poll' = [poll EXCEPT ![p] = NoPoll]
      /\ ka' = [poll[p].copy EXCEPT !.retry = @ \/ poll[p].open]
      /\ ahead' = (ahead \/ (poll[p].open /\ ~poll[p].copy.retry))
      /\ diagnosed' = IF ka.invalid /\ ~poll[p].copy.invalid THEN 0 ELSE diagnosed
  BY DEF Skip, Idle, Outside, KeepaliveInv
<1>2. poll[p].copy \in KeepaliveRecord /\ poll[p].open \in BOOLEAN
  BY <1>1 DEF KeepaliveTypeOK, PollRecord
<1>3. ka' \in KeepaliveRecord /\ ka'.invalid = poll[p].copy.invalid /\ ahead' \in BOOLEAN
  BY <1>1, <1>2 DEF KeepaliveRecord
<1>4. diagnosed' \in {0, diagnosed} /\ (~ka'.invalid => diagnosed' = 0) /\ diagnosed' \in Nat
  BY <1>1, <1>3 DEF DiagnosisRemembered, KeepaliveTypeOK
<1>5. OwnerWorks' /\ poll' \in [Pollers -> PollRecord]
  BY <1>1, NoneStored, OwnerStep, OnePollMoves
<1>6. KeepaliveTypeOK'
  BY <1>1, <1>3, <1>4, <1>5 DEF KeepaliveTypeOK
<1> QED BY <1>1, <1>4, <1>5, <1>6, NoneStored, RememberedKept

\* A poll gives up at a lock that is held.
LEMMA BusyKeeps ==
  ASSUME KeepaliveInv, NEW p \in Pollers, Busy(p) PROVE KeepaliveInv'
<1>1. /\ UNCHANGED <<radio, safe, device, ka, ahead, owner, diagnosed>>
      /\ KeepaliveTypeOK /\ DiagnosisRemembered /\ poll' = [poll EXCEPT ![p] = NoPoll]
  BY DEF Busy, Idle, Outside, KeepaliveInv
<1>2. OwnerWorks' /\ poll' \in [Pollers -> PollRecord]
  BY <1>1, NoneStored, OwnerStep, OnePollMoves
<1>3. KeepaliveTypeOK'
  BY <1>1, <1>2 DEF KeepaliveTypeOK
<1> QED BY <1>1, <1>2, <1>3, NoneStored, RememberedKept DEF DiagnosisRemembered

\* A poll that enters works with a copy of the state under the lock.
LEMMA EntersKeeps ==
  ASSUME KeepaliveInv, NEW p \in Pollers, Enters(p) PROVE KeepaliveInv'
<1>1. /\ UNCHANGED <<radio, safe, device, ka, ahead, diagnosed>>
      /\ KeepaliveTypeOK /\ DiagnosisRemembered /\ owner = "none"
  BY DEF Enters, Outside, KeepaliveInv
<1>2. CASE poll' = [poll EXCEPT ![p] = NoPoll] /\ owner' = owner
  <2>1. /\ OwnerWorks' /\ poll' \in [Pollers -> PollRecord] /\ owner' \in Owners
    BY <1>2, <1>1, NoneStored, OwnerStep, OnePollMoves
  <2>2. KeepaliveTypeOK'
    BY <1>1, <2>1 DEF KeepaliveTypeOK
  <2> QED BY <1>1, <1>2, <2>1, <2>2, NoneStored, RememberedKept DEF DiagnosisRemembered
<1>3. CASE Goes(p, "read", ka, FALSE) /\ owner' = p
  <2> DEFINE new == [NoPoll EXCEPT !.pc = "read", !.copy = ka, !.open = FALSE]
  <2>1. new \in PollRecord /\ new.copy = ka
    BY <1>1, NoneStored DEF KeepaliveTypeOK, PollRecord, Working
  <2>2. poll' = [poll EXCEPT ![p] = new]
    BY <1>3 DEF Goes
  <2> HIDE DEF new
  <2>3. OwnerWorks' /\ poll' \in [Pollers -> PollRecord] /\ owner' \in Owners
    BY <1>1, <1>3, <2>1, <2>2, OwnerStep, OnePollMoves
  <2>4. KeepaliveTypeOK'
    BY <1>1, <2>3 DEF KeepaliveTypeOK
  <2> QED BY <1>1, <2>1, <2>2, <2>3, <2>4, RememberedKept DEF DiagnosisRemembered
<1> QED BY <1>2, <1>3 DEF Enters, Idle

\* The radio is read.
LEMMA ReadsKeeps ==
  ASSUME KeepaliveInv, NEW p \in Pollers, Reads(p) PROVE KeepaliveInv'
<1>1. /\ UNCHANGED <<radio, safe, device, ka, ahead, owner, diagnosed>>
      /\ KeepaliveTypeOK /\ DiagnosisRemembered /\ poll[p].pc = "read"
      /\ poll[p] \in PollRecord /\ radio.report \in Reports
      /\ poll[p].pc \in Working
  BY DEF Reads, Outside, KeepaliveInv, KeepaliveTypeOK, Working
<1>2. PICK new : /\ poll' = [poll EXCEPT ![p] = new]
                 /\ \/ new = [poll[p] EXCEPT !.pc = "failed"]
                    \/ new = [poll[p] EXCEPT !.pc = "save", !.saw = radio.report]
  BY <1>1 DEF Reads, KeepaliveTypeOK
<1>3. new \in PollRecord /\ new.copy = poll[p].copy
  BY <1>1, <1>2 DEF PollRecord, Working
<1>4. OwnerWorks' /\ poll' \in [Pollers -> PollRecord]
  BY <1>1, <1>2, <1>3, OwnerStep, OnePollMoves
<1>5. KeepaliveTypeOK'
  BY <1>1, <1>4 DEF KeepaliveTypeOK
<1> QED BY <1>1, <1>2, <1>3, <1>4, <1>5, RememberedKept DEF DiagnosisRemembered

\* The copy that is stored remembers what was seen: the second diagnosis of a
\* source that was never seen valid needs a copy without it.
LEMMA SavesKeeps ==
  ASSUME KeepaliveInv, NEW p \in Pollers, Saves(p) PROVE KeepaliveInv'
<1>1. /\ KeepaliveTypeOK /\ OwnerWorks /\ DiagnosisRemembered /\ DiagnosedOnce
      /\ poll[p].pc = "save" /\ poll[p].pc \in Working
      /\ ka' = Observed(p) /\ UNCHANGED <<radio, safe, ahead>>
  BY DEF Saves, Outside, KeepaliveInv, Working
<1>2. Observed(p) \in KeepaliveRecord /\ (Observed(p).invalid <=> poll[p].saw = "invalid")
  <2>1. 0 \in 0 .. Pause
    BY KeepaliveAssumption
  <2>2. poll[p].copy.manual \in BOOLEAN
    BY <1>1 DEF KeepaliveTypeOK, PollRecord, KeepaliveRecord
  <2> QED BY <2>1, <2>2 DEF Observed, KeepaliveRecord
<1>3. device' \in DeviceRow
  BY <1>1, RowCleared DEF Saves, KeepaliveTypeOK
<1>4. PICK new \in PollRecord :
        /\ poll' = [poll EXCEPT ![p] = new]
        /\ \/ new.pc \notin Working /\ owner' = "none"
           \/ new.copy = Observed(p) /\ owner' = owner
  <2>1. CASE Goes(p, "recover", Observed(p), FALSE) /\ owner' = owner
    <3> DEFINE new == [NoPoll EXCEPT !.pc = "recover", !.copy = Observed(p), !.open = FALSE]
    <3>1. new \in PollRecord /\ new.copy = Observed(p)
      BY <1>2, NoneStored DEF PollRecord, Working
    <3>2. poll' = [poll EXCEPT ![p] = new]
      BY <2>1 DEF Goes
    <3> HIDE DEF new
    <3> QED BY <2>1, <3>1, <3>2
  <2>2. CASE Idle(p) /\ owner' = "none"
    BY <2>2, NoneStored DEF Idle
  <2> QED BY <2>1, <2>2 DEF Saves
<1>5. OwnerWorks' /\ poll' \in [Pollers -> PollRecord] /\ owner' \in Owners
  BY <1>1, <1>4, OwnerStep, OnePollMoves
<1>6. ASSUME diagnosed' \in Nat PROVE KeepaliveTypeOK'
  BY <1>1, <1>2, <1>3, <1>5, <1>6 DEF KeepaliveTypeOK
<1>7. CASE Transition(p) /\ diagnosed' = diagnosed + 1
  <2>1. diagnosed = 0 /\ Observed(p).invalid
    BY <1>1, <1>2, <1>7 DEF Transition, DiagnosisRemembered
  <2>2. diagnosed' = 1
    BY <1>7, <2>1
  <2>3. poll'[p] = new /\ \A q \in Pollers \ {p} : poll'[q] = poll[q]
    BY <1>1, <1>4, OnePollMoves
  <2>4. \A q \in Pollers \ {p} : poll[q].pc \notin Working
    BY <1>1 DEF OwnerWorks
  <2>5. DiagnosisRemembered'
    BY <1>1, <1>4, <2>1, <2>3, <2>4 DEF DiagnosisRemembered
  <2> QED BY <1>5, <1>6, <2>2, <2>5 DEF KeepaliveInv, DiagnosedOnce
<1>8. CASE poll[p].saw = "invalid" /\ diagnosed' = diagnosed
  BY <1>1, <1>2, <1>4, <1>5, <1>6, <1>8, RememberedKept DEF KeepaliveTypeOK
<1>9. CASE diagnosed' = 0
  BY <1>1, <1>4, <1>5, <1>6, <1>9, RememberedKept
<1>10. \/ Transition(p) /\ diagnosed' = diagnosed + 1
       \/ poll[p].saw = "invalid" /\ diagnosed' = diagnosed
       \/ diagnosed' = 0
  BY DEF Saves
<1> QED BY <1>7, <1>8, <1>9, <1>10

\* The recovery stores the copy of the observation, or nothing.
LEMMA RecoveryKeeps ==
  ASSUME KeepaliveInv, NEW p \in Pollers, Recovery(p) PROVE KeepaliveInv'
<1>1. /\ UNCHANGED <<radio, safe, device, ahead, diagnosed>> /\ owner' = "none"
      /\ poll' = [poll EXCEPT ![p] = NoPoll] /\ ka' \in {ka, poll[p].copy}
      /\ KeepaliveTypeOK /\ DiagnosisRemembered /\ poll[p].pc \in Working
  BY DEF Recovery, Idle, Outside, KeepaliveInv, Working
<1>2. ka' \in KeepaliveRecord
  BY <1>1 DEF KeepaliveTypeOK, PollRecord
<1>3. ~ka'.invalid => diagnosed = 0
  BY <1>1 DEF DiagnosisRemembered
<1>4. OwnerWorks' /\ poll' \in [Pollers -> PollRecord] /\ owner' \in Owners
  BY <1>1, NoneStored, OwnerStep, OnePollMoves
<1>5. KeepaliveTypeOK'
  BY <1>1, <1>2, <1>4 DEF KeepaliveTypeOK
<1> QED BY <1>1, <1>3, <1>4, <1>5, NoneStored, RememberedKept

\* After a failed reading the radio is found again.
LEMMA RefindsKeeps ==
  ASSUME KeepaliveInv, NEW p \in Pollers, Refinds(p) PROVE KeepaliveInv'
<1> DEFINE new == [NoPoll EXCEPT !.pc = "read", !.copy = ka', !.first = FALSE, !.open = safe]
<1>1. /\ UNCHANGED <<radio, safe, owner, diagnosed>> /\ Found
      /\ KeepaliveTypeOK /\ DiagnosisRemembered /\ poll[p].pc \in Working
      /\ poll' = [poll EXCEPT ![p] = new]
  BY DEF Refinds, Outside, KeepaliveInv, Working
<1>2. /\ device' \in DeviceRow /\ ka' \in KeepaliveRecord /\ ka'.invalid = ka.invalid
      /\ ahead' = ahead
  BY <1>1, FoundKeeps
<1>3. safe \in BOOLEAN
  BY <1>1 DEF KeepaliveTypeOK
<1>4. new \in PollRecord /\ new.copy = ka'
  BY <1>2, <1>3, NoneStored DEF PollRecord, Working
<1> HIDE DEF new
<1>5. OwnerWorks' /\ poll' \in [Pollers -> PollRecord] /\ owner' \in Owners
  BY <1>1, <1>4, OwnerStep, OnePollMoves
<1>6. KeepaliveTypeOK'
  BY <1>1, <1>2, <1>5 DEF KeepaliveTypeOK
<1> QED BY <1>1, <1>2, <1>4, <1>5, <1>6, RememberedKept DEF DiagnosisRemembered

\* The failure is counted and the copy stored.
LEMMA FailsKeeps ==
  ASSUME KeepaliveInv, NEW p \in Pollers, Fails(p) PROVE KeepaliveInv'
<1> DEFINE n == Larger(poll[p].copy.failures, device.failures) + 1
           capped == IF n > Pause THEN Pause ELSE n
<1>1. /\ UNCHANGED <<radio, safe, diagnosed>> /\ owner' = "none"
      /\ poll' = [poll EXCEPT ![p] = NoPoll]
      /\ KeepaliveTypeOK /\ DiagnosisRemembered /\ poll[p].pc \in Working
      /\ ahead' = Backoff(n)
      /\ ka' = [poll[p].copy EXCEPT !.failures = capped, !.retry = Backoff(n)]
      /\ \/ device' = [failures |-> capped, reachable |-> device.reachable /\ n < Offline]
         \/ device' = device
  BY DEF Fails, Idle, Outside, KeepaliveInv, Working
<1>2. poll[p].copy \in KeepaliveRecord /\ device \in DeviceRow
  BY <1>1 DEF KeepaliveTypeOK, PollRecord
<1>3. capped \in 0 .. Pause
  BY <1>2, Capped DEF KeepaliveRecord, DeviceRow
<1>4. Backoff(n) \in BOOLEAN /\ (device.reachable /\ n < Offline) \in BOOLEAN
  BY DEF Backoff
<1> HIDE DEF n, capped
<1>5. ka' \in KeepaliveRecord /\ ka'.invalid = poll[p].copy.invalid
  BY <1>1, <1>2, <1>3, <1>4 DEF KeepaliveRecord
<1>6. device' \in DeviceRow
  BY <1>1, <1>2, <1>3, <1>4, RowOf
<1>7. OwnerWorks' /\ poll' \in [Pollers -> PollRecord] /\ owner' \in Owners
  BY <1>1, NoneStored, OwnerStep, OnePollMoves
<1>8. KeepaliveTypeOK'
  BY <1>1, <1>4, <1>5, <1>6, <1>7 DEF KeepaliveTypeOK
<1>9. ~ka'.invalid => diagnosed = 0
  BY <1>1, <1>5 DEF DiagnosisRemembered
<1> QED BY <1>1, <1>7, <1>8, <1>9, NoneStored, RememberedKept

\* A refresh writes the device row only.
LEMMA RefreshKeeps == ASSUME KeepaliveInv, Refresh PROVE KeepaliveInv'
<1>1. /\ UNCHANGED <<radio, safe, ka, ahead, poll, owner, diagnosed>>
      /\ KeepaliveTypeOK /\ device \in DeviceRow
  BY DEF Refresh, Call, KeepaliveInv, KeepaliveTypeOK
<1> DEFINE n == IF device.failures < Pause THEN device.failures + 1 ELSE Pause
<1>2. n \in 0 .. Pause
  BY <1>1, KeepaliveAssumption DEF DeviceRow
<1>3. \/ device' = [failures |-> 0, reachable |-> TRUE]
      \/ device' = [failures |-> n, reachable |-> device.reachable /\ device.failures + 1 < 3]
  BY DEF Refresh
<1> HIDE DEF n
<1>4. (device.reachable /\ device.failures + 1 < 3) \in BOOLEAN
  OBVIOUS
<1>5. device' \in DeviceRow
  BY <1>2, <1>3, <1>4, RowOf, RowCleared
<1>6. KeepaliveTypeOK'
  BY <1>1, <1>5 DEF KeepaliveTypeOK
<1> QED BY <1>1, <1>6 DEF KeepaliveInv, OwnerWorks, DiagnosisRemembered, DiagnosedOnce

\* A request that discards the poll state discards the memory of the source.
LEMMA DiscardKeeps == ASSUME KeepaliveInv, QuickFix \/ ReadState PROVE KeepaliveInv'
<1>1. /\ UNCHANGED <<radio, safe, ahead, poll, owner>> /\ ka' = NoKeepalive /\ diagnosed' = 0
      /\ KeepaliveTypeOK /\ OwnerWorks
      /\ device' = [failures |-> 0, reachable |-> TRUE] \/ device' = device
  BY DEF QuickFix, ReadState, Call, KeepaliveInv
<1>2. device' \in DeviceRow
  BY <1>1, RowCleared DEF KeepaliveTypeOK
<1>3. KeepaliveTypeOK'
  BY <1>1, <1>2, NoneStored DEF KeepaliveTypeOK
<1> QED BY <1>1, <1>3 DEF KeepaliveInv, OwnerWorks, DiagnosisRemembered, DiagnosedOnce

\* A command takes the lock when nobody works, and lets it go.
LEMMA CommandKeeps == ASSUME KeepaliveInv, CommandStarts \/ CommandEnds PROVE KeepaliveInv'
<1>1. /\ UNCHANGED <<radio, safe, device, ka, ahead, poll, diagnosed>>
      /\ KeepaliveTypeOK /\ OwnerWorks
      /\ owner \in {"none", "command"} /\ owner' \in {"none", "command"}
  BY DEF CommandStarts, CommandEnds, Call, Outside, KeepaliveInv
<1>2. KeepaliveTypeOK'
  BY <1>1 DEF KeepaliveTypeOK, Owners
<1>3. \A p \in Pollers : poll[p].pc \notin Working
  BY <1>1, KeepaliveAssumption DEF OwnerWorks
<1>4. OwnerWorks'
  BY <1>1, <1>3 DEF OwnerWorks
<1> QED BY <1>1, <1>2, <1>4 DEF KeepaliveInv, DiagnosisRemembered, DiagnosedOnce

\* Every step keeps the invariant.
LEMMA KeepaliveNextKeeps == KeepaliveInv /\ [KeepaliveNext]_keepaliveVars => KeepaliveInv'
<1> SUFFICES ASSUME KeepaliveInv, [KeepaliveNext]_keepaliveVars PROVE KeepaliveInv'
  OBVIOUS
<1>1. KeepaliveTypeOK
  BY DEF KeepaliveInv
<1>2. ASSUME UNCHANGED <<ka, poll, owner, diagnosed>>, KeepaliveTypeOK'
      PROVE  KeepaliveInv'
  BY <1>2 DEF KeepaliveInv, OwnerWorks, DiagnosisRemembered, DiagnosedOnce
<1>3. CASE Elapses
  BY <1>1, <1>2, <1>3 DEF Elapses, Outside, KeepaliveTypeOK
<1>4. CASE RadioChanges
  BY <1>1, <1>2, <1>4 DEF RadioChanges, KeepaliveTypeOK
<1>5. CASE SetSafeMode
  BY <1>1, <1>2, <1>5 DEF SetSafeMode, Call, KeepaliveTypeOK
<1>6. CASE UNCHANGED keepaliveVars
  BY <1>1, <1>2, <1>6 DEF keepaliveVars, KeepaliveTypeOK
<1>7. ASSUME NEW p \in Pollers, Polls(p) PROVE KeepaliveInv'
  BY <1>7, PollStartsKeeps, FindsKeeps, SkipKeeps, BusyKeeps, EntersKeeps, ReadsKeeps,
     SavesKeeps, RecoveryKeeps, RefindsKeeps, FailsKeeps DEF Polls
<1> QED BY <1>3, <1>4, <1>5, <1>6, <1>7, RefreshKeeps, DiscardKeeps, CommandKeeps
      DEF KeepaliveNext, Polls

\* Type correctness of the polls, their copies and the rows they share: counters
\* stay within the threshold that pauses the polling.
THEOREM KeepaliveTypeCorrect == KeepaliveSpec => []KeepaliveTypeOK
<1>1. KeepaliveInv => KeepaliveTypeOK
  BY DEF KeepaliveInv
<1> QED BY <1>1, KeepaliveStarts, KeepaliveNextKeeps, PTL DEF KeepaliveSpec

\* DiagnosedOnce: an INVALID_SOURCE that lasts is diagnosed once for each time its
\* memory is discarded, whatever polls fail, commits are lost or copies are
\* written back meanwhile, by any number of processes
\* (_run_playback_keepalive_for_device_locked).
THEOREM DiagnosedOnceHolds == KeepaliveSpec => []DiagnosedOnce
<1>1. KeepaliveInv => DiagnosedOnce
  BY DEF KeepaliveInv
<1> QED BY <1>1, KeepaliveStarts, KeepaliveNextKeeps, PTL DEF KeepaliveSpec
=============================================================================
