------------------------ MODULE RadioCommandsProofs ------------------------
(***************************************************************************)
(* Proofs about RadioCommands, for any commands, number of commands,       *)
(* readings, faults and reconnect tasks.                                   *)
(*                                                                         *)
(* The steps a command still has to take are a sequence.  Shape says what  *)
(* is common to every remainder of every program; the rest of the          *)
(* invariant relates that remainder to the tallies of the command, to the  *)
(* safety gate and to the radio.                                           *)
(***************************************************************************)
EXTENDS RadioCommands, SequenceTheorems, TLAPS

Simple == {"select", "power", "lowpower", "manual", "setting"}
Sure == {"start", "select", "stop", "standby", "native", "set"}
Running == job.pc \notin {"none", "fail"}
Safe == job.kind \in SafeKinds

NextIn(q, S) == Len(q) >= 1 /\ q[1] \in S

\* What is common to the remainders of a program: it finishes last, the gate is
\* verified after the start, only a safe command handles mute and gate, and what a
\* command that goes on without an answer still has to do is no write.
Shape(k, q) ==
  /\ q \in Seq(Steps) /\ Len(q) >= 1 /\ q[Len(q)] \in {"finish", "raise"}
  /\ \A i \in 1..Len(q) : q[i] \in {"finish", "raise"} => i = Len(q)
  /\ \A i \in 1..Len(q) : q[i] = "set" => k = "setting"
  /\ \A i \in 1..Len(q) : q[i] \in {"mute", "unmute", "arm", "verify", "clear"} => k \in SafeKinds
  /\ \A i, j \in 1..Len(q) : q[i] = "verify" /\ j > i => q[j] \notin Starts
  /\ k \in Simple \cup {"plain"} =>
       \A i \in 1..Len(q) : q[i] \in WriteSteps => i = 1 /\ (k = "plain" => q[i] = "select")
  /\ k = "timer" =>
       \A i \in 1..Len(q) : q[i] = "select" =>
         i + 2 <= Len(q) /\ \A j \in 1..Len(q) : q[j] \in WriteSteps => j <= i + 1
  /\ k \in SafeKinds =>
       \A i \in 1..Len(q) : q[i] \in Starts =>
         /\ i > 1 => q[i - 1] \in {"mute", "release-mute"}
         /\ \A j \in 1..Len(q) : q[j] \in Starts => j = i

\* Tallies of the command (the refinement of CommandLedger needs them).
Tallies ==
  /\ job.pc = "none" <=> job.outcome # "open"
  /\ job.pc = "none" => /\ job.intents = 0 /\ job.writes = 0
                        /\ ~job.armed /\ ~job.sent /\ ~job.lost
  /\ job.pc \in {"recheck", "send"} => job.intents = job.writes + 1
  /\ job.pc \in {"open", "check", "read"} => job.intents = job.writes
  /\ job.pc \in {"recheck", "send", "read"} => NextIn(job.todo, WriteSteps)
  /\ job.pc = "open" => job.writes = 0
  /\ job.pc = "read" \/ job.lost => job.writes > 0
  /\ Running => job.writes > 0 \/ \E i \in 1..Len(job.todo) : job.todo[i] \in Sure
  /\ Running /\ job.kind \in Simple /\ job.writes > 0 /\ job.pc # "read"
       => ~NextIn(job.todo, WriteSteps)

\* A command goes on after an answer that was lost only to stop, or to end.
LostSteps == {"halt", "release-halt", "standby", "volume", "raise"}

LostEnds ==
  job.lost /\ Running =>
    \/ /\ job.kind = "station"
       /\ Len(job.todo) >= 1 /\ job.todo[Len(job.todo)] = "raise"
       /\ \A i \in 1..Len(job.todo) :
            job.todo[i] \in LostSteps \/ (i = 1 /\ job.pc = "read" /\ job.todo[i] = "select")
    \/ job.kind \in Simple
    \/ job.kind = "plain" /\ (job.pc = "read" \/ ~NextIn(job.todo, WriteSteps))
    \/ /\ job.kind = "timer"
       /\ \/ job.pc = "read" /\ NextIn(job.todo, {"select"})
          \/ \A i \in 1..Len(job.todo) : job.todo[i] \notin WriteSteps

\* What a safe command that is not being shut down still has to do: its start
\* comes once, muted and after the gate is armed, and is followed by the wait for
\* a radio in standby.
SafeRemainder ==
  /\ \A i \in 1..Len(job.todo) :
       job.todo[i] \notin {"stop", "halt", "standby", "wake", "native", "set"}
  /\ \A i \in 1..Len(job.todo) : job.todo[i] \in Starts =>
       /\ i + 1 <= Len(job.todo) /\ job.todo[i + 1] = "depart"
       /\ job.sent => i = 1 /\ job.pc = "read"
       /\ \A j \in 1..Len(job.todo) : job.todo[j] = "arm" => j < i
  /\ \A i \in 1..Len(job.todo) : job.todo[i] = "arm" => ~job.sent
  /\ job.pc \in {"open", "check", "recheck"} /\ NextIn(job.todo, Starts) => job.cur.mute

SafeProgram ==
  /\ Running /\ Safe /\ job.lost => ~job.sent
  /\ Running /\ Safe /\ ~job.lost => SafeRemainder

\* The gate belongs to the command that armed it.
GateOwned ==
  /\ job.armed => job.pc # "none" /\ Safe /\ gate.state \in {"ARMED", "VERIFIED"}
  /\ job.armed /\ Running /\ (\E i \in 1..Len(job.todo) : job.todo[i] \in Starts)
       => gate.state = "ARMED"

Settled == ~radio.pend /\ radio.sel # "standby"
Answers == hist.by = "safe" /\ ~hist.touched      \* a safe command answers for the audio

Starting == job.pc = "send" /\ Safe /\ job.armed /\ NextIn(job.todo, Starts)

\* Before a safe command has started.
BeforeStart ==
  /\ Running /\ Safe /\ ~job.lost /\ ~hist.touched /\ job.before.sel # "standby"
       => radio.sel # "standby"
  /\ Starting /\ ~hist.touched /\ radio.sel = "playing" => radio.mute

\* A start out of standby has had its effect, unless the command still waits for
\* it; and what was read afterwards is still true of the volume.
Steady ==
  /\ \/ Settled
     \/ /\ job.before.sel = "standby" /\ radio.sel = "standby"
        /\ \/ job.pc = "read" /\ NextIn(job.todo, Starts)
           \/ job.pc = "check" /\ NextIn(job.todo, {"depart"})
  /\ job.pc = "check" =>
       /\ job.cur.sel # "standby" => Settled /\ radio.vol = job.cur.vol
       /\ ~NextIn(job.todo, {"depart"}) \/ job.before.sel # "standby"
            => job.cur.sel # "standby"

\* After it has, until it ends.
AfterStart ==
  Running /\ Safe /\ Answers =>
    /\ job.sent \/ job.lost
    /\ job.sent => /\ job.armed \/ gate.state = "none"
                   /\ gate.state = "ARMED" => radio.sel # "playing"
                   /\ Steady

\* For as long as nobody else answers for the audio.
Audio ==
  Answers =>
    /\ gate.state \in {"VERIFIED", "none"} => radio.vol = "low" /\ ~radio.pend
    /\ radio.sel = "playing" => radio.vol = "low" \/ radio.mute

\* A revoked task has lost the row for good.
Revocation ==
  /\ \A t \in Tasks : t \in hist.revoked => rc[t].pc # "idle" /\ ~rc[t].mine
  /\ row = "none" => \A t \in Tasks : ~rc[t].mine

JobInv == (Running => Shape(job.kind, job.todo)) /\ Tallies /\ LostEnds
LedgerInv == CommandTypeOK /\ JobInv
AudioInv == SafeProgram /\ GateOwned /\ BeforeStart /\ AfterStart /\ Audio

-----------------------------------------------------------------------------
(***************************************************************************)
(* Programs and their remainders                                           *)
(***************************************************************************)

\* The next step and what follows it, by index.
LEMMA Remainder ==
  ASSUME NEW q \in Seq(Steps), Len(q) >= 1
  PROVE  /\ q # <<>> /\ Head(q) = q[1] /\ q[1] \in Steps
         /\ Tail(q) \in Seq(Steps) /\ Len(Tail(q)) = Len(q) - 1 /\ Len(q) \in Nat
         /\ \A i \in 1..Len(Tail(q)) : Tail(q)[i] = q[i + 1]
<1>1. q # <<>> /\ Len(q) \in Nat
  OBVIOUS
<1> QED BY <1>1, HeadTailProperties

\* A program without its first step.
LEMMA TailShape ==
  ASSUME NEW k, NEW q, Shape(k, q), q[1] \notin {"finish", "raise"}
  PROVE  Shape(k, Tail(q)) /\ Len(q) >= 2
<1> DEFINE r == Tail(q)
<1>1. /\ q \in Seq(Steps) /\ Len(q) >= 1 /\ Len(q) \in Nat
      /\ r \in Seq(Steps) /\ Len(r) = Len(q) - 1
      /\ \A i \in 1..Len(r) : r[i] = q[i + 1]
  BY Remainder DEF Shape
<1>2. Len(q) >= 2
  <2>1. q[Len(q)] \in {"finish", "raise"}
    BY DEF Shape
  <2>2. Len(q) # 1
    BY <2>1
  <2> QED BY <1>1, <2>2
<1> HIDE DEF r
<1>3. Len(r) >= 1 /\ r[Len(r)] = q[Len(q)] /\ \A i \in 1..Len(r) : i + 1 \in 1..Len(q)
  BY <1>1, <1>2
<1>4. r[Len(r)] \in {"finish", "raise"}
      /\ \A i \in 1..Len(r) : r[i] \in {"finish", "raise"} => i = Len(r)
  BY <1>1, <1>3 DEF Shape
<1>5. /\ \A i \in 1..Len(r) : r[i] = "set" => k = "setting"
      /\ \A i \in 1..Len(r) : r[i] \in {"mute", "unmute", "arm", "verify", "clear"} => k \in SafeKinds
  BY <1>1, <1>3 DEF Shape
<1>6. \A i, j \in 1..Len(r) : r[i] = "verify" /\ j > i => r[j] \notin Starts
  <2> SUFFICES ASSUME NEW i \in 1..Len(r), NEW j \in 1..Len(r), r[i] = "verify", j > i
               PROVE  r[j] \notin Starts
    OBVIOUS
  <2>1. i + 1 \in 1..Len(q) /\ j + 1 \in 1..Len(q) /\ j + 1 > i + 1
    BY <1>3
  <2>2. q[i + 1] = "verify" /\ r[j] = q[j + 1]
    BY <1>1
  <2> QED BY <2>1, <2>2 DEF Shape
<1>7. k \in Simple \cup {"plain"} =>
        \A i \in 1..Len(r) : r[i] \in WriteSteps => i = 1 /\ (k = "plain" => r[i] = "select")
  <2> SUFFICES ASSUME k \in Simple \cup {"plain"}, NEW i \in 1..Len(r), r[i] \in WriteSteps
               PROVE  FALSE
    OBVIOUS
  <2>1. i + 1 \in 1..Len(q) /\ q[i + 1] \in WriteSteps
    BY <1>1, <1>3
  <2>2. i + 1 = 1
    BY <2>1 DEF Shape
  <2> QED BY <2>2
<1>8. k = "timer" =>
        \A i \in 1..Len(r) : r[i] = "select" =>
          i + 2 <= Len(r) /\ \A j \in 1..Len(r) : r[j] \in WriteSteps => j <= i + 1
  <2> SUFFICES ASSUME k = "timer", NEW i \in 1..Len(r), r[i] = "select"
               PROVE  /\ i + 2 <= Len(r)
                      /\ \A j \in 1..Len(r) : r[j] \in WriteSteps => j <= i + 1
    OBVIOUS
  <2>1. i + 1 \in 1..Len(q) /\ q[i + 1] = "select"
    BY <1>1, <1>3
  <2>2. (i + 1) + 2 <= Len(q) /\ \A j \in 1..Len(q) : q[j] \in WriteSteps => j <= (i + 1) + 1
    BY <2>1 DEF Shape
  <2>3. ASSUME NEW j \in 1..Len(r), r[j] \in WriteSteps
        PROVE  j <= i + 1
    <3>1. j + 1 \in 1..Len(q) /\ q[j + 1] \in WriteSteps
      BY <1>1, <1>3, <2>3
    <3>2. j + 1 <= (i + 1) + 1
      BY <2>2, <3>1
    <3> QED BY <3>2
  <2>4. i + 2 <= Len(r)
    BY <1>1, <2>2
  <2> QED BY <2>3, <2>4
<1>9. k \in SafeKinds =>
        \A i \in 1..Len(r) : r[i] \in Starts =>
          /\ i > 1 => r[i - 1] \in {"mute", "release-mute"}
          /\ \A j \in 1..Len(r) : r[j] \in Starts => j = i
  <2> SUFFICES ASSUME k \in SafeKinds, NEW i \in 1..Len(r), r[i] \in Starts
               PROVE  /\ i > 1 => r[i - 1] \in {"mute", "release-mute"}
                      /\ \A j \in 1..Len(r) : r[j] \in Starts => j = i
    OBVIOUS
  <2>1. i + 1 \in 1..Len(q) /\ q[i + 1] \in Starts /\ i + 1 > 1
    BY <1>1, <1>3
  <2>2. q[i] \in {"mute", "release-mute"} /\ \A j \in 1..Len(q) : q[j] \in Starts => j = i + 1
    BY <1>1, <2>1 DEF Shape
  <2> QED BY <1>1, <1>3, <2>2
<1> QED BY <1>1, <1>2, <1>3, <1>4, <1>5, <1>6, <1>7, <1>8, <1>9 DEF Shape, r

\* The steps that disturb no clause of Shape wherever they stand.
Harmless == {"release-mute", "release-unmute", "release-wake", "release-halt",
             "fallback", "volume", "matched"}

\* A prefix p of harmless steps, put before the remainder of a program whose
\* first step it replaces, leaves a remainder of the same shape.
LEMMA PrefixShape ==
  ASSUME NEW k, NEW q, Shape(k, q), q[1] \notin {"finish", "raise"},
         NEW p \in Seq(Steps), Len(p) >= 1, \A i \in 1..Len(p) : p[i] \in Harmless,
         k \notin Simple \cup {"plain"},
         k \in SafeKinds /\ q[2] \in Starts => p[Len(p)] = "release-mute"
  PROVE  /\ Shape(k, p \o Tail(q))
         /\ Len(p \o Tail(q)) = Len(p) + Len(Tail(q))
         /\ \A i \in 1..Len(p) : (p \o Tail(q))[i] = p[i]
         /\ \A i \in 1..Len(Tail(q)) : (p \o Tail(q))[Len(p) + i] = Tail(q)[i]
<1> DEFINE r == Tail(q)
           s == p \o r
           n == Len(p)
<1>1. Shape(k, r) /\ r \in Seq(Steps) /\ Len(r) \in Nat /\ n \in Nat /\ Len(r) >= 1
      /\ r[1] = q[2]
  <2>1. Shape(k, r) /\ Len(q) >= 2
    BY TailShape
  <2>2. Len(r) \in Nat /\ Len(r) >= 1 /\ r[1] = q[2]
    BY <2>1, Remainder DEF Shape
  <2> QED BY <2>1, <2>2 DEF Shape
<1> HIDE DEF r
<1>2. /\ s \in Seq(Steps) /\ Len(s) = n + Len(r)
      /\ \A i \in 1..(n + Len(r)) : s[i] = IF i <= n THEN p[i] ELSE r[i - n]
  BY <1>1, ConcatProperties
<1> HIDE DEF s, n
<1>3. /\ \A i \in 1..n : s[i] = p[i] /\ s[i] \in Harmless
      /\ \A i \in 1..Len(r) : s[n + i] = r[i]
      /\ \A i \in 1..Len(s) : i <= n => i \in 1..n
      /\ \A i \in 1..Len(s) : i > n => i - n \in 1..Len(r) /\ s[i] = r[i - n]
  <2>1. ASSUME NEW i \in 1..n
        PROVE  s[i] = p[i] /\ s[i] \in Harmless
    BY <1>1, <1>2, <2>1 DEF n
  <2>2. ASSUME NEW i \in 1..Len(r)
        PROVE  s[n + i] = r[i]
    <3>1. n + i \in 1..(n + Len(r)) /\ ~(n + i <= n) /\ (n + i) - n = i
      BY <1>1
    <3> QED BY <1>2, <3>1
  <2>3. ASSUME NEW i \in 1..Len(s), i > n
        PROVE  i - n \in 1..Len(r) /\ s[i] = r[i - n]
    <3>1. i \in 1..(n + Len(r)) /\ ~(i <= n) /\ i - n \in 1..Len(r)
      BY <1>1, <1>2, <2>3
    <3> QED BY <1>2, <3>1
  <2>4. \A i \in 1..Len(s) : i <= n => i \in 1..n
    BY <1>1, <1>2
  <2> QED BY <2>1, <2>2, <2>3, <2>4
<1>4. \A x \in Harmless : /\ x \notin {"finish", "raise", "set", "mute", "unmute", "arm", "verify",
                                      "clear", "select", "start"}
                          /\ x \notin Starts
  BY DEF Harmless, Starts
<1>5. s[Len(s)] \in {"finish", "raise"}
      /\ \A i \in 1..Len(s) : s[i] \in {"finish", "raise"} => i = Len(s)
  <2>1. s[Len(s)] = r[Len(r)]
    BY <1>1, <1>2, <1>3
  <2>2. ASSUME NEW i \in 1..Len(s), s[i] \in {"finish", "raise"}
        PROVE  i = Len(s)
    <3>1. i > n
      BY <1>1, <1>2, <1>3, <1>4, <2>2
    <3>2. i - n = Len(r)
      BY <1>1, <1>3, <2>2, <3>1 DEF Shape
    <3> QED BY <1>1, <1>2, <3>2
  <2>3. r[Len(r)] \in {"finish", "raise"}
    BY <1>1 DEF Shape
  <2> QED BY <2>1, <2>2, <2>3
<1>6. ASSUME NEW i \in 1..Len(s)
      PROVE  /\ s[i] = "set" => k = "setting"
             /\ s[i] \in {"mute", "unmute", "arm", "verify", "clear"} => k \in SafeKinds
  <2>1. CASE i <= n
    BY <1>3, <1>4, <2>1
  <2>2. CASE i > n
    <3>1. i - n \in 1..Len(r) /\ s[i] = r[i - n]
      BY <1>3, <2>2
    <3> QED BY <1>1, <3>1 DEF Shape
  <2> QED BY <1>1, <1>2, <2>1, <2>2
<1>7. ASSUME NEW i \in 1..Len(s), NEW j \in 1..Len(s), s[i] = "verify", j > i
      PROVE  s[j] \notin Starts
  <2>1. i > n /\ j > n
    BY <1>1, <1>2, <1>3, <1>4, <1>7
  <2>2. i - n \in 1..Len(r) /\ j - n \in 1..Len(r) /\ s[i] = r[i - n] /\ s[j] = r[j - n]
        /\ j - n > i - n
    BY <1>1, <1>2, <1>3, <1>7, <2>1
  <2> QED BY <1>1, <1>7, <2>2 DEF Shape
<1>8. ASSUME k = "timer", NEW i \in 1..Len(s), s[i] = "select"
      PROVE  i + 2 <= Len(s) /\ \A j \in 1..Len(s) : s[j] \in WriteSteps => j <= i + 1
  <2>1. i > n /\ i - n \in 1..Len(r) /\ r[i - n] = "select"
    BY <1>1, <1>2, <1>3, <1>4, <1>8
  <2>2. (i - n) + 2 <= Len(r)
        /\ \A j \in 1..Len(r) : r[j] \in WriteSteps => j <= (i - n) + 1
    BY <1>1, <1>8, <2>1 DEF Shape
  <2>3. ASSUME NEW j \in 1..Len(s), s[j] \in WriteSteps
        PROVE  j <= i + 1
    <3>1. CASE j > n
      <4>1. j - n \in 1..Len(r) /\ r[j - n] \in WriteSteps
        BY <1>3, <2>3, <3>1
      <4> QED BY <1>1, <1>2, <2>2, <4>1
    <3>2. CASE j <= n
      BY <1>1, <1>2, <2>1, <3>2
    <3> QED BY <1>1, <1>2, <3>1, <3>2
  <2> QED BY <1>1, <1>2, <2>2, <2>3
<1>9. ASSUME k \in SafeKinds, NEW i \in 1..Len(s), s[i] \in Starts
      PROVE  /\ i > 1 => s[i - 1] \in {"mute", "release-mute"}
             /\ \A j \in 1..Len(s) : s[j] \in Starts => j = i
  <2>1. i > n /\ i - n \in 1..Len(r) /\ r[i - n] \in Starts
    BY <1>1, <1>2, <1>3, <1>4, <1>9
  <2>2. /\ i - n > 1 => r[(i - n) - 1] \in {"mute", "release-mute"}
        /\ \A j \in 1..Len(r) : r[j] \in Starts => j = i - n
    BY <1>1, <1>9, <2>1 DEF Shape
  <2>3. CASE i - n > 1
    <3>1. i - 1 \in 1..Len(s) /\ i - 1 > n /\ s[i - 1] = r[(i - n) - 1]
      BY <1>1, <1>2, <1>3, <2>1, <2>3
    <3>2. ASSUME NEW j \in 1..Len(s), s[j] \in Starts
          PROVE  j = i
      <4>1. j > n /\ j - n \in 1..Len(r) /\ r[j - n] \in Starts
        BY <1>1, <1>2, <1>3, <1>4, <3>2
      <4> QED BY <1>1, <1>2, <2>2, <4>1
    <3> QED BY <2>2, <2>3, <3>1, <3>2
  <2>4. CASE i - n = 1
    <3>1. i - 1 = n /\ s[n] = p[n] /\ p[n] = "release-mute"
      BY <1>1, <1>2, <1>3, <1>9, <2>1, <2>4 DEF n
    <3>2. ASSUME NEW j \in 1..Len(s), s[j] \in Starts
          PROVE  j = i
      <4>1. j > n /\ j - n \in 1..Len(r) /\ r[j - n] \in Starts
        BY <1>1, <1>2, <1>3, <1>4, <3>2
      <4> QED BY <1>1, <1>2, <2>2, <4>1
    <3> QED BY <3>1, <3>2
  <2> QED BY <1>1, <1>2, <2>1, <2>3, <2>4
<1>10. Shape(k, s)
  <2>1. Len(s) >= 1
    BY <1>1, <1>2
  <2> QED BY <1>2, <1>5, <1>6, <1>7, <1>8, <1>9, <2>1 DEF Shape
<1> QED BY <1>2, <1>3, <1>10 DEF r, s, n

\* Every program has the shape, and a write that is not left out.
LEMMA ProgramShape ==
  ASSUME NEW k \in AllKinds
  PROVE  /\ Shape(k, Program(k))
         /\ \E i \in 1..Len(Program(k)) : Program(k)[i] \in Sure
<1> USE DEF Program, Shape, Sure, Starts, Steps, WriteSteps, Simple, SafeKinds, KeyKinds, StationKinds
<1>1. CASE k = "preset"
  BY <1>1 DEF execute_key
<1>2. CASE k = "resume"
  BY <1>2 DEF execute_key
<1>3. CASE k = "stop"
  BY <1>3 DEF execute_key
<1>4. CASE k = "station"
  BY <1>4 DEF play_station
<1>5. CASE k = "timer"
  BY <1>5 DEF play_station
<1>6. CASE k = "plain"
  BY <1>6 DEF play_station
<1>7. CASE k = "select"
  BY <1>7 DEF select_direct
<1>8. CASE k = "power"
  BY <1>8 DEF execute_power
<1>11. CASE k = "lowpower"
  BY <1>11 DEF execute_power
<1>9. CASE k = "manual"
  BY <1>9 DEF execute_manual_command
<1>10. CASE k = "setting"
  BY <1>10 DEF apply_settings
<1> QED BY <1>1, <1>2, <1>3, <1>4, <1>5, <1>6, <1>7, <1>8, <1>9, <1>10, <1>11 DEF AllKinds

-----------------------------------------------------------------------------
(***************************************************************************)
(* Types                                                                   *)
(***************************************************************************)

RadioType == [sel : Selections, vol : {"low", "high"}, mute : BOOLEAN,
              zone : 0 .. 1, pend : BOOLEAN]
RcType == [pc : {"idle", "sleep"} \cup RcHolding, mine : BOOLEAN, seen : Snapshots]
JobType == [kind : AllKinds \cup {"none"},
            pc : {"none", "open", "check", "recheck", "send", "read", "fail"}, held : BOOLEAN,
            todo : Seq(Steps), before : Snapshots, cur : Snapshots, intents : Nat,
            writes : Nat, sent : BOOLEAN, armed : BOOLEAN, lost : BOOLEAN,
            polls : 0 .. MaxPolls, frozen : Nat,
            outcome : {"open", "UNCHANGED", "VERIFIED", "PENDING", "DIVERGED",
                       "BLOCKED", "LOST"}]
HistType == [by : {"none", "safe", "late", "fallback", "other"}, touched : BOOLEAN,
             revoked : SUBSET Tasks]
GateType == [state : {"none", "ARMED", "VERIFIED", "FAILED"}, live : BOOLEAN]

\* A reading is a snapshot, and no request leaves the states of a radio.
LEMMA RadioTypes ==
  ASSUME RadioTypeOK
  PROVE  /\ Snap \in Snapshots
         /\ Snap.sel = radio.sel /\ Snap.vol = radio.vol /\ Snap.mute = radio.mute
         /\ Snap.zone = radio.zone
         /\ Activated \subseteq RadioType
         /\ \A step : Effect(step) \subseteq RadioType
<1>1. radio \in RadioType
  BY DEF RadioTypeOK, RadioType
<1>2. /\ Snap \in Snapshots
      /\ Snap.sel = radio.sel /\ Snap.vol = radio.vol /\ Snap.mute = radio.mute
      /\ Snap.zone = radio.zone
  BY <1>1 DEF Snap, Snapshots, RadioType
<1>3. Activated \subseteq RadioType
  <2>1. ASSUME NEW v \in {radio.vol, "high"}, NEW m \in {radio.mute, FALSE}
        PROVE  [radio EXCEPT !.sel = "loading", !.vol = v, !.mute = m, !.pend = FALSE] \in RadioType
    BY <1>1 DEF RadioType, Selections
  <2> QED BY <2>1 DEF Activated
<1>4. Started \subseteq RadioType
  <2>1. Deferred \in RadioType
    BY <1>1 DEF Deferred, RadioType
  <2> QED BY <1>3, <2>1 DEF Started
<1>5. ASSUME NEW step
      PROVE  Effect(step) \subseteq RadioType
  <2>1. /\ [radio EXCEPT !.vol = "low"] \in RadioType
        /\ [radio EXCEPT !.vol = "high"] \in RadioType
        /\ [radio EXCEPT !.mute = ~@] \in RadioType
    BY <1>1 DEF RadioType
  <2>2. ASSUME NEW x \in Selections
        PROVE  [radio EXCEPT !.sel = x] \in RadioType /\ [radio EXCEPT !.sel = x, !.pend = FALSE] \in RadioType
    BY <1>1 DEF RadioType
  <2>3. {"standby", "other", "stopped"} \subseteq Selections
    BY DEF Selections
  <2>4. [radio EXCEPT !.sel = IF @ = "standby" THEN @ ELSE "stopped", !.pend = FALSE] \in RadioType
    <3>1. CASE radio.sel = "standby"
      BY <1>1, <3>1 DEF RadioType
    <3>2. CASE radio.sel # "standby"
      BY <1>1, <2>3, <3>2 DEF RadioType
    <3> QED BY <3>1, <3>2
  <2> QED BY <1>1, <1>4, <2>1, <2>2, <2>3, <2>4 DEF Effect
<1> QED BY <1>2, <1>3, <1>5

\* A new generation of the reconnect row.
LEMMA CancelTypes ==
  ASSUME ReconnectTypeOK, cancel
  PROVE  row' \in Phases /\ rc' \in [Tasks -> RcType]
<1>1. rc \in [Tasks -> RcType] /\ row \in Phases
  BY DEF ReconnectTypeOK, RcType
<1>2. Disowned \in [Tasks -> RcType]
  BY <1>1 DEF Disowned, RcType
<1> QED BY <1>1, <1>2 DEF cancel, Phases

\* The types of the parts a step changes are all there is to show.
LEMMA TypesFrom ==
  ASSUME radio' \in RadioType, target' \in Nat, optIn' \in BOOLEAN, row' \in Phases,
         report' \in {"none", "FINISH", "STOP"}, rc' \in [Tasks -> RcType],
         gate' \in GateType, audioLock' \in BOOLEAN, job' \in JobType,
         jobs' \in 0 .. MaxJobs, faults' \in 0 .. MaxFaults, hist' \in HistType
  PROVE  CommandTypeOK'
BY DEF CommandTypeOK, RadioTypeOK, ReconnectTypeOK, RadioType, RcType, JobType, HistType, GateType

\* ... and what is known of them before it.
LEMMA TypesTo ==
  ASSUME CommandTypeOK
  PROVE  /\ radio \in RadioType /\ target \in Nat /\ optIn \in BOOLEAN /\ row \in Phases
         /\ report \in {"none", "FINISH", "STOP"} /\ rc \in [Tasks -> RcType]
         /\ gate \in GateType /\ audioLock \in BOOLEAN /\ job \in JobType
         /\ jobs \in 0 .. MaxJobs /\ faults \in 0 .. MaxFaults /\ hist \in HistType
         /\ RadioTypeOK /\ ReconnectTypeOK
BY DEF CommandTypeOK, RadioTypeOK, ReconnectTypeOK, RadioType, RcType, JobType, HistType, GateType

\* A finished or failed command leaves no command but its kind and outcome.
LEMMA NoJobType ==
  ASSUME NEW k \in AllKinds \cup {"none"},
         NEW o \in {"open", "UNCHANGED", "VERIFIED", "PENDING", "DIVERGED", "BLOCKED", "LOST"},
         CommandAssumption
  PROVE  [NoJob EXCEPT !.kind = k, !.outcome = o] \in JobType
<1>1. NoJob \in JobType
  BY DEF NoJob, JobType, CommandAssumption, Blank, Snapshots, Selections
<1> QED BY <1>1 DEF JobType

-----------------------------------------------------------------------------
(***************************************************************************)
(* The tallies of a command                                                *)
(***************************************************************************)

\* What the invariant says of the next step of a running command.
LEMMA NextStep ==
  ASSUME LedgerInv, Running
  PROVE  /\ Shape(job.kind, job.todo) /\ Step = job.todo[1] /\ Step \in Steps
         /\ job.todo \in Seq(Steps) /\ Len(job.todo) \in Nat /\ Len(job.todo) >= 1
         /\ Rest = Tail(job.todo)
         /\ \A S : NextIn(job.todo, S) <=> Step \in S
         /\ Step \notin {"finish", "raise"} =>
              /\ Shape(job.kind, Rest) /\ Rest \in Seq(Steps) /\ Len(Rest) = Len(job.todo) - 1
              /\ \A i \in 1..Len(Rest) : Rest[i] = job.todo[i + 1]
<1>1. Shape(job.kind, job.todo)
  BY DEF LedgerInv, JobInv
<1>2. job.todo \in Seq(Steps) /\ Len(job.todo) >= 1
  BY <1>1 DEF Shape
<1>3. /\ Step = job.todo[1] /\ Step \in Steps /\ Len(job.todo) \in Nat /\ Rest = Tail(job.todo)
      /\ Rest \in Seq(Steps) /\ Len(Rest) = Len(job.todo) - 1
      /\ \A i \in 1..Len(Rest) : Rest[i] = job.todo[i + 1]
  BY <1>2, Remainder DEF Step, Rest
<1>4. \A S : NextIn(job.todo, S) <=> Step \in S
  BY <1>2, <1>3 DEF NextIn
<1>5. Step \notin {"finish", "raise"} => Shape(job.kind, Rest)
  BY <1>1, <1>3, TailShape
<1> QED BY <1>1, <1>2, <1>3, <1>4, <1>5

\* A step of the program that is no write is done, or a write is left out.
LEMMA StepDone ==
  ASSUME LedgerInv, job.pc = "check", Step \notin Sure \cup {"finish", "raise"},
         job'.todo = Rest, job'.pc = "check", job'.kind = job.kind,
         job'.intents = job.intents, job'.writes = job.writes, job'.sent = job.sent,
         job'.lost = job.lost, job'.outcome = job.outcome
  PROVE  JobInv'
<1>1. Running /\ Running'
  BY DEF Running
<1>2. /\ Shape(job.kind, job.todo) /\ Step = job.todo[1]
      /\ Len(job.todo) \in Nat /\ Shape(job.kind, Rest) /\ Rest \in Seq(Steps)
      /\ Len(Rest) = Len(job.todo) - 1 /\ Len(Rest) >= 1
      /\ \A i \in 1..Len(Rest) : Rest[i] = job.todo[i + 1] /\ i + 1 \in 1..Len(job.todo)
      /\ \A S : NextIn(job.todo, S) <=> Step \in S
  <2>1. Shape(job.kind, Rest)
    BY <1>1, NextStep
  <2>2. Len(Rest) >= 1
    BY <2>1 DEF Shape
  <2> QED BY <1>1, <2>1, <2>2, NextStep
<1> HIDE DEF Step, Rest
<1>3. (Running => Shape(job.kind, job.todo))'
  BY <1>2
<1>4. Tallies'
  <2>1. job.writes > 0 \/ \E i \in 1..Len(Rest) : Rest[i] \in Sure
    <3> SUFFICES ASSUME ~(job.writes > 0)
                 PROVE  \E i \in 1..Len(Rest) : Rest[i] \in Sure
      OBVIOUS
    <3>1. PICK i \in 1..Len(job.todo) : job.todo[i] \in Sure
      BY <1>1 DEF LedgerInv, JobInv, Tallies
    <3>2. i # 1
      BY <1>2, <3>1
    <3>3. i - 1 \in 1..Len(Rest) /\ Rest[i - 1] = job.todo[i]
      BY <1>2, <3>1, <3>2
    <3> QED BY <3>1, <3>3
  <2>2. job.kind \in Simple => ~NextIn(Rest, WriteSteps)
    BY <1>2 DEF Shape, NextIn
  <2> QED BY <1>1, <2>1, <2>2 DEF LedgerInv, JobInv, Tallies, Running
<1>5. LostEnds'
  <2> SUFFICES ASSUME job.lost
               PROVE  LostEnds'
    BY DEF LostEnds
  <2>1. \/ job.kind = "station" \/ job.kind \in Simple \cup {"plain", "timer"}
    BY <1>1 DEF LedgerInv, JobInv, LostEnds
  <2>2. CASE job.kind = "station"
    <3>1. /\ job.todo[Len(job.todo)] = "raise"
          /\ \A i \in 1..Len(job.todo) : job.todo[i] \in LostSteps
      BY <1>1, <2>2 DEF LedgerInv, JobInv, LostEnds, Simple
    <3>2. Rest[Len(Rest)] = job.todo[Len(job.todo)]
      BY <1>2
    <3>3. \A i \in 1..Len(Rest) : Rest[i] \in LostSteps
      BY <1>2, <3>1
    <3> QED BY <1>1, <1>2, <2>2, <3>1, <3>2, <3>3 DEF LostEnds
  <2>3. CASE job.kind \in Simple
    BY <2>3 DEF LostEnds
  <2>4. CASE job.kind = "plain"
    <3>1. ~NextIn(Rest, WriteSteps)
      BY <1>2, <2>4 DEF Shape, NextIn
    <3> QED BY <2>4, <3>1 DEF LostEnds
  <2>5. CASE job.kind = "timer"
    <3>1. \A i \in 1..Len(job.todo) : job.todo[i] \notin WriteSteps
      BY <1>1, <2>5 DEF LedgerInv, JobInv, LostEnds, Simple
    <3>2. \A i \in 1..Len(Rest) : Rest[i] \notin WriteSteps
      BY <1>2, <3>1
    <3> QED BY <2>5, <3>2 DEF LostEnds
  <2> QED BY <2>1, <2>2, <2>3, <2>4, <2>5
<1> QED BY <1>3, <1>4, <1>5 DEF JobInv

\* A command that has ended owes nothing.
LEMMA JobEnded ==
  ASSUME NEW k, NEW o, o # "open", job' = [NoJob EXCEPT !.kind = k, !.outcome = o]
  PROVE  JobInv'
<1>1. /\ job'.pc = "none" /\ job'.outcome = o /\ job'.intents = 0 /\ job'.writes = 0
      /\ ~job'.armed /\ ~job'.sent /\ ~job'.lost
  BY DEF NoJob
<1>2. ~Running'
  BY <1>1 DEF Running
<1> QED BY <1>1, <1>2 DEF JobInv, Tallies, LostEnds

\* A reading or an intent: the program stands where it stood.
LEMMA StepKept ==
  ASSUME LedgerInv, Running, job.pc # "read", job'.pc \in {"check", "recheck", "send"},
         job'.todo = job.todo, job'.kind = job.kind, job'.writes = job.writes,
         job'.lost = job.lost, job'.outcome = job.outcome,
         job'.pc = "check" => job'.intents = job.writes,
         job'.pc # "check" => job'.intents = job.writes + 1 /\ Step \in WriteSteps
  PROVE  JobInv'
<1>1. Running'
  BY DEF Running
<1>2. \A S : NextIn(job.todo, S) <=> Step \in S
  BY NextStep
<1>3. (Running => Shape(job.kind, job.todo))'
  BY DEF LedgerInv, JobInv
<1>4. Tallies'
  BY <1>1, <1>2 DEF LedgerInv, JobInv, Tallies, Running
<1>5. LostEnds'
  BY <1>1 DEF LedgerInv, JobInv, LostEnds
<1> QED BY <1>3, <1>4, <1>5 DEF JobInv

\* The readback of a write after which nothing is inserted.
LEMMA ReadDone ==
  ASSUME LedgerInv, job.pc = "read", job.kind = "timer" => ~job.lost,
         job'.pc = "check", job'.todo = Rest, job'.kind = job.kind,
         job'.writes = job.writes, job'.intents = job.intents,
         job'.lost = job.lost, job'.outcome = job.outcome
  PROVE  JobInv'
<1>1. Running /\ Running' /\ job.writes > 0 /\ Step \in WriteSteps
  <2>1. Running /\ Running'
    BY DEF Running
  <2> QED BY <2>1, NextStep DEF LedgerInv, JobInv, Tallies
<1>2. Step \notin {"finish", "raise"}
  BY <1>1 DEF WriteSteps
<1>3. /\ Shape(job.kind, job.todo) /\ Step = job.todo[1]
      /\ Len(job.todo) \in Nat /\ Shape(job.kind, Rest) /\ Rest \in Seq(Steps)
      /\ Len(Rest) = Len(job.todo) - 1 /\ Len(Rest) >= 1
      /\ \A i \in 1..Len(Rest) : Rest[i] = job.todo[i + 1] /\ i + 1 \in 1..Len(job.todo)
  <2>1. Shape(job.kind, Rest)
    BY <1>1, <1>2, NextStep
  <2>2. Len(Rest) >= 1
    BY <2>1 DEF Shape
  <2> QED BY <1>1, <1>2, <2>1, <2>2, NextStep
<1> HIDE DEF Step, Rest
<1>4. job.kind \in Simple \cup {"plain"} => ~NextIn(Rest, WriteSteps)
  BY <1>3 DEF Shape, NextIn
<1>5. Tallies'
  BY <1>1, <1>4 DEF LedgerInv, JobInv, Tallies, Running
<1>6. LostEnds'
  <2> SUFFICES ASSUME job.lost
               PROVE  LostEnds'
    BY DEF LostEnds
  <2>1. CASE job.kind = "station"
    <3>1. /\ job.todo[Len(job.todo)] = "raise"
          /\ \A i \in 1..Len(job.todo) : i # 1 => job.todo[i] \in LostSteps
      BY <1>1, <2>1 DEF LedgerInv, JobInv, LostEnds, Simple
    <3>2. Rest[Len(Rest)] = job.todo[Len(job.todo)]
      BY <1>3
    <3>3. \A i \in 1..Len(Rest) : Rest[i] \in LostSteps
      BY <1>3, <3>1
    <3> QED BY <1>1, <1>3, <2>1, <3>1, <3>2, <3>3 DEF LostEnds
  <2>2. CASE job.kind \in Simple \cup {"plain"}
    BY <1>4, <2>2 DEF LostEnds
  <2> QED BY <1>1, <2>1, <2>2 DEF LedgerInv, JobInv, LostEnds
<1> QED BY <1>1, <1>3, <1>5, <1>6 DEF JobInv

\* A timer whose selection was lost leaves its second volume out.
LEMMA ReadTimer ==
  ASSUME LedgerInv, job.pc = "read", job.kind = "timer", job.lost,
         job'.pc = "check", job'.todo = Tail(Rest), job'.kind = job.kind,
         job'.writes = job.writes, job'.intents = job.intents,
         job'.lost = job.lost, job'.outcome = job.outcome
  PROVE  Tail(Rest) \in Seq(Steps) /\ JobInv'
<1>1. Running /\ Running' /\ job.writes > 0 /\ Step \in WriteSteps
  <2>1. Running /\ Running'
    BY DEF Running
  <2> QED BY <2>1, NextStep DEF LedgerInv, JobInv, Tallies
<1>2. Step = "select" /\ Step \notin {"finish", "raise"}
  <2>1. \A i \in 1..Len(job.todo) : job.todo[i] \notin WriteSteps => i # 1
    BY <1>1, NextStep
  <2>2. Len(job.todo) >= 1 /\ Len(job.todo) \in Nat /\ (NextIn(job.todo, {"select"}) => Step = "select")
    BY <1>1, NextStep
  <2>3. NextIn(job.todo, {"select"})
    BY <1>1, <2>1, <2>2 DEF LedgerInv, JobInv, LostEnds, Simple
  <2> QED BY <2>2, <2>3
<1>3. /\ Shape("timer", job.todo) /\ job.todo[1] = "select" /\ Len(job.todo) \in Nat
      /\ Shape("timer", Rest) /\ Rest \in Seq(Steps) /\ Len(Rest) = Len(job.todo) - 1
      /\ \A i \in 1..Len(Rest) : Rest[i] = job.todo[i + 1]
  BY <1>1, <1>2, NextStep
<1> HIDE DEF Step, Rest
<1>4. 3 <= Len(job.todo) /\ \A j \in 1..Len(job.todo) : job.todo[j] \in WriteSteps => j <= 2
  <2>1. 1 \in 1..Len(job.todo)
    BY <1>3 DEF Shape
  <2> QED BY <1>3, <2>1 DEF Shape
<1>5. Rest[1] \notin {"finish", "raise"}
  <2>1. Rest[1] = job.todo[2] /\ 2 \in 1..Len(job.todo) /\ 2 # Len(job.todo)
    BY <1>3, <1>4
  <2> QED BY <1>3, <2>1 DEF Shape
<1> DEFINE r == Tail(Rest)
<1>6. Shape("timer", r)
  BY <1>3, <1>5, TailShape
<1>7. r \in Seq(Steps) /\ Len(r) = Len(Rest) - 1 /\ \A i \in 1..Len(r) : r[i] = Rest[i + 1]
  <2>1. Len(Rest) >= 1
    BY <1>3, <1>4
  <2> QED BY <1>3, <2>1, Remainder
<1> HIDE DEF r
<1>8. \A i \in 1..Len(r) : r[i] \notin WriteSteps
  <2> SUFFICES ASSUME NEW i \in 1..Len(r)
               PROVE  r[i] \notin WriteSteps
    OBVIOUS
  <2>1. i + 1 \in 1..Len(Rest) /\ i + 2 \in 1..Len(job.todo) /\ r[i] = job.todo[i + 2]
    <3>0. Len(r) = Len(Rest) - 1 /\ Len(Rest) = Len(job.todo) - 1 /\ Len(job.todo) \in Nat
      BY <1>3, <1>7
    <3>1. i + 1 \in 1..Len(Rest) /\ r[i] = Rest[i + 1]
      <4>1. i + 1 \in 1..Len(Rest)
        BY <3>0
      <4>2. r[i] = Rest[i + 1]
        BY <1>7
      <4> QED BY <4>1, <4>2
    <3>2. Rest[i + 1] = job.todo[(i + 1) + 1] /\ (i + 1) + 1 = i + 2
      BY <1>3, <3>1
    <3> QED BY <1>3, <3>1, <3>2
  <2> QED BY <1>4, <2>1
<1>9. job'.todo = r
  BY DEF r
<1>10. Tallies'
  BY <1>1, <1>9 DEF LedgerInv, JobInv, Tallies, Running, Simple
<1>11. LostEnds'
  BY <1>8, <1>9 DEF LostEnds
<1> QED BY <1>6, <1>7, <1>9, <1>10, <1>11 DEF JobInv, r

\* A station releases the key it has pressed.
LEMMA ReadReleased ==
  ASSUME LedgerInv, job.pc = "read", NEW x,
         \/ Step = "mute" /\ x = "release-mute"
         \/ Step = "unmute" /\ x = "release-unmute"
         \/ Step = "wake" /\ x = "release-wake"
         \/ Step = "halt" /\ x = "release-halt",
         job.kind \in StationKinds, job.kind = "timer" => ~job.lost,
         job'.pc = "check", job'.todo = <<x>> \o Rest, job'.kind = job.kind,
         job'.writes = job.writes, job'.intents = job.intents,
         job'.lost = job.lost, job'.outcome = job.outcome
  PROVE  /\ <<x>> \o Rest \in Seq(Steps) /\ JobInv'
         /\ Len(job'.todo) = Len(job.todo) /\ job'.todo[1] = x
         /\ \A i \in 2..Len(job.todo) : job'.todo[i] = job.todo[i]
<1> DEFINE p == <<x>>
           r == p \o Rest
<1>1. Running /\ Running' /\ job.writes > 0
  <2>1. Running /\ Running'
    BY DEF Running
  <2> QED BY <2>1 DEF LedgerInv, JobInv, Tallies
<1>2. Step \notin {"finish", "raise", "select"} /\ x \in Steps /\ x \in Harmless
  BY DEF Steps, Harmless
<1>3. /\ Shape(job.kind, job.todo) /\ Step = job.todo[1] /\ Len(job.todo) \in Nat
      /\ Len(job.todo) >= 1 /\ Rest = Tail(job.todo) /\ Len(Rest) = Len(job.todo) - 1
      /\ \A i \in 1..Len(Rest) : Rest[i] = job.todo[i + 1]
      /\ Shape(job.kind, Rest)
  BY <1>1, <1>2, NextStep
<1>4. job.kind \notin Simple \cup {"plain"}
  <2>1. job.kind # "plain"
    <3>1. Step \in WriteSteps
      BY DEF WriteSteps, Steps
    <3> QED BY <1>2, <1>3, <3>1 DEF Shape
  <2> QED BY <2>1 DEF StationKinds, Simple
<1>5. p \in Seq(Steps) /\ Len(p) = 1 /\ p[1] = x /\ \A i \in 1..Len(p) : p[i] \in Harmless
  BY <1>2
<1>6. Len(job.todo) >= 2
  BY <1>2, <1>3, TailShape
<1>7. job.kind \in SafeKinds /\ job.todo[2] \in Starts => p[Len(p)] = "release-mute"
  <2> SUFFICES ASSUME job.kind \in SafeKinds, job.todo[2] \in Starts
               PROVE  x = "release-mute"
    BY <1>5
  <2>1. 2 \in 1..Len(job.todo)
    BY <1>3, <1>6
  <2>2. job.todo[2 - 1] \in {"mute", "release-mute"}
    BY <1>3, <2>1 DEF Shape
  <2> QED BY <1>3, <2>2
<1>20. job.todo[1] \notin {"finish", "raise"} /\ Len(p) >= 1
  BY <1>2, <1>3, <1>5
<1> HIDE DEF p, Step, Rest
<1>8. /\ Shape(job.kind, r) /\ Len(r) = 1 + Len(Rest) /\ r[1] = x
      /\ \A i \in 1..Len(Rest) : r[1 + i] = Rest[i]
  <2> DEFINE k == job.kind
             q == job.todo
  <2>1. /\ Shape(k, q) /\ q[1] \notin {"finish", "raise"} /\ p \in Seq(Steps) /\ Len(p) >= 1
        /\ \A i \in 1..Len(p) : p[i] \in Harmless
        /\ k \notin Simple \cup {"plain"}
        /\ k \in SafeKinds /\ q[2] \in Starts => p[Len(p)] = "release-mute"
    BY <1>3, <1>4, <1>5, <1>7, <1>20
  <2> HIDE DEF k, q
  <2>2. /\ Shape(k, p \o Tail(q))
        /\ Len(p \o Tail(q)) = Len(p) + Len(Tail(q))
        /\ \A i \in 1..Len(p) : (p \o Tail(q))[i] = p[i]
        /\ \A i \in 1..Len(Tail(q)) : (p \o Tail(q))[Len(p) + i] = Tail(q)[i]
    BY <2>1, PrefixShape
  <2>3. Tail(q) = Rest /\ k = job.kind
    BY DEF k, q, Rest
  <2>4. Shape(k, r) /\ Len(r) = Len(p) + Len(Rest) /\ (\A i \in 1..Len(p) : r[i] = p[i])
        /\ \A i \in 1..Len(Rest) : r[Len(p) + i] = Rest[i]
    BY <2>2, <2>3
  <2> HIDE DEF r
  <2>5. 1 \in 1..Len(p)
    BY <1>5
  <2>6. r[1] = x
    BY <1>5, <2>4, <2>5
  <2> QED BY <1>5, <2>3, <2>4, <2>6
<1> HIDE DEF r
<1>9. Len(r) = Len(job.todo) /\ r \in Seq(Steps) /\ \A i \in 2..Len(job.todo) : r[i] = job.todo[i]
  <2>1. ASSUME NEW i \in 2..Len(job.todo)
        PROVE  r[i] = job.todo[i]
    <3>1. i - 1 \in 1..Len(Rest) /\ 1 + (i - 1) = i /\ (i - 1) + 1 = i
      BY <1>3, <2>1
    <3>2. r[1 + (i - 1)] = Rest[i - 1]
      BY <1>8, <3>1
    <3>3. Rest[i - 1] = job.todo[(i - 1) + 1]
      BY <1>3, <3>1
    <3> QED BY <3>1, <3>2, <3>3
  <2> QED BY <1>3, <1>8, <2>1 DEF Shape
<1>10. job'.todo = r
  BY DEF r, p
<1>11. Tallies'
  BY <1>1, <1>4, <1>10 DEF LedgerInv, JobInv, Tallies, Running
<1>12. LostEnds'
  <2> SUFFICES ASSUME job.lost
               PROVE  LostEnds'
    BY DEF LostEnds
  <2>1. job.kind = "station"
    BY <1>1, <1>4 DEF LedgerInv, JobInv, LostEnds
  <2>2. /\ job.todo[Len(job.todo)] = "raise"
        /\ \A i \in 1..Len(job.todo) : job.todo[i] \in LostSteps \/ (i = 1 /\ job.todo[i] = "select")
    BY <1>1, <2>1 DEF LedgerInv, JobInv, LostEnds, Simple
  <2>3. Step \in LostSteps
    BY <1>2, <1>3, <2>2
  <2>4. x \in LostSteps
    BY <2>3 DEF LostSteps
  <2>5. \A i \in 1..Len(r) : r[i] \in LostSteps
    <3> SUFFICES ASSUME NEW i \in 1..Len(r)
                 PROVE  r[i] \in LostSteps
      OBVIOUS
    <3>1. CASE i = 1
      BY <1>8, <2>4, <3>1
    <3>2. CASE i # 1
      <4>1. i \in 2..Len(job.todo) /\ i \in 1..Len(job.todo)
        BY <1>3, <1>9, <3>2
      <4> QED BY <1>9, <2>2, <3>2, <4>1
    <3> QED BY <3>1, <3>2
  <2>6. r[Len(r)] = "raise"
    BY <1>3, <1>6, <1>9, <2>2
  <2> QED BY <1>3, <1>9, <1>10, <2>1, <2>5, <2>6 DEF LostEnds
<1> QED BY <1>1, <1>8, <1>9, <1>10, <1>11, <1>12 DEF JobInv, r, p

-----------------------------------------------------------------------------
(***************************************************************************)
(* The steps of a command                                                  *)
(***************************************************************************)

\* Parts of the state that the proofs of the steps start from.
LEMMA Known ==
  ASSUME LedgerInv
  PROVE  /\ job \in JobType /\ RadioTypeOK /\ ReconnectTypeOK /\ Snap \in Snapshots
         /\ Tallies /\ LostEnds
BY TypesTo, RadioTypes DEF LedgerInv, JobInv

\* Open, Recheck, Intend and Poll: readings and intents.
LEMMA ReadingSteps ==
  ASSUME LedgerInv, Open \/ Recheck \/ Intend \/ Poll
  PROVE  job' \in JobType /\ JobInv'
<1>0. job \in JobType /\ Snap \in Snapshots /\ Tallies
  BY Known
<1>1. CASE Open
  <2>1. /\ job' \in JobType /\ job'.pc = "check" /\ job'.todo = job.todo /\ job'.kind = job.kind
        /\ job'.writes = job.writes /\ job'.intents = job.intents /\ job'.lost = job.lost
        /\ job'.outcome = job.outcome /\ job.pc = "open"
    BY <1>0, <1>1 DEF Open, At, JobType
  <2>2. Running /\ job.intents = job.writes
    BY <1>0, <2>1 DEF Running, Tallies
  <2> QED BY <2>1, <2>2, StepKept
<1>2. CASE Recheck
  <2>1. /\ job' \in JobType /\ job'.pc = "send" /\ job'.todo = job.todo /\ job'.kind = job.kind
        /\ job'.writes = job.writes /\ job'.intents = job.intents /\ job'.lost = job.lost
        /\ job'.outcome = job.outcome /\ job.pc = "recheck"
    BY <1>0, <1>2 DEF Recheck, At, JobType
  <2>2. Running /\ job.intents = job.writes + 1 /\ NextIn(job.todo, WriteSteps)
    BY <1>0, <2>1 DEF Running, Tallies
  <2>3. Step \in WriteSteps
    BY <2>2, NextStep
  <2> QED BY <2>1, <2>2, <2>3, StepKept
<1>3. CASE Intend
  <2> DEFINE pc == IF job.kind = "setting" THEN "send" ELSE "recheck"
             n == job.intents + 1
  <2>1. /\ job.pc = "check" /\ Step \in WriteSteps
        /\ job' = [job EXCEPT !.intents = n, !.pc = pc]
    BY <1>3 DEF Intend, At
  <2>5. n \in Nat /\ n = job.intents + 1 /\ pc \in {"send", "recheck"}
    BY <1>0 DEF JobType
  <2> HIDE DEF n, pc
  <2>2. /\ job' \in JobType /\ job'.pc \in {"send", "recheck"} /\ job'.todo = job.todo
        /\ job'.kind = job.kind /\ job'.writes = job.writes /\ job'.intents = job.intents + 1
        /\ job'.lost = job.lost /\ job'.outcome = job.outcome
    BY <1>0, <2>1, <2>5 DEF JobType
  <2>3. Running /\ job.intents = job.writes
    BY <1>0, <2>1 DEF Running, Tallies
  <2> QED BY <2>1, <2>2, <2>3, StepKept
<1>4. CASE Poll
  <2>1. /\ job.pc = "check" /\ job.polls < MaxPolls
        /\ job' = [job EXCEPT !.cur = Snap, !.polls = job.polls + 1]
    BY <1>4 DEF Poll, At
  <2>2. job.polls \in 0 .. MaxPolls /\ job.polls + 1 \in 0 .. MaxPolls
    BY <1>0, <2>1, CommandAssumption DEF JobType, CommandAssumption
  <2>3. /\ job' \in JobType /\ job'.pc = "check" /\ job'.todo = job.todo /\ job'.kind = job.kind
        /\ job'.writes = job.writes /\ job'.intents = job.intents /\ job'.lost = job.lost
        /\ job'.outcome = job.outcome
    BY <1>0, <2>1, <2>2 DEF JobType
  <2>4. Running /\ job.intents = job.writes
    BY <1>0, <2>1 DEF Running, Tallies
  <2> QED BY <2>1, <2>3, <2>4, StepKept
<1> QED BY <1>1, <1>2, <1>3, <1>4

\* Skip, Arm, Arrive, Verify and Clear: steps that are no requests.
LEMMA LocalSteps ==
  ASSUME LedgerInv, Skip \/ Arm \/ Arrive \/ Verify \/ Clear
  PROVE  job' \in JobType /\ JobInv'
<1>0. job \in JobType /\ Tallies /\ 0 \in 0 .. MaxPolls
  BY Known, CommandAssumption DEF CommandAssumption
<1>1. job.pc = "check" /\ Running
  BY DEF Skip, Arm, Arrive, Verify, Clear, At, Running
<1>2. Step \in Steps /\ (Step \notin {"finish", "raise"} => Rest \in Seq(Steps))
  BY <1>1, NextStep
<1>3. CASE Skip /\ job.kind = "setting"
  <2>1. job' = [NoJob EXCEPT !.kind = job.kind, !.outcome = "UNCHANGED"]
    BY <1>3 DEF Skip
  <2>2. job.kind \in AllKinds \cup {"none"}
    BY <1>0 DEF JobType
  <2> QED BY <2>1, <2>2, NoJobType, JobEnded, CommandAssumption
<1>4. CASE (Skip /\ job.kind # "setting") \/ Arm \/ Arrive \/ Verify \/ Clear
  <2>1. Step \notin Sure \cup {"finish", "raise"}
    <3>1. CASE Skip /\ job.kind # "setting"
      <4>1. Step \in WriteSteps /\ ~Needed
        BY <3>1 DEF Skip
      <4>2. Step # "set"
        <5>1. 1 \in 1..Len(job.todo) /\ Step = job.todo[1] /\ Shape(job.kind, job.todo)
          BY <1>1, NextStep
        <5> QED BY <3>1, <5>1 DEF Shape
      <4>3. Step \notin {"start", "select", "stop", "standby", "native"}
        BY <4>1 DEF Needed
      <4> QED BY <4>1, <4>2, <4>3 DEF Sure, WriteSteps
    <3>2. CASE Arm \/ Arrive \/ Verify \/ Clear
      BY <3>2 DEF Arm, Arrive, Verify, Clear, Sure
    <3> QED BY <1>4, <3>1, <3>2
  <2> HIDE DEF Step, Rest
  <2>2. /\ job' \in JobType /\ job'.pc = "check" /\ job'.todo = Rest /\ job'.kind = job.kind
        /\ job'.writes = job.writes /\ job'.intents = job.intents /\ job'.lost = job.lost
        /\ job'.outcome = job.outcome /\ job'.sent = job.sent
    <3>1. CASE Skip /\ job.kind # "setting"
      BY <1>0, <1>1, <1>2, <2>1, <3>1 DEF Skip, JobType
    <3>2. CASE Arm
      BY <1>0, <1>1, <1>2, <2>1, <3>2 DEF Arm, JobType
    <3>3. CASE Arrive \/ Verify
      <4>1. job' = [job EXCEPT !.todo = Rest, !.polls = 0]
        BY <3>3 DEF Arrive, Verify, Advance
      <4> QED BY <1>0, <1>1, <1>2, <2>1, <4>1 DEF JobType
    <3>4. CASE Clear
      BY <1>0, <1>1, <1>2, <2>1, <3>4 DEF Clear, JobType
    <3> QED BY <1>4, <3>1, <3>2, <3>3, <3>4
  <2> QED BY <1>1, <2>1, <2>2, StepDone
<1> QED BY <1>3, <1>4

\* Readback and Unread: the program goes on behind the request.
LEMMA ReadSteps ==
  ASSUME LedgerInv, Readback \/ Unread
  PROVE  job' \in JobType /\ JobInv'
<1>0. job \in JobType /\ Snap \in Snapshots /\ Tallies /\ LostEnds
  BY Known
<1>1. job.pc = "read" /\ Running /\ Step \in WriteSteps
  <2>1. job.pc = "read" /\ Running
    BY DEF Readback, Unread, At, Running
  <2> QED BY <1>0, <2>1, NextStep DEF Tallies
<1>2. Rest \in Seq(Steps) /\ \A q : q = Rest => <<>> \o q = q
  <2>1. Rest \in Seq(Steps)
    BY <1>1, NextStep DEF WriteSteps
  <2>2. <<>> \o Rest = Rest
    BY <2>1, ConcatEmptySeq
  <2> QED BY <2>1, <2>2
<1>3. CASE Unread
  <2>1. job' = [job EXCEPT !.pc = "check", !.todo = Rest] /\ job.kind # "timer"
    BY <1>3 DEF Unread
  <2> HIDE DEF Rest
  <2>2. /\ job' \in JobType /\ job'.pc = "check" /\ job'.todo = Rest /\ job'.kind = job.kind
        /\ job'.writes = job.writes /\ job'.intents = job.intents /\ job'.lost = job.lost
        /\ job'.outcome = job.outcome
    BY <1>0, <1>2, <2>1 DEF JobType
  <2> QED BY <1>1, <2>1, <2>2, ReadDone
<1>4. CASE Readback
  <2> DEFINE new == Release(Step) \o IF job.kind = "timer" /\ job.lost THEN Tail(Rest) ELSE Rest
  <2>1. job' = [job EXCEPT !.pc = "check", !.cur = Snap, !.todo = new]
    BY <1>4 DEF Readback
  <2> HIDE DEF new
  <2>2. /\ job'.pc = "check" /\ job'.todo = new /\ job'.kind = job.kind
        /\ job'.writes = job.writes /\ job'.intents = job.intents /\ job'.lost = job.lost
        /\ job'.outcome = job.outcome
        /\ new \in Seq(Steps) => job' \in JobType
    BY <1>0, <1>1, <2>1 DEF JobType
  <2>3. CASE job.kind = "timer" /\ job.lost
    <3>1. Step = "select"
      <4>1. \A i \in 1..Len(job.todo) : job.todo[i] \notin WriteSteps => i # 1
        BY <1>1, NextStep
      <4>2. Len(job.todo) >= 1 /\ (NextIn(job.todo, {"select"}) => Step = "select")
        BY <1>1, NextStep
      <4> QED BY <1>0, <1>1, <2>3, <4>1, <4>2, NextStep DEF LostEnds, Simple
    <3>2. Release(Step) = <<>>
      BY <3>1 DEF Release
    <3>3. Tail(Rest) \in Seq(Steps) => new = Tail(Rest)
      <4>1. ASSUME NEW q \in Seq(Steps)
            PROVE  <<>> \o q = q
        BY ConcatEmptySeq
      <4> QED BY <2>3, <3>2, <4>1 DEF new
    <3>4. Tail(Rest) \in Seq(Steps)
      <4>1. /\ Shape("timer", job.todo) /\ job.todo[1] = "select" /\ Len(job.todo) \in Nat
            /\ Rest \in Seq(Steps) /\ Len(Rest) = Len(job.todo) - 1 /\ 1 \in 1..Len(job.todo)
        BY <1>1, <2>3, <3>1, NextStep
      <4>2. Len(Rest) >= 1
        BY <4>1 DEF Shape
      <4> QED BY <4>1, <4>2, Remainder
    <3> HIDE DEF Rest
    <3>5. new = Tail(Rest)
      BY <3>3, <3>4
    <3> QED BY <1>1, <2>2, <2>3, <3>4, <3>5, ReadTimer
  <2>4. CASE ~(job.kind = "timer" /\ job.lost)
    <3>1. new = Release(Step) \o Rest
      BY <2>4 DEF new
    <3>2. CASE Release(Step) = <<>>
      <4>1. new = Rest
        BY <1>2, <3>1, <3>2
      <4> HIDE DEF Rest
      <4> QED BY <1>1, <1>2, <2>2, <2>4, <4>1, ReadDone
    <3>3. CASE Release(Step) # <<>>
      <4>1. job.kind \in StationKinds
        BY <3>3 DEF Release
      <4>2. PICK x : /\ Release(Step) = <<x>>
                     /\ \/ Step = "mute" /\ x = "release-mute"
                        \/ Step = "unmute" /\ x = "release-unmute"
                        \/ Step = "wake" /\ x = "release-wake"
                        \/ Step = "halt" /\ x = "release-halt"
        BY <3>3, <4>1 DEF Release
      <4>3. job'.todo = <<x>> \o Rest /\ new = <<x>> \o Rest
        BY <2>2, <3>1, <4>2
      <4> HIDE DEF Step, Rest
      <4>4. <<x>> \o Rest \in Seq(Steps) /\ JobInv'
        BY <1>1, <2>2, <2>4, <4>1, <4>2, <4>3, ReadReleased
      <4> QED BY <2>2, <4>3, <4>4
    <3> QED BY <3>2, <3>3
  <2> QED BY <2>3, <2>4
<1> QED BY <1>3, <1>4

\* Fallback: a failed preset is selected directly.
LEMMA FallbackStep ==
  ASSUME LedgerInv, Fallback
  PROVE  /\ job' \in JobType /\ JobInv'
         /\ Len(job'.todo) = 3 + Len(job.todo) - 1
         /\ \A i \in 1..Len(job'.todo) : i <= 3 => job'.todo[i] \in Harmless
         /\ \A i \in 1..Len(job'.todo) : i > 3 => job'.todo[i] = job.todo[i - 3 + 1]
<1> DEFINE p == <<"fallback", "volume", "matched">>
           q == job.todo
           r == p \o Rest
<1>0. job \in JobType /\ Tallies /\ LostEnds /\ 0 \in 0 .. MaxPolls
  BY Known, CommandAssumption DEF CommandAssumption
<1>1. /\ job.pc = "check" /\ Running /\ job.kind = "preset" /\ Step = "match"
      /\ job' = [job EXCEPT !.todo = r, !.polls = 0]
  BY DEF Fallback, At, Running
<1>2. ~job.lost /\ job.kind \notin Simple
  BY <1>0, <1>1 DEF LostEnds, Simple
<1>3. /\ Shape("preset", q) /\ Rest = Tail(q) /\ q[1] = "match" /\ Len(q) \in Nat /\ Len(q) >= 1
      /\ Len(Rest) = Len(q) - 1 /\ \A i \in 1..Len(Rest) : Rest[i] = q[i + 1]
  BY <1>1, NextStep
<1>4. p \in Seq(Steps) /\ Len(p) = 3 /\ \A i \in 1..Len(p) : p[i] \in Harmless
  BY DEF Steps, Harmless
<1>5. Len(q) >= 2 => q[2] \notin Starts
  <2> SUFFICES ASSUME Len(q) >= 2, q[2] \in Starts PROVE FALSE
    OBVIOUS
  <2>1. 2 \in 1..Len(q)
    BY <1>3
  <2>2. q[2 - 1] \in {"mute", "release-mute"}
    BY <1>3, <2>1 DEF Shape, SafeKinds
  <2> QED BY <1>3, <2>2
<1>6. Len(q) >= 2
  BY <1>3, TailShape
<1> HIDE DEF p, q, Rest
<1>7. /\ Shape("preset", p \o Tail(q))
      /\ Len(p \o Tail(q)) = Len(p) + Len(Tail(q))
      /\ \A i \in 1..Len(p) : (p \o Tail(q))[i] = p[i]
      /\ \A i \in 1..Len(Tail(q)) : (p \o Tail(q))[Len(p) + i] = Tail(q)[i]
  <2>1. q[1] \notin {"finish", "raise"} /\ Len(p) >= 1 /\ "preset" \notin Simple \cup {"plain"}
    BY <1>3, <1>4 DEF Simple
  <2>2. "preset" \in SafeKinds /\ q[2] \in Starts => p[Len(p)] = "release-mute"
    BY <1>5, <1>6
  <2>3. /\ Shape("preset", q) /\ p \in Seq(Steps) /\ \A i \in 1..Len(p) : p[i] \in Harmless
    BY <1>3, <1>4
  <2> QED BY <2>1, <2>2, <2>3, PrefixShape
<1>8. /\ Shape("preset", r) /\ Len(r) = 3 + Len(Rest) /\ r \in Seq(Steps)
      /\ \A i \in 1..Len(Rest) : r[3 + i] = Rest[i]
      /\ \A i \in 1..3 : r[i] \in Harmless
  BY <1>3, <1>4, <1>7 DEF Shape
<1> HIDE DEF r
<1>9. /\ job' \in JobType /\ job'.pc = "check" /\ job'.todo = r /\ job'.kind = "preset"
      /\ job'.writes = job.writes /\ job'.intents = job.intents /\ job'.lost = job.lost
      /\ job'.outcome = job.outcome /\ job'.armed = job.armed /\ job'.sent = job.sent
  BY <1>0, <1>1, <1>8 DEF JobType
<1>10. job.writes > 0 \/ \E i \in 1..Len(r) : r[i] \in Sure
  <2> SUFFICES ASSUME ~(job.writes > 0)
               PROVE  \E i \in 1..Len(r) : r[i] \in Sure
    OBVIOUS
  <2>1. PICK i \in 1..Len(q) : q[i] \in Sure
    BY <1>0, <1>1 DEF Tallies, q
  <2>2. i # 1
    BY <1>3, <2>1 DEF Sure
  <2>3. i - 1 \in 1..Len(Rest) /\ Rest[i - 1] = q[i] /\ 3 + (i - 1) \in 1..Len(r)
    BY <1>3, <1>8, <2>1, <2>2
  <2>4. r[3 + (i - 1)] = Rest[i - 1]
    BY <1>8, <2>3
  <2> QED BY <2>1, <2>3, <2>4
<1>11. Tallies'
  BY <1>0, <1>1, <1>2, <1>9, <1>10 DEF Tallies, Running
<1>12. LostEnds'
  BY <1>2, <1>9 DEF LostEnds
<1>13. \A i \in 1..Len(r) : /\ i <= 3 => r[i] \in Harmless
                            /\ i > 3 => r[i] = q[i - 3 + 1]
  <2> SUFFICES ASSUME NEW i \in 1..Len(r)
               PROVE  /\ i <= 3 => r[i] \in Harmless
                      /\ i > 3 => r[i] = q[i - 3 + 1]
    OBVIOUS
  <2>1. i <= 3 => r[i] \in Harmless
    BY <1>8
  <2>2. ASSUME i > 3
        PROVE  r[i] = q[i - 3 + 1]
    <3>1. i - 3 \in 1..Len(Rest) /\ 3 + (i - 3) = i
      BY <1>3, <1>8, <2>2
    <3>2. r[3 + (i - 3)] = Rest[i - 3]
      BY <1>8, <3>1
    <3> QED BY <1>3, <3>1, <3>2
  <2> QED BY <2>1, <2>2
<1>14. Len(r) = 3 + Len(q) - 1
  BY <1>3, <1>8
<1>15. JobInv'
  BY <1>8, <1>9, <1>11, <1>12 DEF JobInv
<1> QED BY <1>9, <1>13, <1>14, <1>15 DEF q

\* The remainder of a station that is shut down has the shape of a program.
LEMMA ShutdownShape ==
  Shape("station", <<"select", "halt", "standby", "volume", "raise">>)
BY DEF Shape, Starts, Steps, WriteSteps, Simple, SafeKinds

\* Send: one request, whatever becomes of it.
LEMMA SendStep ==
  ASSUME LedgerInv, NEW reply \in {"ok", "lost", "rejected"}, Send(reply)
  PROVE  /\ job' \in JobType /\ JobInv'
         /\ job'.writes = job.writes + 1 /\ job'.intents = job.intents
         /\ job.pc = "send" /\ job'.outcome = "open" /\ job.outcome = "open"
<1> DEFINE ok == CarriesOn(reply) \/ ShutsDown(reply)
           n == job.writes + 1
           sent == job.sent \/ (reply = "ok" /\ Step \in Starts)
           lost == job.lost \/ reply # "ok"
           pc == IF ok THEN "read" ELSE "fail"
           new == IF ShutsDown(reply)
                  THEN <<Step, "halt", "standby", "volume", "raise">> ELSE job.todo
           held == reply = "ok" /\ Pressed
<1>0. job \in JobType /\ Tallies /\ LostEnds
  BY Known
<1>1. job.pc = "send" /\ Running /\ Step \in WriteSteps /\ job.intents = job.writes + 1
  <2>1. job.pc = "send" /\ Running
    BY DEF Send, At, Running
  <2> QED BY <1>0, <2>1, NextStep DEF Tallies
<1>2. Shape(job.kind, job.todo) /\ Len(job.todo) >= 1 /\ Len(job.todo) \in Nat /\ Step = job.todo[1]
      /\ job.todo \in Seq(Steps)
  BY <1>1, NextStep
<1>3. job' = [job EXCEPT !.writes = n, !.sent = sent, !.lost = lost, !.held = held, !.pc = pc,
                          !.todo = new]
  BY DEF Send
<1>4. n \in Nat /\ sent \in BOOLEAN /\ lost \in BOOLEAN /\ held \in BOOLEAN /\ pc \in {"read", "fail"} /\ n > 0
  BY <1>0 DEF JobType
<1>5. /\ Shape(job.kind, new) /\ NextIn(new, WriteSteps) /\ new \in Seq(Steps)
      /\ ShutsDown(reply) => /\ job.kind = "station" /\ new = <<"select", "halt", "standby", "volume", "raise">>
                             /\ Len(new) = 5
      /\ ~ShutsDown(reply) => new = job.todo
  <2>1. CASE ShutsDown(reply)
    <3>1. job.kind = "station" /\ new = <<"select", "halt", "standby", "volume", "raise">>
      BY <2>1 DEF ShutsDown
    <3> HIDE DEF new
    <3>2. Len(new) = 5 /\ new[1] = "select" /\ "select" \in WriteSteps
      BY <3>1 DEF WriteSteps, Steps
    <3>3. NextIn(new, WriteSteps)
      BY <3>2 DEF NextIn
    <3>4. Shape("station", new)
      BY <3>1, ShutdownShape
    <3> QED BY <2>1, <3>1, <3>2, <3>3, <3>4 DEF Shape
  <2>2. CASE ~ShutsDown(reply)
    BY <1>1, <1>2, <2>2 DEF NextIn
  <2> QED BY <2>1, <2>2
<1>6. lost /\ ok =>
        \/ /\ job.kind = "station" /\ new[Len(new)] = "raise"
           /\ \A i \in 1..Len(new) : new[i] \in LostSteps \/ (i = 1 /\ new[i] = "select")
        \/ job.kind \in Simple \cup {"plain"}
        \/ job.kind = "timer" /\ NextIn(new, {"select"})
  <2> SUFFICES ASSUME lost, ok
               PROVE  \/ /\ job.kind = "station" /\ new[Len(new)] = "raise"
                         /\ \A i \in 1..Len(new) :
                              new[i] \in LostSteps \/ (i = 1 /\ new[i] = "select")
                      \/ job.kind \in Simple \cup {"plain"}
                      \/ job.kind = "timer" /\ NextIn(new, {"select"})
    OBVIOUS
  <2>1. CASE ShutsDown(reply)
    <3>1. new = <<"select", "halt", "standby", "volume", "raise">>
      BY <1>5, <2>1
    <3> HIDE DEF new
    <3>2. \A i \in 1..Len(new) : new[i] \in LostSteps \/ (i = 1 /\ new[i] = "select")
      BY <3>1 DEF LostSteps
    <3> QED BY <1>5, <2>1, <3>1, <3>2
  <2>2. CASE ~ShutsDown(reply) /\ reply # "ok"
    <3>1. job.kind \in Simple \/ (job.kind \in {"timer", "plain"} /\ Step = "select")
      BY <2>2 DEF CarriesOn, Simple
    <3>2. new = job.todo
      BY <1>5, <2>2
    <3> QED BY <1>2, <3>1, <3>2 DEF NextIn
  <2>3. CASE ~ShutsDown(reply) /\ reply = "ok"
    <3>1. job.lost /\ new = job.todo
      BY <1>5, <2>3
    <3>2. ~(\A i \in 1..Len(job.todo) : job.todo[i] \notin WriteSteps) /\ NextIn(job.todo, WriteSteps)
      <4>1. 1 \in 1..Len(job.todo) /\ job.todo[1] \in WriteSteps
        BY <1>1, <1>2
      <4> QED BY <4>1 DEF NextIn
    <3> QED BY <1>0, <1>1, <3>1, <3>2 DEF LostEnds, Simple
  <2> QED BY <2>1, <2>2, <2>3
<1> HIDE DEF n, sent, lost, held, pc, new, ok
<1>7. /\ job' \in JobType /\ job'.kind = job.kind /\ job'.writes = n /\ job'.lost = lost
      /\ job'.pc = pc /\ job'.todo = new /\ job'.intents = job.intents
      /\ job'.outcome = job.outcome
  <2>1. job \in JobType /\ new \in Seq(Steps)
    BY <1>0, <1>5
  <2>2. pc \in {"none", "open", "check", "recheck", "send", "read", "fail"}
    BY <1>4
  <2>3. job' \in JobType
    <3> DEFINE j == [job EXCEPT !.writes = n, !.sent = sent, !.lost = lost]
    <3>1. j \in JobType
      BY <1>4, <2>1 DEF JobType
    <3>2. job' = [j EXCEPT !.held = held, !.pc = pc, !.todo = new]
      BY <1>3, <2>1 DEF JobType
    <3> HIDE DEF j
    <3> QED BY <1>4, <2>1, <2>2, <3>1, <3>2 DEF JobType
  <2>4. /\ job'.kind = job.kind /\ job'.writes = n /\ job'.lost = lost
        /\ job'.pc = pc /\ job'.todo = new /\ job'.intents = job.intents
        /\ job'.outcome = job.outcome
    BY <1>3, <2>1 DEF JobType
  <2> QED BY <2>3, <2>4
<1>8. job.outcome = "open" /\ pc # "none" /\ n = job.intents /\ pc \in {"read", "fail"}
  BY <1>0, <1>1, <1>4 DEF Tallies, n
<1>9. Tallies'
  BY <1>4, <1>5, <1>7, <1>8 DEF Tallies, Running
<1>10. LostEnds'
  <2> SUFFICES ASSUME lost, pc = "read"
               PROVE  LostEnds'
    BY <1>7, <1>8 DEF LostEnds, Running
  <2>1. ok
    BY DEF pc
  <2>2. Len(new) >= 1
    BY <1>5 DEF Shape
  <2> QED BY <1>6, <1>7, <2>1, <2>2 DEF LostEnds
<1> QED BY <1>1, <1>5, <1>7, <1>8, <1>9, <1>10 DEF JobInv, n

\* LetGo: the key is released, or its release is lost.
LEMMA LetGoStep ==
  ASSUME LedgerInv, NEW reply, LetGo(reply)
  PROVE  /\ job' \in JobType /\ JobInv' /\ job.pc = "read"
         /\ job'.intents = job.intents /\ job'.writes = job.writes /\ job'.outcome = job.outcome
         /\ job'.kind = job.kind /\ job'.before = job.before /\ job'.sent = job.sent
         /\ job'.armed = job.armed /\ job'.todo = job.todo /\ job'.cur = job.cur
         /\ \/ job'.pc = "read" /\ job'.lost = job.lost
            \/ job'.pc = "fail" /\ job'.lost
<1> DEFINE lost == job.lost \/ reply # "ok"
           pc == IF reply = "ok" THEN "read" ELSE "fail"
<1>0. job \in JobType /\ Tallies /\ LostEnds
  BY Known
<1>1. job.pc = "read" /\ job' = [job EXCEPT !.held = FALSE, !.lost = lost, !.pc = pc]
  BY DEF LetGo, At
<1>2. /\ lost \in BOOLEAN /\ pc \in {"read", "fail"}
      /\ (pc = "read" /\ lost = job.lost) \/ (pc = "fail" /\ lost)
  BY <1>0 DEF JobType
<1> HIDE DEF lost, pc
<1>3. /\ job' \in JobType
      /\ job'.intents = job.intents /\ job'.writes = job.writes /\ job'.outcome = job.outcome
      /\ job'.kind = job.kind /\ job'.before = job.before /\ job'.sent = job.sent
      /\ job'.armed = job.armed /\ job'.todo = job.todo /\ job'.cur = job.cur
      /\ job'.pc = pc /\ job'.lost = lost
  BY <1>0, <1>1, <1>2 DEF JobType
<1>4. JobInv'
  BY <1>0, <1>1, <1>2, <1>3 DEF LedgerInv, JobInv, Tallies, LostEnds, Running
<1> QED BY <1>1, <1>2, <1>3, <1>4

\* Begin: a new command.
LEMMA BeginStep ==
  ASSUME LedgerInv, NEW k \in AllKinds, NEW grouped \in BOOLEAN, Begin(k, grouped)
  PROVE  /\ job' \in JobType /\ JobInv'
         /\ job'.intents \in 0 .. 1 /\ job'.writes = 0 /\ job'.outcome = "open"
         /\ job.writes = 0 /\ job.outcome # "open" /\ job.pc = "none"
<1> DEFINE refused == \/ k \in StationKinds /\ audioLock
                      \/ k # "setting" /\ radio.zone # 0 /\ ~grouped
           n == IF k = "select" /\ ~refused THEN 1 ELSE 0
           pc == IF refused THEN "fail" ELSE FirstPc(k)
           q == Program(k)
<1>0. /\ job \in JobType /\ Snap \in Snapshots /\ Tallies /\ target \in Nat
      /\ job.pc = "none" /\ job.writes = 0 /\ job.outcome # "open"
  <2>1. job \in JobType /\ Snap \in Snapshots /\ Tallies /\ target \in Nat
    BY Known, TypesTo DEF LedgerInv
  <2>2. job.pc = "none"
    BY DEF Begin, Free
  <2> QED BY <2>1, <2>2 DEF Tallies
<1>1. Shape(k, q) /\ \E i \in 1..Len(q) : q[i] \in Sure
  BY ProgramShape
<1>2. k = "select" => NextIn(q, WriteSteps)
  BY DEF NextIn, WriteSteps, Steps, Program, select_direct, KeyKinds, StationKinds
<1>3. /\ n \in 0 .. 1 /\ n \in Nat /\ pc \in {"fail", "recheck", "open", "check"}
      /\ pc = "recheck" => k = "select" /\ n = 1
      /\ pc \in {"open", "check"} => n = 0
  BY DEF FirstPc, KeyKinds, StationKinds
<1>4. job' = [NoJob EXCEPT !.kind = k, !.outcome = "open", !.frozen = target, !.before = Snap,
                           !.cur = Snap, !.todo = q, !.intents = n, !.pc = pc]
  BY DEF Begin
<1> HIDE DEF refused, n, pc, q
<1>5. NoJob \in JobType /\ NoJob.lost = FALSE /\ NoJob.writes = 0
  BY CommandAssumption DEF NoJob, JobType, CommandAssumption, Blank, Snapshots, Selections
<1>6. /\ job' \in JobType /\ job'.kind = k /\ job'.outcome = "open" /\ job'.todo = q
      /\ job'.intents = n /\ job'.pc = pc /\ job'.lost = FALSE /\ job'.writes = 0
  BY <1>0, <1>1, <1>3, <1>4, <1>5 DEF JobType, Shape
<1>7. Tallies'
  BY <1>1, <1>2, <1>3, <1>6 DEF Tallies, Running
<1>8. LostEnds'
  BY <1>6 DEF LostEnds
<1> QED BY <1>0, <1>1, <1>3, <1>6, <1>7, <1>8 DEF JobInv

\* Finish, Fail and Crash: the command ends, and says so truthfully.
LEMMA EndSteps ==
  ASSUME LedgerInv, Finish \/ Fail \/ Crash
  PROVE  /\ job' \in JobType /\ JobInv' /\ job.outcome = "open"
         /\ job'.intents = 0 /\ job'.writes = 0 /\ job'.outcome # "open"
         /\ job'.outcome \in {"BLOCKED", "UNCHANGED"} => job.writes = 0
         /\ job'.outcome \in {"VERIFIED", "PENDING", "DIVERGED"} => job.writes > 0
<1>0. job \in JobType /\ Tallies /\ job.writes \in Nat
  BY Known DEF JobType
<1>1. ASSUME NEW o \in {"UNCHANGED", "VERIFIED", "PENDING", "DIVERGED", "BLOCKED", "LOST"},
             job' = [NoJob EXCEPT !.kind = job.kind, !.outcome = o]
      PROVE  /\ job' \in JobType /\ JobInv' /\ job'.outcome = o
             /\ job'.intents = 0 /\ job'.writes = 0
  <2>1. job.kind \in AllKinds \cup {"none"} /\ o # "open"
    BY <1>0 DEF JobType
  <2>2. job' \in JobType /\ JobInv'
    BY <1>1, <2>1, NoJobType, JobEnded, CommandAssumption
  <2> QED BY <1>1, <2>2 DEF NoJob
<1>2. CASE Finish
  <2>1. job.pc = "check" /\ Running /\ Step = "finish"
    BY <1>2 DEF Finish, At, Running
  <2>2. job.writes > 0
    <3> SUFFICES ASSUME ~(job.writes > 0) PROVE FALSE
      OBVIOUS
    <3>1. PICK i \in 1..Len(job.todo) : job.todo[i] \in Sure
      BY <1>0, <2>1 DEF Tallies
    <3>2. Shape(job.kind, job.todo) /\ job.todo[1] = "finish" /\ 1 \in 1..Len(job.todo)
      BY <2>1, NextStep
    <3>3. Len(job.todo) = 1
      BY <3>2 DEF Shape
    <3>4. i = 1
      BY <3>1, <3>3
    <3> QED BY <3>1, <3>2, <3>4 DEF Sure
  <2>3. Result \in {"VERIFIED", "PENDING"}
    BY DEF Result, KeyKinds
  <2>4. job' = [NoJob EXCEPT !.kind = job.kind, !.outcome = Result] /\ job.outcome = "open"
    BY <1>0, <1>2, <2>1 DEF Finish, Tallies
  <2> QED BY <1>1, <2>2, <2>3, <2>4
<1>3. CASE Fail
  <2>1. job' = [NoJob EXCEPT !.kind = job.kind, !.outcome = Failure] /\ job.outcome = "open"
    BY <1>0, <1>3 DEF Fail, Tallies
  <2>2. Failure = IF job.writes > 0 THEN "DIVERGED" ELSE "BLOCKED"
    BY DEF Failure
  <2>3. CASE job.writes > 0
    BY <1>1, <2>1, <2>2, <2>3
  <2>4. CASE job.writes = 0
    BY <1>1, <2>1, <2>2, <2>4
  <2> QED BY <1>0, <2>3, <2>4
<1>4. CASE Crash
  <2>1. job' = [NoJob EXCEPT !.kind = job.kind, !.outcome = "LOST"] /\ job.outcome = "open"
    BY <1>0, <1>4 DEF Crash, Tallies
  <2> QED BY <1>1, <2>1
<1> QED BY <1>2, <1>3, <1>4

\* The history is only ever changed field by field.
LEMMA HistTypes ==
  ASSUME CommandTypeOK
  PROVE  /\ Revoked \in HistType /\ [hist EXCEPT !.touched = TRUE] \in HistType
         /\ [hist EXCEPT !.by = "other"] \in HistType
         /\ Ended => hist' \in HistType
         /\ \A h \in HistType : Credited(h) \in HistType /\ \A k : Forget(h, k) \in HistType
<1>1. hist \in HistType
  BY TypesTo
<1>2. Revoked \in HistType /\ [hist EXCEPT !.touched = TRUE] \in HistType
      /\ [hist EXCEPT !.by = "other"] \in HistType
  BY <1>1 DEF Revoked, HistType
<1>3. Ended => hist' \in HistType
  BY <1>1 DEF Ended, HistType
<1>4. ASSUME NEW h \in HistType
      PROVE  Credited(h) \in HistType
  BY <1>4 DEF Credited, HistType
<1>5. ASSUME NEW h \in HistType, NEW k
      PROVE  Forget(h, k) \in HistType
  BY <1>5 DEF Forget, HistType
<1> QED BY <1>2, <1>3, <1>4, <1>5

\* The gate rows that the services store.
LEMMA GateTypes ==
  /\ [state |-> "ARMED", live |-> TRUE] \in GateType
  /\ [state |-> "VERIFIED", live |-> TRUE] \in GateType
  /\ [state |-> "FAILED", live |-> TRUE] \in GateType
  /\ [state |-> "none", live |-> FALSE] \in GateType
BY DEF GateType

\* Every step of a command keeps the types of what is not the command.
LEMMA CommandTypes ==
  ASSUME CommandTypeOK, JobStep \/ Crash \/ (\E k \in AllKinds, grouped \in BOOLEAN : Begin(k, grouped)), job' \in JobType
  PROVE  CommandTypeOK'
<1>0. /\ radio \in RadioType /\ target \in Nat /\ optIn \in BOOLEAN /\ row \in Phases
      /\ report \in {"none", "FINISH", "STOP"} /\ rc \in [Tasks -> RcType]
      /\ gate \in GateType /\ audioLock \in BOOLEAN
      /\ jobs \in 0 .. MaxJobs /\ faults \in 0 .. MaxFaults /\ hist \in HistType
      /\ RadioTypeOK /\ ReconnectTypeOK
  BY TypesTo
<1>1. cancel => row' \in Phases /\ rc' \in [Tasks -> RcType]
  BY <1>0, CancelTypes
<1>2. ASSUME UNCHANGED <<radio, audioLock, jobs>>, UNCHANGED Other, gate' \in GateType,
             \/ UNCHANGED <<row, rc, hist>>
             \/ cancel /\ hist' = Revoked
      PROVE  CommandTypeOK'
  <2>1. row' \in Phases /\ rc' \in [Tasks -> RcType] /\ hist' \in HistType
    BY <1>0, <1>1, <1>2, HistTypes
  <2> QED BY <1>0, <1>2, <2>1, TypesFrom DEF Other
<1>3. CASE Open \/ Skip \/ Recheck \/ Readback \/ Unread \/ Poll \/ Arrive \/ Fallback
  BY <1>0, <1>2, <1>3 DEF Open, Skip, Recheck, Readback, Unread, Poll, Arrive, Fallback, At
<1>4. CASE Intend \/ Finish
  BY <1>0, <1>2, <1>4 DEF Intend, Finish, At
<1>5. CASE Arm \/ Verify \/ Clear
  <2>1. gate' \in GateType
    BY <1>5, GateTypes DEF Arm, Verify, Clear, arm_playback_safety_gate,
           verify_playback_safety_gate, clear_playback_safety_gate
  <2> QED BY <1>2, <1>5, <2>1 DEF Arm, Verify, Clear, At
<1>6. CASE Fail
  <2>1. gate' \in GateType
    BY <1>0, <1>6, GateTypes DEF Fail, fail_playback_safety_gate
  <2> DEFINE locks == job.kind = "station" /\ (job.armed \/ job.writes > 0)
  <2>2. audioLock' \in {audioLock, locks \/ audioLock}
    BY <1>6 DEF Fail
  <2>3. (locks \/ audioLock) \in BOOLEAN
    OBVIOUS
  <2>4. audioLock' \in BOOLEAN
    BY <1>0, <2>2, <2>3
  <2>5. UNCHANGED <<radio, row, rc, jobs, hist>> /\ UNCHANGED Other
    BY <1>6 DEF Fail
  <2> QED BY <1>0, <2>1, <2>4, <2>5, TypesFrom DEF Other
<1>7. CASE \E reply \in {"ok", "lost", "rejected"} : Send(reply)
  <2> PICK reply \in {"ok", "lost", "rejected"} : Send(reply)
    BY <1>7
  <2>1. radio' \in RadioType
    <3>1. radio' \in Effect(Step) \cup {radio}
      BY DEF Send
    <3> QED BY <1>0, <3>1, RadioTypes
  <2>2. row' \in Phases /\ rc' \in [Tasks -> RcType]
    BY <1>0, <1>1 DEF Send
  <2>3. hist' \in HistType
    BY <1>0, HistTypes DEF Send
  <2>4. UNCHANGED <<audioLock, jobs, gate>> /\ UNCHANGED Other
    BY DEF Send, At
  <2> QED BY <1>0, <2>1, <2>2, <2>3, <2>4, TypesFrom DEF Other
<1>8. CASE Crash
  <2>1. faults' \in 0 .. MaxFaults
    BY <1>0, <1>8, CommandAssumption DEF Crash, CommandAssumption
  <2> QED BY <1>0, <1>8, <2>1, TypesFrom DEF Crash
<1>9. CASE \E k \in AllKinds, grouped \in BOOLEAN : Begin(k, grouped)
  <2> PICK k \in AllKinds, grouped \in BOOLEAN : Begin(k, grouped)
    BY <1>9
  <2>1. jobs' \in 0 .. MaxJobs
    <3>1. jobs < MaxJobs /\ jobs' = jobs + 1
      BY DEF Begin
    <3> QED BY <1>0, <3>1, CommandAssumption DEF CommandAssumption
  <2>2. hist' \in HistType
    <3>1. hist' = Forget(Revoked, k) \/ hist' = Forget(hist, k)
      BY DEF Begin
    <3> QED BY <1>0, <3>1, HistTypes
  <2>3. row' \in Phases /\ rc' \in [Tasks -> RcType]
    BY <1>0, <1>1 DEF Begin
  <2>4. UNCHANGED <<radio, gate, audioLock>> /\ UNCHANGED Other
    BY DEF Begin
  <2> QED BY <1>0, <2>1, <2>2, <2>3, <2>4, TypesFrom DEF Other
<1>10. CASE \E reply \in {"ok", "lost", "rejected"} : LetGo(reply)
  BY <1>0, <1>2, <1>10 DEF LetGo, At
<1> QED BY <1>3, <1>4, <1>5, <1>6, <1>7, <1>8, <1>9, <1>10 DEF JobStep

\* What happens beside the commands.
Beside ==
  \/ UnlockAudio \/ ProviderServes \/ ProviderServesUnknown \/ ProviderRefuses \/ GateExpires
  \/ Firmware \/ Outside
  \/ Preference \/ Report \/ Ends \/ Restarts \/ \E t \in Tasks : RcStep(t)

\* Nothing beside the commands touches the command.
LEMMA BesideKeeps ==
  ASSUME CommandTypeOK, Beside
  PROVE  CommandTypeOK' /\ job' = job
<1>0. /\ radio \in RadioType /\ target \in Nat /\ optIn \in BOOLEAN /\ row \in Phases
      /\ report \in {"none", "FINISH", "STOP"} /\ rc \in [Tasks -> RcType]
      /\ gate \in GateType /\ audioLock \in BOOLEAN /\ job \in JobType
      /\ jobs \in 0 .. MaxJobs /\ faults \in 0 .. MaxFaults /\ hist \in HistType
      /\ RadioTypeOK /\ ReconnectTypeOK
  BY TypesTo
<1>1. cancel => row' \in Phases /\ rc' \in [Tasks -> RcType]
  BY <1>0, CancelTypes
<1>2. /\ Disowned \in [Tasks -> RcType] /\ "CANCELLED" \in Phases /\ "ARMED" \in Phases
      /\ "PENDING" \in Phases /\ "ATTEMPTED" \in Phases /\ "FINISHED" \in Phases
      /\ Idle \in RcType /\ [Idle EXCEPT !.pc = "sleep", !.mine = TRUE] \in RcType
      /\ Blank \in Snapshots /\ Snap \in Snapshots
  <2>1. Blank \in Snapshots /\ Snap \in Snapshots
    BY <1>0, RadioTypes DEF Blank, Snapshots, Selections
  <2>2. Idle \in RcType /\ [Idle EXCEPT !.pc = "sleep", !.mine = TRUE] \in RcType
    BY <2>1 DEF Idle, RcType
  <2> QED BY <1>0, <2>1, <2>2 DEF Disowned, RcType, Phases
<1>3. ASSUME radio' \in RadioType, target' \in Nat, optIn' \in BOOLEAN, row' \in Phases,
             report' \in {"none", "FINISH", "STOP"}, rc' \in [Tasks -> RcType],
             gate' \in GateType, audioLock' \in BOOLEAN, UNCHANGED <<job, jobs>>,
             faults' \in 0 .. MaxFaults, hist' \in HistType
      PROVE  CommandTypeOK' /\ job' = job
  BY <1>0, <1>3, TypesFrom
<1>4. faults < MaxFaults /\ faults' = faults + 1 => faults' \in 0 .. MaxFaults
  BY <1>0, CommandAssumption DEF CommandAssumption
<1>5. CASE UnlockAudio
  <2>1. radio' \in RadioType
    BY <1>0, <1>5 DEF UnlockAudio, RadioType, Selections
  <2> QED BY <1>0, <1>3, <1>5, <2>1 DEF UnlockAudio
<1>6. CASE ProviderServes
  <2>1. radio' \in RadioType
    BY <1>0, <1>6 DEF ProviderServes, RadioType, Selections
  <2>2. row' \in Phases /\ rc' \in [Tasks -> RcType]
    BY <1>0, <1>2, <1>6 DEF ProviderServes, observe_contract
  <2> QED BY <1>0, <1>3, <1>6, <2>1, <2>2 DEF ProviderServes, commandVars
<1>7. CASE ProviderRefuses
  <2>1. radio' \in RadioType
    BY <1>0, <1>7 DEF ProviderRefuses, RadioType, Selections
  <2> QED BY <1>0, <1>3, <1>7, <2>1 DEF ProviderRefuses, commandVars
<1>8. CASE GateExpires
  <2>1. gate' \in GateType
    BY <1>0, <1>8 DEF GateExpires, GateType
  <2> QED BY <1>0, <1>3, <1>8, <2>1 DEF GateExpires
<1>9. CASE Firmware
  <2>1. radio' \in RadioType
    BY <1>0, <1>9, RadioTypes DEF Firmware, FirmwareActivates
  <2> QED BY <1>0, <1>3, <1>9, <2>1 DEF Firmware, FirmwareActivates, Quiet
<1>10. CASE Outside
  <2>1. radio' \in RadioType /\ target' \in Nat
    <3>1. CASE target' = target + 1 /\ UNCHANGED radio
      BY <1>0, <3>1
    <3>2. CASE UNCHANGED target /\ (radio' = [radio EXCEPT !.vol = "high"] \/ radio' = [radio EXCEPT !.mute = ~@])
      BY <1>0, <3>2 DEF RadioType
    <3>3. CASE UNCHANGED target /\ \E x \in {"standby", "other", "stopped"} :
                                     radio' = [radio EXCEPT !.sel = x, !.pend = FALSE]
      BY <1>0, <3>3 DEF RadioType, Selections
    <3>4. CASE UNCHANGED target /\ radio' = [radio EXCEPT !.zone = 1 - @]
      <4>1. 1 - radio.zone \in 0 .. 1
        BY <1>0 DEF RadioType
      <4> QED BY <1>0, <3>4, <4>1 DEF RadioType
    <3> QED BY <1>10, <3>1, <3>2, <3>3, <3>4 DEF Outside, OutsideChange
  <2>2. hist' \in HistType
    BY <1>10, HistTypes DEF Outside
  <2>3. faults' \in 0 .. MaxFaults
    BY <1>4, <1>10 DEF Outside
  <2> QED BY <1>0, <1>3, <1>10, <2>1, <2>2, <2>3 DEF Outside, reconnectVars, Quiet
<1>11. CASE Preference
  <2>1. row' \in Phases /\ rc' \in [Tasks -> RcType] /\ optIn' \in BOOLEAN
        /\ UNCHANGED <<report, radio, target>>
    BY <1>1, <1>11 DEF Preference, save_preference
  <2>2. hist' \in HistType /\ faults' \in 0 .. MaxFaults
    BY <1>4, <1>11, HistTypes DEF Preference
  <2> QED BY <1>0, <1>3, <1>11, <2>1, <2>2 DEF Preference, Quiet
<1>12. CASE Report
  <2>1. row' \in Phases /\ rc' \in [Tasks -> RcType]
    BY <1>0, <1>1, <1>2, <1>12 DEF Report, observe_report
  <2> QED BY <1>0, <1>3, <1>12, <2>1 DEF Report, observe_report, Quiet
<1>13. CASE Ends
  <2>1. radio' \in RadioType /\ report' \in {"none", "FINISH", "STOP"}
    BY <1>0, <1>13 DEF Ends, StreamEnds, StopReported, RadioType, Selections
  <2> QED BY <1>0, <1>3, <1>13, <2>1 DEF Ends, StreamEnds, StopReported, Quiet
<1>14. CASE Restarts
  <2>1. rc' \in [Tasks -> RcType]
    BY <1>2, <1>14 DEF Restarts, CloudRestarts
  <2>2. hist' \in HistType
    BY <1>14, HistTypes DEF Restarts
  <2> QED BY <1>0, <1>3, <1>14, <2>1, <2>2 DEF Restarts, CloudRestarts, Quiet
<1>15. CASE \E t \in Tasks : RcStep(t)
  <2> PICK t \in Tasks : RcStep(t)
    BY <1>15
  <2>0. rc[t] \in RcType
    BY <1>0
  <2>1. CASE RcRead(t) /\ UNCHANGED <<faults, hist>> /\ Quiet
    <3>1. rc' \in [Tasks -> RcType]
      BY <1>0, <1>2, <2>0, <2>1 DEF RcRead, RcType, RcHolding
    <3> QED BY <1>0, <1>3, <2>1, <3>1 DEF RcRead, Quiet
  <2>2. CASE RcClaim(t) /\ UNCHANGED <<faults, hist>> /\ Quiet
    <3>1. rc' \in [Tasks -> RcType]
      BY <1>0, <1>2, <2>0, <2>2 DEF RcClaim, RcType, RcHolding
    <3> QED BY <1>0, <1>2, <1>3, <2>2, <3>1 DEF RcClaim, Quiet
  <2>3. CASE RcPost(t) /\ hist' = [hist EXCEPT !.by = "other"] /\ UNCHANGED faults /\ Quiet
    <3>1. rc' \in [Tasks -> RcType]
      BY <1>0, <2>0, <2>3 DEF RcPost, RcType, RcHolding
    <3>2. radio' \in RadioType
      BY <1>0, <2>3, RadioTypes DEF RcPost
    <3> QED BY <1>0, <1>3, <2>3, <3>1, <3>2, HistTypes DEF RcPost, Quiet
  <2>4. CASE RcEnd(t) /\ Ended /\ UNCHANGED faults /\ Quiet
    <3>1. rc' \in [Tasks -> RcType] /\ row' \in Phases
      BY <1>0, <1>2, <2>4 DEF RcEnd
    <3> QED BY <1>0, <1>3, <2>4, <3>1, HistTypes DEF RcEnd, Quiet
  <2> QED BY <2>1, <2>2, <2>3, <2>4 DEF RcStep
<1>16. CASE ProviderServesUnknown
  <2>1. radio' \in RadioType
    BY <1>0, <1>16 DEF ProviderServesUnknown, RadioType, Selections
  <2>2. hist' \in HistType
    BY <1>16, HistTypes DEF ProviderServesUnknown
  <2> QED BY <1>0, <1>3, <1>16, <2>1, <2>2 DEF ProviderServesUnknown, commandVars
<1> QED BY <1>5, <1>6, <1>7, <1>8, <1>9, <1>10, <1>11, <1>12, <1>13, <1>14, <1>15, <1>16 DEF Beside

\* Every step is one of the steps above.
LEMMA NextCases ==
  ASSUME Next
  PROVE  \/ \E k \in AllKinds, grouped \in BOOLEAN : Begin(k, grouped)
         \/ Open \/ Recheck \/ Intend \/ Poll
         \/ Skip \/ Arm \/ Arrive \/ Verify \/ Clear
         \/ Readback \/ Unread
         \/ Fallback
         \/ \E reply \in {"ok", "lost", "rejected"} : Send(reply)
         \/ \E reply \in {"ok", "lost", "rejected"} : LetGo(reply)
         \/ Finish \/ Fail \/ Crash
         \/ Beside
<1>1. (\E k \in (IF optIn THEN OptInKinds ELSE Kinds), grouped \in BOOLEAN : Begin(k, grouped)) =>
        \E k \in AllKinds, grouped \in BOOLEAN : Begin(k, grouped)
  BY CommandAssumption DEF CommandAssumption
<1> QED BY <1>1 DEF Next, JobStep, Beside

\* The tallies of the command, its program and the types are kept.
LEMMA LedgerKept ==
  ASSUME LedgerInv, [Next]_vars
  PROVE  LedgerInv'
<1>0. CommandTypeOK /\ job \in JobType
  BY Known DEF LedgerInv
<1>1. CASE UNCHANGED vars
  <2>1. CommandTypeOK'
    BY <1>0, <1>1 DEF vars, CommandTypeOK, RadioTypeOK, ReconnectTypeOK
  <2>2. JobInv'
    BY <1>1 DEF vars, LedgerInv, JobInv, Tallies, LostEnds, Running
  <2> QED BY <2>1, <2>2 DEF LedgerInv
<1>2. CASE Beside
  <2>1. CommandTypeOK' /\ job' = job
    BY <1>0, <1>2, BesideKeeps
  <2>2. JobInv'
    BY <2>1 DEF LedgerInv, JobInv, Tallies, LostEnds, Running
  <2> QED BY <2>1, <2>2 DEF LedgerInv
<1>3. CASE Next /\ ~Beside
  <2>1. job' \in JobType /\ JobInv'
    BY <1>3, NextCases, ReadingSteps, LocalSteps, ReadSteps, FallbackStep, SendStep, LetGoStep,
       BeginStep, EndSteps
  <2>2. JobStep \/ Crash \/ \E k \in AllKinds, grouped \in BOOLEAN : Begin(k, grouped)
    BY <1>3, NextCases DEF JobStep
  <2> QED BY <1>0, <2>1, <2>2, CommandTypes DEF LedgerInv
<1> QED BY <1>1, <1>2, <1>3

\* The initial state.
LEMMA LedgerFirst ==
  ASSUME Init
  PROVE  LedgerInv
<1>1. NoJob \in JobType
  BY CommandAssumption DEF NoJob, JobType, CommandAssumption, Blank, Snapshots, Selections
<1>2. radio \in RadioType /\ target \in Nat
  <2>1. /\ radio \in [sel : {"standby", "other", "playing"}, vol : {"high"}, mute : BOOLEAN,
                       zone : 0 .. 1, pend : {FALSE}]
        /\ target = 0
    BY DEF Init, RadioInit
  <2>2. /\ {"standby", "other", "playing"} \subseteq Selections /\ {FALSE} \subseteq BOOLEAN
    BY DEF Selections
  <2> QED BY <2>1, <2>2 DEF RadioType
<1>3. rc \in [Tasks -> RcType] /\ row \in Phases /\ optIn \in BOOLEAN
      /\ report \in {"none", "FINISH", "STOP"}
  <2>1. Idle \in RcType
    BY DEF Idle, RcType, Blank, Snapshots, Selections
  <2> QED BY <2>1, CommandAssumption DEF Init, ReconnectInit, Phases, CommandAssumption
<1>4. gate \in GateType /\ hist \in HistType /\ audioLock \in BOOLEAN
      /\ jobs \in 0 .. MaxJobs /\ faults \in 0 .. MaxFaults
  <2>1. gate \in GateType /\ audioLock \in BOOLEAN
    BY GateTypes DEF Init
  <2>2. hist \in HistType
    BY DEF Init, HistType
  <2> QED BY <2>1, <2>2, CommandAssumption DEF Init, CommandAssumption
<1>5. CommandTypeOK
  BY <1>1, <1>2, <1>3, <1>4 DEF Init, CommandTypeOK, RadioTypeOK, ReconnectTypeOK, RadioType, RcType,
                              JobType, HistType, GateType
<1>6. /\ job.pc = "none" /\ job.outcome = "LOST" /\ job.intents = 0 /\ job.writes = 0
      /\ ~job.armed /\ ~job.sent /\ ~job.lost
  BY DEF Init, NoJob
<1>7. ~Running
  BY <1>6 DEF Running
<1> QED BY <1>5, <1>6, <1>7 DEF LedgerInv, JobInv, Tallies, LostEnds

\* For any commands, number of commands, readings, faults and reconnect tasks,
\* every state has the declared types (CommandTypeOK), and the intents, writes and
\* remaining steps of a command agree: this is what the rest builds on.
THEOREM CommandInvariant == Spec => []LedgerInv
<1>1. Init => LedgerInv
  BY LedgerFirst
<1>2. LedgerInv /\ [Next]_vars => LedgerInv'
  BY LedgerKept
<1> QED BY <1>1, <1>2, PTL DEF Spec

\* One step of a command or beside it is one step of the ledger.
LEMMA LedgerStep ==
  ASSUME LedgerInv, [Next]_vars
  PROVE  [Ledger!LedgerNext]_<<job.intents, job.writes, job.outcome>>
<1>0. job \in JobType /\ Tallies
  BY Known
<1>1. CASE UNCHANGED vars \/ Beside
  BY <1>1, BesideKeeps DEF vars, LedgerInv
<1>2. CASE \E k \in AllKinds, grouped \in BOOLEAN : Begin(k, grouped)
  <2>1. /\ job'.intents \in 0 .. 1 /\ job'.writes = 0 /\ job'.outcome = "open"
        /\ job.writes = 0 /\ job.outcome # "open"
    BY <1>2, BeginStep
  <2>2. Ledger!Begin
    BY <2>1 DEF Ledger!Begin
  <2> QED BY <2>2 DEF Ledger!LedgerNext
<1>3. CASE Intend
  <2>1. job.pc = "check" /\ job' = [job EXCEPT !.intents = job.intents + 1,
                              !.pc = IF job.kind = "setting" THEN "send" ELSE "recheck"]
    BY <1>3 DEF Intend, At
  <2>2. job'.intents = job.intents + 1 /\ job'.writes = job.writes /\ job'.outcome = job.outcome
    BY <1>0, <2>1 DEF JobType
  <2>3. job.outcome = "open" /\ job.intents = job.writes
    BY <1>0, <2>1 DEF Tallies
  <2>4. Ledger!Intend
    BY <2>2, <2>3 DEF Ledger!Intend
  <2> QED BY <2>4 DEF Ledger!LedgerNext
<1>4. CASE \E reply \in {"ok", "lost", "rejected"} : Send(reply)
  <2>1. /\ job'.writes = job.writes + 1 /\ job'.intents = job.intents
        /\ job.pc = "send" /\ job'.outcome = "open" /\ job.outcome = "open"
    BY <1>4, SendStep
  <2>2. job.writes < job.intents
    BY <1>0, <2>1 DEF Tallies, JobType
  <2>3. Ledger!Write
    BY <2>1, <2>2 DEF Ledger!Write
  <2> QED BY <2>3 DEF Ledger!LedgerNext
<1>5. ASSUME job' \in JobType, job.outcome = "open", job'.intents = 0, job'.writes = 0,
             job'.outcome # "open",
             job'.outcome \in {"BLOCKED", "UNCHANGED"} => job.writes = 0,
             job'.outcome \in {"VERIFIED", "PENDING", "DIVERGED"} => job.writes > 0
      PROVE  Ledger!LedgerNext
  <2>1. job'.outcome \in Ledger!Outcomes \ {"open"}
    BY <1>5 DEF Ledger!Outcomes, JobType
  <2>2. Ledger!End(job'.outcome)
    BY <1>5, <2>1 DEF Ledger!End
  <2> QED BY <2>1, <2>2 DEF Ledger!LedgerNext
<1>6. CASE Finish \/ Fail \/ Crash
  BY <1>5, <1>6, EndSteps
<1>7. CASE Skip /\ job.kind = "setting"
  <2>1. job.pc = "check" /\ Running /\ Step \in WriteSteps
        /\ job' = [NoJob EXCEPT !.kind = job.kind, !.outcome = "UNCHANGED"]
    BY <1>7 DEF Skip, At, Running
  <2>2. job.writes = 0 /\ job.outcome = "open"
    <3>1. NextIn(job.todo, WriteSteps) /\ job.writes \in Nat
      BY <1>0, <2>1, NextStep DEF JobType
    <3> QED BY <1>0, <1>7, <2>1, <3>1 DEF Tallies, Simple
  <2>3. job' \in JobType
    BY <1>7, LocalSteps
  <2>4. job'.intents = 0 /\ job'.writes = 0 /\ job'.outcome = "UNCHANGED"
    BY <2>1 DEF NoJob
  <2> QED BY <1>5, <2>2, <2>3, <2>4
<1>8. CASE \/ Open \/ Recheck \/ Poll \/ (Skip /\ job.kind # "setting") \/ Arm \/ Arrive \/ Verify
           \/ Clear \/ Readback \/ Unread \/ Fallback
           \/ \E reply \in {"ok", "lost", "rejected"} : LetGo(reply)
  <2>1. job'.intents = job.intents /\ job'.writes = job.writes /\ job'.outcome = job.outcome
    <3>1. CASE Open \/ Recheck \/ Poll
      BY <1>0, <3>1 DEF Open, Recheck, Poll, JobType
    <3>2. CASE (Skip /\ job.kind # "setting") \/ Arm \/ Arrive \/ Verify \/ Clear
      BY <1>0, <3>2 DEF Skip, Arm, Arrive, Verify, Clear, Advance, JobType
    <3>3. CASE Readback \/ Unread \/ Fallback
      BY <1>0, <3>3 DEF Readback, Unread, Fallback, JobType
    <3>4. CASE \E reply \in {"ok", "lost", "rejected"} : LetGo(reply)
      BY <3>4, LetGoStep
    <3> QED BY <1>8, <3>1, <3>2, <3>3, <3>4
  <2> QED BY <2>1
<1> QED BY <1>1, <1>2, <1>3, <1>4, <1>6, <1>7, <1>8, NextCases

\* Every command keeps the ledger all radio services promise (LedgerSpec): no write
\* without an intent stored before it, one write for one intent, and an outcome that
\* admits a write exactly when a request has left.
THEOREM LedgerHolds == Spec => LedgerSpec
<1>1. Init => Ledger!LedgerInit
  BY DEF Init, NoJob, Ledger!LedgerInit
<1>2. LedgerInv /\ [Next]_vars => [Ledger!LedgerNext]_<<job.intents, job.writes, job.outcome>>
  BY LedgerStep
<1> QED BY <1>1, <1>2, CommandInvariant, PTL DEF Spec, LedgerSpec, Ledger!LedgerSpec, Ledger!ledgerVars

\* A request that leaves after an answer was lost belongs to a shutdown.
LEMMA QuietStep ==
  ASSUME LedgerInv, [Next]_vars, job.lost, job'.outcome = "open", job'.writes > job.writes
  PROVE  job.todo # <<>> /\ job.todo[Len(job.todo)] = "raise"
<1>0. job \in JobType /\ Tallies /\ LostEnds /\ job.writes \in Nat
  BY Known DEF JobType
<1>1. \E reply \in {"ok", "lost", "rejected"} : Send(reply)
  <2> SUFFICES ASSUME ~\E reply \in {"ok", "lost", "rejected"} : Send(reply) PROVE FALSE
    OBVIOUS
  <2>1. CASE UNCHANGED vars \/ Beside
    <3>1. job' = job
      BY <2>1, BesideKeeps DEF vars, LedgerInv
    <3> QED BY <1>0, <3>1
  <2>2. CASE \E k \in AllKinds, grouped \in BOOLEAN : Begin(k, grouped)
    BY <1>0, <2>2, BeginStep
  <2>3. CASE Finish \/ Fail \/ Crash
    BY <2>3, EndSteps
  <2>4. CASE Open \/ Recheck \/ Intend \/ Poll
    <3>1. job'.writes = job.writes
      BY <1>0, <2>4 DEF Open, Recheck, Intend, Poll, JobType
    <3> QED BY <1>0, <3>1
  <2>5. CASE Skip \/ Arm \/ Arrive \/ Verify \/ Clear
    <3>1. job'.writes = job.writes \/ job'.writes = 0
      BY <1>0, <2>5 DEF Skip, Arm, Arrive, Verify, Clear, Advance, JobType, NoJob
    <3> QED BY <1>0, <3>1
  <2>6. CASE Readback \/ Unread \/ Fallback
    <3>1. job'.writes = job.writes
      BY <1>0, <2>6 DEF Readback, Unread, Fallback, JobType
    <3> QED BY <1>0, <3>1
  <2>7. CASE \E reply \in {"ok", "lost", "rejected"} : LetGo(reply)
    <3>1. job'.writes = job.writes
      BY <2>7, LetGoStep
    <3> QED BY <1>0, <3>1
  <2> QED BY <2>1, <2>2, <2>3, <2>4, <2>5, <2>6, <2>7, NextCases
<1>2. job.pc = "send" /\ Running /\ job.writes > 0
  <2>1. job.pc = "send"
    BY <1>1 DEF Send, At
  <2> QED BY <1>0, <2>1 DEF Running, Tallies
<1>3. NextIn(job.todo, WriteSteps) /\ Len(job.todo) >= 1
  BY <1>0, <1>2 DEF Tallies, NextIn
<1>4. job.kind \notin Simple
  BY <1>0, <1>2, <1>3 DEF Tallies
<1>5. job.todo[1] \in WriteSteps /\ 1 \in 1..Len(job.todo)
  BY <1>2, <1>3, NextStep DEF NextIn
<1>6. job.kind = "station" /\ job.todo[Len(job.todo)] = "raise"
  BY <1>0, <1>2, <1>3, <1>4, <1>5 DEF LostEnds
<1> QED BY <1>3, <1>6

\* After an answer that was lost or refused no command writes any more, except to
\* shut down a rejected safe selection (QuietAfterLost), whatever the order of
\* answers, readings, outside changes and crashes.
THEOREM QuietAfterLostHolds == Spec => QuietAfterLost
<1>1. LedgerInv /\ [Next]_vars =>
        [job.lost /\ job'.outcome = "open" /\ job'.writes > job.writes
           => job.todo # <<>> /\ job.todo[Len(job.todo)] = "raise"]_vars
  BY QuietStep
<1> QED BY <1>1, CommandInvariant, PTL DEF Spec, QuietAfterLost

-----------------------------------------------------------------------------
(***************************************************************************)
(* Revoked reconnects                                                      *)
(***************************************************************************)

\* A new generation of the row disowns every task, if there is a row at all.
LEMMA Disowns ==
  ASSUME CommandTypeOK, Revocation, cancel
  PROVE  /\ \A t \in Tasks : ~rc'[t].mine /\ rc'[t].pc = rc[t].pc
<1>1. rc \in [Tasks -> RcType]
  BY TypesTo
<1>2. CASE row = "none"
  BY <1>2 DEF cancel, Revocation
<1>3. CASE row # "none"
  <2>1. rc' = Disowned
    BY <1>3 DEF cancel
  <2> QED BY <1>1, <2>1 DEF Disowned, RcType
<1> QED BY <1>2, <1>3

\* A task that was revoked never owns the row again.
LEMMA RevocationKept ==
  ASSUME CommandTypeOK, Revocation, [Next]_vars
  PROVE  Revocation'
<1>0. rc \in [Tasks -> RcType] /\ hist \in HistType
  BY TypesTo
<1>1. ASSUME cancel, hist'.revoked \in {{t \in Tasks : rc[t].pc # "idle"}, hist.revoked}
      PROVE  Revocation'
  <2>1. \A t \in Tasks : ~rc'[t].mine /\ rc'[t].pc = rc[t].pc
    BY <1>1, Disowns
  <2> QED BY <1>1, <2>1 DEF Revocation
<1>2. ASSUME UNCHANGED <<row, rc>>, hist'.revoked = hist.revoked
      PROVE  Revocation'
  BY <1>2 DEF Revocation
<1>3. Revoked.revoked = {t \in Tasks : rc[t].pc # "idle"} /\ Revoked \in HistType
  BY <1>0 DEF Revoked, HistType
<1>4. \A h \in HistType : /\ Credited(h).revoked = h.revoked
                          /\ \A k : Forget(h, k).revoked = h.revoked
  <2>1. ASSUME NEW h \in HistType
        PROVE  Credited(h).revoked = h.revoked
    BY <2>1 DEF Credited, HistType
  <2>2. ASSUME NEW h \in HistType, NEW k
        PROVE  Forget(h, k).revoked = h.revoked
    BY <2>2 DEF Forget, HistType
  <2> QED BY <2>1, <2>2
<1>5. CASE \E k \in AllKinds, grouped \in BOOLEAN : Begin(k, grouped)
  <2> PICK k \in AllKinds, grouped \in BOOLEAN : Begin(k, grouped)
    BY <1>5
  <2>1. \/ cancel /\ hist' = Forget(Revoked, k)
        \/ UNCHANGED <<row, rc>> /\ hist' = Forget(hist, k)
    BY DEF Begin
  <2> QED BY <1>0, <1>1, <1>2, <1>3, <1>4, <2>1
<1>6. CASE \E reply \in {"ok", "lost", "rejected"} : Send(reply)
  <2>1. \/ cancel /\ hist' = Credited(Revoked)
        \/ UNCHANGED <<row, rc>> /\ hist' = Credited(hist)
    BY <1>6 DEF Send
  <2> QED BY <1>0, <1>1, <1>2, <1>3, <1>4, <2>1
<1>7. CASE Intend \/ Finish \/ \E reply \in {"ok", "lost", "rejected"} : LetGo(reply)
  <2>1. (cancel /\ hist' = Revoked) \/ UNCHANGED <<row, rc, hist>>
    BY <1>7 DEF Intend, Finish, LetGo
  <2> QED BY <1>1, <1>2, <1>3, <2>1
<1>8. CASE Preference
  <2>1. cancel /\ hist' = Revoked
    BY <1>8 DEF Preference, save_preference
  <2> QED BY <1>1, <1>3, <2>1
<1>9. CASE UNCHANGED <<row, rc, hist>>
  BY <1>2, <1>9
<1>10. CASE Outside \/ ProviderServesUnknown
  BY <1>0, <1>2, <1>10 DEF Outside, ProviderServesUnknown, reconnectVars, HistType
<1>11. CASE ProviderServes
  <2>1. CASE UNCHANGED <<row, rc>>
    BY <1>2, <1>11, <2>1 DEF ProviderServes
  <2>2. CASE row' = "ARMED" /\ rc' = Disowned
    <3>1. \A t \in Tasks : ~rc'[t].mine /\ rc'[t].pc = rc[t].pc
      BY <1>0, <2>2 DEF Disowned, RcType
    <3> QED BY <1>11, <3>1 DEF ProviderServes, Revocation
  <2> QED BY <1>11, <2>1, <2>2 DEF ProviderServes, observe_contract
<1>12. CASE Report
  <2>0. hist' = hist
    BY <1>12 DEF Report
  <2>1. CASE UNCHANGED <<row, rc>>
    BY <1>2, <2>0, <2>1
  <2>2. CASE row' = "CANCELLED" /\ UNCHANGED rc
    BY <2>0, <2>2 DEF Revocation
  <2>3. CASE /\ row' = "PENDING"
             /\ \E t \in Tasks :
                  /\ rc[t].pc = "idle"
                  /\ rc' = [rc EXCEPT ![t] = [Idle EXCEPT !.pc = "sleep", !.mine = TRUE]]
    <3> PICK t \in Tasks : /\ rc[t].pc = "idle"
                           /\ rc' = [rc EXCEPT ![t] = [Idle EXCEPT !.pc = "sleep", !.mine = TRUE]]
      BY <2>3
    <3>1. t \notin hist.revoked
      BY DEF Revocation
    <3>2. \A u \in Tasks : u # t => rc'[u] = rc[u]
      BY <1>0
    <3> QED BY <2>0, <2>3, <3>1, <3>2 DEF Revocation
  <2>4. CASE cancel
    BY <1>1, <2>0, <2>4
  <2> QED BY <1>12, <2>1, <2>2, <2>3, <2>4 DEF Report, observe_report
<1>13. CASE Restarts
  <2>1. rc' = [t \in Tasks |-> Idle] /\ row' = row
        /\ hist' = [hist EXCEPT !.revoked = {t \in hist.revoked : rc'[t].pc # "idle"}]
    BY <1>13 DEF Restarts, CloudRestarts, Ended
  <2>2. \A t \in Tasks : rc'[t].pc = "idle" /\ ~rc'[t].mine
    BY <2>1 DEF Idle
  <2>3. hist'.revoked = {t \in hist.revoked : rc'[t].pc # "idle"}
    BY <1>0, <2>1 DEF HistType
  <2> QED BY <2>2, <2>3 DEF Revocation
<1>14. CASE \E t \in Tasks : RcStep(t)
  <2> PICK t \in Tasks : RcStep(t)
    BY <1>14
  <2>1. CASE RcRead(t) \/ RcClaim(t) \/ RcPost(t)
    <3>1. /\ \A u \in Tasks : rc'[u].mine = rc[u].mine /\ (rc[u].pc # "idle" => rc'[u].pc # "idle")
          /\ row' = row \/ row' = "ATTEMPTED"
      BY <1>0, <2>1 DEF RcRead, RcClaim, RcPost, RcType
    <3>2. hist'.revoked = hist.revoked \/ RcEnd(t)
      BY <1>0 DEF RcStep, HistType
    <3>3. ~RcEnd(t)
      <4>1. rc'[t].pc # "idle"
        BY <1>0, <2>1 DEF RcRead, RcClaim, RcPost, RcType
      <4>2. RcEnd(t) => rc'[t].pc = "idle"
        BY <1>0 DEF RcEnd, Idle
      <4> QED BY <4>1, <4>2
    <3> QED BY <3>1, <3>2, <3>3 DEF Revocation
  <2>2. CASE RcEnd(t) /\ Ended
    <3>1. /\ rc' = [rc EXCEPT ![t] = Idle] /\ (row' = row \/ row' = "FINISHED")
          /\ hist' = [hist EXCEPT !.revoked = {u \in hist.revoked : rc'[u].pc # "idle"}]
      BY <2>2 DEF RcEnd, Ended
    <3>2. ~rc'[t].mine /\ \A u \in Tasks : u # t => rc'[u] = rc[u]
      BY <1>0, <3>1 DEF Idle
    <3>3. hist'.revoked = {u \in hist.revoked : rc'[u].pc # "idle"}
      BY <1>0, <3>1 DEF HistType
    <3> QED BY <3>1, <3>2, <3>3 DEF Revocation
  <2> QED BY <2>1, <2>2 DEF RcStep
<1> QED BY <1>5, <1>6, <1>7, <1>8, <1>9, <1>10, <1>11, <1>12, <1>13, <1>14, NextCases
       DEF Beside, Open, Skip, Recheck, Readback, Unread, Arm, Poll, Arrive, Verify, Fallback, Clear,
           Fail, Crash, UnlockAudio, ProviderRefuses, GateExpires, Firmware, Ends, StreamEnds,
           StopReported, vars

\* No reconnect selects for a session that a later command, stop, power off,
\* manual command or change of the opt-in has revoked (NoRevival), with any number
\* of tasks that sleep, read, claim and post at the same time.
THEOREM NoRevivalHolds == Spec => NoRevival
<1>1. Init => Revocation
  BY DEF Init, ReconnectInit, Revocation, Idle
<1>2. LedgerInv /\ Revocation /\ [Next]_vars => Revocation'
  BY RevocationKept DEF LedgerInv
<1>3. LedgerInv /\ Revocation /\ [Next]_vars => [\A t \in Tasks : RcPost(t) => t \notin hist.revoked]_vars
  BY DEF Revocation, RcPost, Current
<1> QED BY <1>1, <1>2, <1>3, CommandInvariant, PTL DEF Spec, NoRevival

-----------------------------------------------------------------------------
(***************************************************************************)
(* Audio that a safe command started                                       *)
(***************************************************************************)

\* A safe command whose answer was lost is a station that shuts down.
LEMMA LostSafe ==
  ASSUME LedgerInv, Running, Safe, job.lost
  PROVE  Step \in LostSteps \/ (job.pc = "read" /\ Step = "select")
<1>1. LostEnds /\ 1 \in 1..Len(job.todo) /\ Step = job.todo[1]
  BY Known, NextStep
<1> QED BY <1>1 DEF LostEnds, Safe, SafeKinds, Simple

\* The first step is done and n harmless steps are put in its place.
LEMMA ShiftedRemainder ==
  ASSUME LedgerInv, Running, Safe, SafeRemainder, job.pc \in {"check", "read"}, NEW n \in Nat,
         Len(job'.todo) = n + Len(job.todo) - 1,
         \A i \in 1..Len(job'.todo) : i <= n => job'.todo[i] \in Harmless,
         \A i \in 1..Len(job'.todo) : i > n => job'.todo[i] = job.todo[i - n + 1],
         job'.pc = "check", job'.sent = job.sent,
         n = 0 /\ Step \in {"mute", "release-mute"} => job'.cur.mute
  PROVE  /\ SafeRemainder'
         /\ (\E i \in 1..Len(job'.todo) : job'.todo[i] \in Starts)
              => \E i \in 1..Len(job.todo) : job.todo[i] \in Starts
<1> DEFINE q == job.todo
           r == job'.todo
<1>0. /\ Shape(job.kind, q) /\ Len(q) \in Nat /\ Len(q) >= 1 /\ Step = q[1] /\ job.kind \in SafeKinds
      /\ Len(r) = n + Len(q) - 1
      /\ \A i \in 1..Len(r) : i <= n => r[i] \in Harmless
      /\ \A i \in 1..Len(r) : i > n => r[i] = q[i - n + 1]
  BY NextStep DEF Safe
<1>1. /\ \A i \in 1..Len(q) : q[i] \notin {"stop", "halt", "standby", "wake", "native", "set"}
      /\ \A i \in 1..Len(q) : q[i] \in Starts =>
           /\ i + 1 <= Len(q) /\ q[i + 1] = "depart"
           /\ job.sent => i = 1 /\ job.pc = "read"
           /\ \A j \in 1..Len(q) : q[j] = "arm" => j < i
      /\ \A i \in 1..Len(q) : q[i] = "arm" => ~job.sent
  BY DEF SafeRemainder
<1> HIDE DEF q, r, Step
<1>2. \A x \in Harmless : x \notin Starts /\ x # "arm"
                          /\ x \notin {"stop", "halt", "standby", "wake", "native", "set"}
  BY DEF Harmless, Starts
<1>3. \A i \in 1..Len(r) : i > n => i - n + 1 \in 1..Len(q) /\ i - n + 1 > 1
  BY <1>0
<1>4. \A i \in 1..Len(r) : i <= n \/ i > n
  BY <1>0
<1>5. \A i \in 1..Len(r) : r[i] \notin {"stop", "halt", "standby", "wake", "native", "set"}
  BY <1>0, <1>1, <1>2, <1>3, <1>4
<1>6. ASSUME NEW i \in 1..Len(r), r[i] \in Starts
      PROVE  /\ i + 1 <= Len(r) /\ r[i + 1] = "depart" /\ ~job.sent
             /\ \A j \in 1..Len(r) : r[j] = "arm" => j < i
             /\ i > n /\ q[i - n + 1] \in Starts /\ i - n + 1 \in 1..Len(q)
  <2>1. i > n /\ r[i] = q[i - n + 1] /\ i - n + 1 \in 1..Len(q) /\ i - n + 1 > 1
    BY <1>0, <1>2, <1>3, <1>4, <1>6
  <2>2. /\ (i - n + 1) + 1 <= Len(q) /\ q[(i - n + 1) + 1] = "depart" /\ ~job.sent
        /\ \A j \in 1..Len(q) : q[j] = "arm" => j < i - n + 1
    BY <1>1, <1>6, <2>1
  <2>3. i + 1 \in 1..Len(r) /\ i + 1 > n /\ (i + 1) - n + 1 = (i - n + 1) + 1
    BY <1>0, <2>1, <2>2
  <2>4. r[i + 1] = q[(i + 1) - n + 1]
    BY <1>0, <2>3
  <2>5. ASSUME NEW j \in 1..Len(r), r[j] = "arm"
        PROVE  j < i
    <3>1. j > n /\ r[j] = q[j - n + 1] /\ j - n + 1 \in 1..Len(q)
      BY <1>0, <1>2, <1>3, <1>4, <2>5
    <3>2. j - n + 1 < i - n + 1
      BY <2>2, <2>5, <3>1
    <3> QED BY <3>2
  <2> QED BY <1>6, <2>1, <2>2, <2>3, <2>4, <2>5
<1>7. \A i \in 1..Len(r) : r[i] = "arm" => ~job.sent
  <2> SUFFICES ASSUME NEW i \in 1..Len(r), r[i] = "arm"
               PROVE  ~job.sent
    OBVIOUS
  <2>1. i > n /\ i - n + 1 \in 1..Len(q)
    BY <1>0, <1>2, <1>3, <1>4
  <2>2. q[i - n + 1] = "arm"
    BY <1>0, <2>1
  <2> QED BY <1>1, <2>1, <2>2
<1>8. NextIn(r, Starts) => job'.cur.mute
  <2> SUFFICES ASSUME NextIn(r, Starts)
               PROVE  job'.cur.mute
    OBVIOUS
  <2>1. 1 \in 1..Len(r) /\ r[1] \in Starts
    BY <1>0 DEF NextIn
  <2>2. n = 0 /\ q[1 - n + 1] \in Starts /\ 1 - n + 1 \in 1..Len(q)
    BY <1>6, <2>1
  <2>3. q[2] \in Starts /\ 2 \in 1..Len(q)
    BY <2>2
  <2>4. q[2 - 1] \in {"mute", "release-mute"}
    BY <1>0, <2>3 DEF Shape
  <2> QED BY <1>0, <2>2, <2>4
<1>9. SafeRemainder'
  <2>1. r = job'.todo
    BY DEF r
  <2> QED BY <1>5, <1>6, <1>7, <1>8, <2>1 DEF SafeRemainder
<1> QED BY <1>6, <1>9 DEF q, r

\* A step of a command that leaves radio, gate and history alone.
LEMMA Proceeds ==
  ASSUME AudioInv, Running, Running', UNCHANGED radio, gate'.state = gate.state,
         hist'.by = hist.by, hist'.touched = hist.touched,
         job'.kind = job.kind, job'.before = job.before, job'.sent = job.sent,
         job'.armed = job.armed, job'.lost = job.lost, job'.pc # "none",
         (\E i \in 1..Len(job'.todo) : job'.todo[i] \in Starts)
            => \E i \in 1..Len(job.todo) : job.todo[i] \in Starts,
         Safe /\ ~job.lost => SafeRemainder',
         Starting' /\ ~hist.touched /\ radio.sel = "playing" => radio.mute,
         Safe /\ Answers /\ job.sent => Steady'
  PROVE  AudioInv'
<1>1. /\ SafeProgram /\ GateOwned /\ BeforeStart /\ AfterStart /\ Audio
      /\ Safe' = Safe /\ Answers' = Answers
  BY DEF AudioInv, Safe, Answers
<1>2. SafeProgram'
  BY <1>1 DEF SafeProgram
<1>3. GateOwned'
  BY <1>1 DEF GateOwned
<1>4. BeforeStart'
  BY <1>1 DEF BeforeStart
<1>5. AfterStart'
  BY <1>1 DEF AfterStart
<1>6. Audio'
  BY <1>1 DEF Audio
<1> QED BY <1>2, <1>3, <1>4, <1>5, <1>6 DEF AudioInv

\* A command that has ended: the gate is as it was, or has failed.
LEMMA AudioEnded ==
  ASSUME AudioInv, UNCHANGED radio, gate'.state \in {gate.state, "FAILED"},
         hist'.by = hist.by, hist'.touched = hist.touched, job'.pc = "none", ~job'.armed
  PROVE  AudioInv'
<1>1. ~Running' /\ ~Starting'
  BY DEF Running, Starting
<1>2. Audio'
  BY DEF AudioInv, Audio, Answers
<1> QED BY <1>1, <1>2 DEF AudioInv, SafeProgram, GateOwned, BeforeStart, AfterStart

\* Facts about a running safe command that the steps below share.
LEMMA SafeFacts ==
  ASSUME LedgerInv, AudioInv, Running
  PROVE  /\ \A S : NextIn(job.todo, S) <=> Step \in S
         /\ Safe /\ ~job.lost => SafeRemainder
         /\ Safe /\ job.sent => ~job.lost
         /\ Safe /\ Answers /\ job.sent => Steady
         /\ Safe /\ Answers /\ job.sent /\ job.pc \notin {"read", "check"} => Settled
         /\ Safe /\ Answers /\ job.sent /\ job.pc = "check" /\ Step # "depart" =>
              Settled /\ job.cur.sel # "standby" /\ radio.vol = job.cur.vol
         /\ Safe /\ Answers /\ ~job.lost => job.sent
         /\ Step \in {"arm", "verify", "clear", "mute", "unmute"} => Safe
         /\ Safe => job.kind \notin Simple \cup {"plain", "timer"}
<1>1. \A S : NextIn(job.todo, S) <=> Step \in S
  BY NextStep
<1>2. /\ Safe /\ ~job.lost => SafeRemainder
      /\ Safe /\ job.sent => ~job.lost
      /\ Safe /\ Answers /\ job.sent => Steady
      /\ Safe /\ Answers /\ ~job.lost => job.sent
  BY DEF AudioInv, SafeProgram, AfterStart
<1>3. Safe /\ Answers /\ job.sent /\ job.pc \notin {"read", "check"} => Settled
  BY <1>2 DEF Steady
<1>4. Safe /\ Answers /\ job.sent /\ job.pc = "check" /\ Step # "depart" =>
        Settled /\ job.cur.sel # "standby" /\ radio.vol = job.cur.vol
  BY <1>1, <1>2 DEF Steady
<1>5. Step \in {"arm", "verify", "clear", "mute", "unmute"} => Safe
  <2>1. Shape(job.kind, job.todo) /\ 1 \in 1..Len(job.todo) /\ Step = job.todo[1]
    BY NextStep
  <2> QED BY <2>1 DEF Shape, Safe
<1>6. Safe => job.kind \notin Simple \cup {"plain", "timer"}
  BY DEF Safe, SafeKinds, Simple
<1> QED BY <1>1, <1>2, <1>3, <1>4, <1>5, <1>6

\* Readings and intents: Open, Recheck, Intend and Poll.
LEMMA AudioReadings ==
  ASSUME LedgerInv, AudioInv, Open \/ Recheck \/ Intend \/ Poll
  PROVE  AudioInv'
<1>0. job \in JobType /\ hist \in HistType /\ Snap.sel = radio.sel /\ Snap.vol = radio.vol
      /\ Snap.mute = radio.mute
  BY Known, TypesTo, RadioTypes DEF LedgerInv
<1>1. /\ Running /\ Running' /\ job'.pc # "none" /\ UNCHANGED <<radio, gate>>
      /\ hist'.by = hist.by /\ hist'.touched = hist.touched
  <2>1. CASE Open \/ Recheck \/ Poll
    BY <1>0, <2>1 DEF Open, Recheck, Poll, At, Running, JobType
  <2>2. CASE Intend
    <3>1. job.pc = "check" /\ job'.pc \in {"send", "recheck"} /\ UNCHANGED <<radio, gate>>
          /\ (hist' = Revoked \/ hist' = hist)
      BY <1>0, <2>2 DEF Intend, At, JobType
    <3>2. Revoked.by = hist.by /\ Revoked.touched = hist.touched
      BY <1>0 DEF Revoked, HistType
    <3> QED BY <3>1, <3>2 DEF Running
  <2> QED BY <2>1, <2>2
<1>2. /\ job'.kind = job.kind /\ job'.before = job.before /\ job'.sent = job.sent
      /\ job'.armed = job.armed /\ job'.lost = job.lost /\ job'.todo = job.todo
  BY <1>0 DEF Open, Recheck, Intend, Poll, JobType
<1>3. /\ \A S : NextIn(job.todo, S) <=> Step \in S
      /\ Safe /\ ~job.lost => SafeRemainder
      /\ Safe /\ job.sent => ~job.lost
      /\ Safe /\ Answers /\ job.sent => Steady
      /\ Safe /\ Answers /\ job.sent /\ job.pc \notin {"read", "check"} => Settled
      /\ Safe /\ Answers /\ job.sent /\ job.pc = "check" /\ Step # "depart" =>
           Settled /\ job.cur.sel # "standby" /\ radio.vol = job.cur.vol
      /\ Safe => job.kind \notin Simple \cup {"plain", "timer"}
  BY <1>1, SafeFacts
<1> HIDE DEF Step
<1>4. CASE Open
  <2>1. job.pc = "open" /\ job'.pc = "check" /\ job'.cur = Snap /\ (Safe => radio.mute = job.cur.mute)
    BY <1>0, <1>4 DEF Open, At, JobType, Comparable, Safe, SafeKinds
  <2>2. Safe /\ ~job.lost => SafeRemainder'
    BY <1>0, <1>2, <1>3, <2>1 DEF SafeRemainder
  <2>3. Safe /\ Answers /\ job.sent => Steady'
    BY <1>0, <1>1, <1>2, <1>3, <2>1 DEF Steady, Settled
  <2>4. ~Starting'
    BY <2>1 DEF Starting
  <2> QED BY <1>1, <1>2, <2>2, <2>3, <2>4, Proceeds
<1>5. CASE Recheck
  <2>1. job.pc = "recheck" /\ job'.pc = "send" /\ job'.cur = job.cur
        /\ (Safe => radio.mute = job.cur.mute)
    BY <1>0, <1>5 DEF Recheck, At, JobType, Comparable, Safe, SafeKinds
  <2>2. Safe /\ ~job.lost => SafeRemainder'
    BY <1>2, <1>3, <2>1 DEF SafeRemainder
  <2>3. Safe /\ Answers /\ job.sent => Steady'
    BY <1>1, <1>2, <1>3, <2>1 DEF Steady, Settled
  <2>4. Starting' => radio.mute
    <3> SUFFICES ASSUME Starting' PROVE radio.mute
      OBVIOUS
    <3>1. Safe /\ NextIn(job.todo, Starts)
      BY <1>2 DEF Starting, Safe
    <3>2. ~job.lost
      <4>1. Step \in Starts
        BY <1>3, <3>1
      <4> QED BY <1>1, <2>1, <3>1, <4>1, LostSafe DEF LostSteps, Starts
    <3> QED BY <1>3, <2>1, <3>1, <3>2 DEF SafeRemainder
  <2> QED BY <1>1, <1>2, <2>2, <2>3, <2>4, Proceeds
<1>6. CASE Intend
  <2>1. job.pc = "check" /\ Step \in WriteSteps /\ job'.cur = job.cur
        /\ job'.pc = IF job.kind = "setting" THEN "send" ELSE "recheck"
    BY <1>0, <1>6 DEF Intend, At, JobType
  <2>2. Safe => job'.pc = "recheck"
    BY <1>3, <2>1 DEF Simple
  <2>3. Step # "depart"
    BY <2>1 DEF WriteSteps
  <2>4. Safe /\ ~job.lost => SafeRemainder'
    BY <1>2, <1>3, <2>1, <2>2 DEF SafeRemainder
  <2>5. Safe /\ Answers /\ job.sent => Steady'
    BY <1>1, <1>2, <1>3, <2>1, <2>2, <2>3 DEF Steady, Settled
  <2>6. ~Starting'
    BY <1>2, <2>2 DEF Starting, Safe
  <2> QED BY <1>1, <1>2, <2>4, <2>5, <2>6, Proceeds
<1>7. CASE Poll
  <2>1. job.pc = "check" /\ job'.pc = "check" /\ job'.cur = Snap /\ Step \in {"depart", "match"}
    BY <1>0, <1>7 DEF Poll, At, JobType
  <2>2. Safe /\ ~job.lost => SafeRemainder'
    <3>1. ~NextIn(job.todo, Starts)
      BY <1>3, <2>1 DEF Starts
    <3> QED BY <1>2, <1>3, <2>1, <3>1 DEF SafeRemainder
  <2>3. Safe /\ Answers /\ job.sent => Steady'
    <3> SUFFICES ASSUME Safe, Answers, job.sent PROVE Steady'
      OBVIOUS
    <3>1. job.before.sel # "standby" => radio.sel # "standby"
      BY <1>1, <1>3 DEF AudioInv, BeforeStart, Answers
    <3>2. /\ Settled \/ (job.before.sel = "standby" /\ radio.sel = "standby" /\ Step = "depart")
      BY <1>3, <2>1 DEF Steady
    <3> QED BY <1>0, <1>1, <1>2, <1>3, <2>1, <3>1, <3>2 DEF Steady, Settled
  <2>4. ~Starting'
    BY <2>1 DEF Starting
  <2> QED BY <1>1, <1>2, <2>2, <2>3, <2>4, Proceeds
<1> QED BY <1>4, <1>5, <1>6, <1>7

\* The first step is done and nothing takes its place.
LEMMA RestRemainder ==
  ASSUME LedgerInv, AudioInv, job.pc \in {"check", "read"}, Step \notin {"finish", "raise"},
         job'.todo = Rest, job'.pc = "check", job'.sent = job.sent,
         Safe /\ Step \in {"mute", "release-mute"} => job'.cur.mute
  PROVE  /\ Safe /\ ~job.lost => SafeRemainder'
         /\ (\E i \in 1..Len(job'.todo) : job'.todo[i] \in Starts)
              => \E i \in 1..Len(job.todo) : job.todo[i] \in Starts
<1>1. Running
  BY DEF Running
<1>2. /\ Len(Rest) = Len(job.todo) - 1 /\ Len(job.todo) \in Nat
      /\ \A i \in 1..Len(Rest) : Rest[i] = job.todo[i + 1]
  BY <1>1, NextStep
<1> DEFINE r == job'.todo
<1> HIDE DEF Step, Rest
<1>3. /\ Len(r) = 0 + Len(job.todo) - 1
      /\ \A i \in 1..Len(r) : i <= 0 => r[i] \in Harmless
      /\ \A i \in 1..Len(r) : i > 0 => r[i] = job.todo[i - 0 + 1]
  <2>1. \A i \in 1..Len(Rest) : i - 0 + 1 = i + 1 /\ ~(i <= 0)
    BY <1>2
  <2> QED BY <1>2, <2>1
<1>4. \A i \in 1..Len(r) : r[i] = job.todo[i + 1] /\ i + 1 \in 1..Len(job.todo)
  BY <1>2
<1>5. (\E i \in 1..Len(r) : r[i] \in Starts) => \E i \in 1..Len(job.todo) : job.todo[i] \in Starts
  BY <1>4
<1>6. Safe /\ ~job.lost => SafeRemainder
  BY <1>1 DEF AudioInv, SafeProgram
<1>7. Safe /\ ~job.lost => SafeRemainder'
  BY <1>1, <1>3, <1>6, ShiftedRemainder
<1> QED BY <1>5, <1>7

\* Skip and Arrive: a step is left out, or a wait is over.
LEMMA AudioLocal ==
  ASSUME LedgerInv, AudioInv, Skip \/ Arrive
  PROVE  AudioInv'
<1>0. job \in JobType
  BY Known
<1>1. job.pc = "check" /\ Running /\ UNCHANGED <<radio, gate, hist>>
  BY DEF Skip, Arrive, At, Running
<1>2. CASE Skip /\ job.kind = "setting"
  <2>1. job'.pc = "none" /\ ~job'.armed
    BY <1>2 DEF Skip, NoJob
  <2> QED BY <1>1, <2>1, AudioEnded
<1>3. CASE (Skip /\ job.kind # "setting") \/ Arrive
  <2>1. \/ Step \in WriteSteps /\ ~Needed
        \/ Step \in {"depart", "match", "matched"} /\ Awaited
    BY <1>3 DEF Skip, Arrive
  <2>2. Step \notin {"finish", "raise"}
    BY <2>1 DEF WriteSteps
  <2>3. Step \in {"mute", "release-mute"} => job.cur.mute
    BY <2>1 DEF Needed
  <2>4. /\ Safe /\ Answers /\ job.sent => Steady
        /\ Safe /\ Answers /\ job.sent /\ Step # "depart" =>
             Settled /\ job.cur.sel # "standby" /\ radio.vol = job.cur.vol
    BY <1>1, SafeFacts
  <2>5. Step = "depart" => (job.before.sel = "standby" => job.cur.sel # "standby")
    BY <2>1 DEF Awaited, WriteSteps
  <2>6. Safe /\ Answers /\ job.sent => Settled /\ job.cur.sel # "standby" /\ radio.vol = job.cur.vol
    BY <1>1, <2>4, <2>5 DEF Steady
  <2>7. /\ job'.pc = "check" /\ job'.todo = Rest /\ job'.cur = job.cur
        /\ job'.kind = job.kind /\ job'.before = job.before /\ job'.sent = job.sent
        /\ job'.armed = job.armed /\ job'.lost = job.lost
    <3>1. CASE Skip /\ job.kind # "setting"
      BY <1>0, <1>1, <3>1 DEF Skip, JobType
    <3>2. CASE Arrive
      BY <1>0, <1>1, <3>2 DEF Arrive, Advance, JobType
    <3> QED BY <1>3, <3>1, <3>2
  <2>8. /\ Safe /\ ~job.lost => SafeRemainder'
        /\ (\E i \in 1..Len(job'.todo) : job'.todo[i] \in Starts)
             => \E i \in 1..Len(job.todo) : job.todo[i] \in Starts
    BY <1>1, <2>2, <2>3, <2>7, RestRemainder
  <2>9. Running' /\ ~Starting'
    BY <2>7 DEF Running, Starting
  <2>10. Safe /\ Answers /\ job.sent => Steady'
    BY <1>1, <2>6, <2>7 DEF Steady, Settled
  <2> QED BY <1>1, <2>7, <2>8, <2>9, <2>10, Proceeds
<1> QED BY <1>2, <1>3

\* Arm, Verify and Clear: the command changes its gate.
LEMMA AudioGate ==
  ASSUME LedgerInv, AudioInv, Arm \/ Verify \/ Clear
  PROVE  AudioInv'
<1>0. job \in JobType /\ gate \in GateType
  BY Known, TypesTo DEF LedgerInv
<1>1. /\ job.pc = "check" /\ Running /\ UNCHANGED <<radio, hist>> /\ Step \in {"arm", "verify", "clear"}
  BY DEF Arm, Verify, Clear, At, Running
<1>2. Safe /\ Step = job.todo[1] /\ 1 \in 1..Len(job.todo) /\ Shape(job.kind, job.todo)
  BY <1>1, SafeFacts, NextStep
<1>3. ~job.lost /\ SafeRemainder
  <2>1. ~job.lost
    BY <1>1, <1>2, LostSafe DEF LostSteps
  <2> QED BY <1>1, <1>2, <2>1, SafeFacts
<1>4. Answers => /\ job.sent /\ Settled /\ job.cur.sel # "standby" /\ radio.vol = job.cur.vol
                 /\ job.armed \/ gate.state = "none"
                 /\ gate.state \in {"VERIFIED", "none"} => radio.vol = "low"
                 /\ radio.sel = "playing" => radio.vol = "low" \/ radio.mute
  <2>1. Answers => job.sent /\ Settled /\ job.cur.sel # "standby" /\ radio.vol = job.cur.vol
    BY <1>1, <1>2, <1>3, SafeFacts
  <2> QED BY <1>1, <1>2, <2>1 DEF AudioInv, AfterStart, Audio
<1>5. /\ job'.pc = "check" /\ job'.todo = Rest /\ job'.cur = job.cur
      /\ job'.kind = job.kind /\ job'.before = job.before /\ job'.sent = job.sent
      /\ job'.lost = job.lost
      /\ Step = "arm" => job'.armed = TRUE
      /\ Step = "verify" => job'.armed = job.armed
      /\ Step = "clear" => job'.armed = FALSE
  <2>1. CASE Arm
    BY <1>0, <1>1, <2>1 DEF Arm, JobType
  <2>2. CASE Verify
    BY <1>0, <1>1, <2>2 DEF Verify, Advance, JobType
  <2>3. CASE Clear
    BY <1>0, <1>1, <2>3 DEF Clear, JobType
  <2> QED BY <2>1, <2>2, <2>3
<1>6. /\ Step = "arm" => gate'.state = "ARMED" /\ ~job.sent
      /\ Step = "verify" => gate'.state = "VERIFIED" /\ gate.state = "ARMED" /\ job.cur.vol = "low"
      /\ Step = "clear" => gate'.state = "none" /\ job.cur.vol = "low"
  <2>1. CASE Arm
    <3>1. ~job.sent
      BY <1>2, <1>3, <2>1 DEF Arm, SafeRemainder
    <3> QED BY <2>1, <3>1 DEF Arm, arm_playback_safety_gate
  <2>2. CASE Verify
    BY <2>2 DEF Verify, verify_playback_safety_gate, CanVerify
  <2>3. CASE Clear
    BY <1>2, <2>3 DEF Clear, clear_playback_safety_gate, Restored, Safe
  <2> QED BY <2>1, <2>2, <2>3
<1>7. /\ SafeRemainder'
      /\ (\E i \in 1..Len(job'.todo) : job'.todo[i] \in Starts)
           => \E i \in 1..Len(job.todo) : job.todo[i] \in Starts
  BY <1>1, <1>2, <1>3, <1>5, RestRemainder
<1>8. Step = "verify" => ~\E i \in 1..Len(job'.todo) : job'.todo[i] \in Starts
  <2> SUFFICES ASSUME Step = "verify", NEW i \in 1..Len(job'.todo) PROVE job'.todo[i] \notin Starts
    OBVIOUS
  <2>1. /\ Len(Rest) = Len(job.todo) - 1 /\ Len(job.todo) \in Nat
        /\ \A j \in 1..Len(Rest) : Rest[j] = job.todo[j + 1]
    BY <1>1, NextStep
  <2> HIDE DEF Rest
  <2>2. i + 1 \in 1..Len(job.todo) /\ i + 1 > 1 /\ job'.todo[i] = job.todo[i + 1]
    BY <1>5, <2>1
  <2> QED BY <1>2, <2>2 DEF Shape
<1> HIDE DEF Step, Rest
<1>9. Running' /\ ~Starting' /\ Safe' /\ Answers' = Answers /\ Settled' = Settled
  BY <1>1, <1>2, <1>5 DEF Running, Starting, Safe, Answers, Settled
<1>10. SafeProgram'
  BY <1>3, <1>5, <1>7 DEF SafeProgram
<1>11. GateOwned'
  BY <1>1, <1>2, <1>5, <1>6, <1>7, <1>8, <1>9 DEF GateOwned, AudioInv
<1>12. BeforeStart'
  BY <1>1, <1>2, <1>3, <1>5, <1>9 DEF BeforeStart, AudioInv
<1>13. AfterStart'
  <2> SUFFICES ASSUME Answers PROVE AfterStart'
    BY <1>9 DEF AfterStart
  <2>1. Steady'
    BY <1>1, <1>4, <1>5, <1>9 DEF Steady
  <2>2. job.sent /\ Step # "arm"
    BY <1>4, <1>6
  <2>3. (job'.armed \/ gate'.state = "none") /\ gate'.state # "ARMED"
    BY <1>1, <1>4, <1>5, <1>6, <2>2
  <2> QED BY <1>5, <2>1, <2>2, <2>3 DEF AfterStart
<1>14. Audio'
  BY <1>1, <1>4, <1>6, <1>9 DEF Audio, Settled
<1> QED BY <1>10, <1>11, <1>12, <1>13, <1>14 DEF AudioInv

\* Readback and Unread: the effect of a request has been read, or not.
LEMMA AudioReadback ==
  ASSUME LedgerInv, AudioInv, Readback \/ Unread
  PROVE  AudioInv'
<1>0. job \in JobType /\ Snap.sel = radio.sel /\ Snap.vol = radio.vol /\ Snap.mute = radio.mute
      /\ Tallies
  BY Known, RadioTypes
<1>1. job.pc = "read" /\ Running /\ UNCHANGED <<radio, gate, hist>> /\ Step \in WriteSteps
  <2>1. job.pc = "read" /\ Running /\ UNCHANGED <<radio, gate, hist>>
    BY DEF Readback, Unread, At, Running
  <2> QED BY <1>0, <2>1, NextStep DEF Tallies
<1>2. /\ job'.pc = "check" /\ job'.kind = job.kind /\ job'.before = job.before
      /\ job'.sent = job.sent /\ job'.armed = job.armed /\ job'.lost = job.lost
      /\ Readback => job'.cur = Snap
  BY <1>0, <1>1 DEF Readback, Unread, JobType
<1>3. /\ \A S : NextIn(job.todo, S) <=> Step \in S
      /\ Safe /\ ~job.lost => SafeRemainder
      /\ Safe /\ job.sent => ~job.lost
      /\ Safe /\ Answers /\ job.sent => Steady
      /\ Safe => job.kind \notin Simple \cup {"plain", "timer"}
  BY <1>1, SafeFacts
<1>4. /\ Len(job.todo) \in Nat /\ Len(job.todo) >= 1 /\ Step = job.todo[1]
      /\ Rest \in Seq(Steps) /\ Len(Rest) = Len(job.todo) - 1
      /\ \A i \in 1..Len(Rest) : Rest[i] = job.todo[i + 1]
  BY <1>1, NextStep DEF WriteSteps
<1>5. Running' /\ ~Starting'
  BY <1>2 DEF Running, Starting
<1>6. ~Safe => /\ job'.armed = FALSE /\ AudioInv'
  <2> SUFFICES ASSUME ~Safe PROVE job'.armed = FALSE /\ AudioInv'
    OBVIOUS
  <2>1. job'.armed = FALSE /\ ~Safe'
    BY <1>0, <1>2 DEF AudioInv, GateOwned, Safe, JobType
  <2>2. Audio'
    BY <1>1 DEF AudioInv, Audio, Answers
  <2> QED BY <1>5, <2>1, <2>2 DEF AudioInv, SafeProgram, GateOwned, BeforeStart, AfterStart
<1>7. ASSUME Safe
      PROVE  AudioInv'
  <2>1. Readback /\ job.kind \in {"preset", "station"} /\ Confirmed(Step, Snap)
    BY <1>3, <1>7 DEF Safe, SafeKinds, Readback, Unread, Simple
  <2>2. job'.todo = Release(Step) \o Rest
    <3>1. job'.todo = Release(Step) \o IF job.kind = "timer" /\ job.lost THEN Tail(Rest) ELSE Rest
      BY <1>0, <2>1 DEF Readback, JobType
    <3> QED BY <2>1, <3>1
  <2>3. /\ Safe /\ ~job.lost => SafeRemainder'
        /\ (\E i \in 1..Len(job'.todo) : job'.todo[i] \in Starts)
             => \E i \in 1..Len(job.todo) : job.todo[i] \in Starts
        /\ Step \in Starts => job'.todo = Rest
    <3>1. CASE Release(Step) = <<>>
      <4>1. job'.todo = Rest
        BY <1>4, <2>2, <3>1, ConcatEmptySeq
      <4>2. Step \in {"mute", "release-mute"} => job'.cur.mute
        <5>1. Step = "release-mute" => Snap.mute
          BY <2>1 DEF Confirmed
        <5>2. Step = "mute" => Snap.mute
          <6>1. Step = "mute" => job.kind \notin StationKinds
            BY <3>1 DEF Release
          <6> QED BY <2>1, <6>1 DEF Confirmed
        <5> QED BY <1>2, <2>1, <5>1, <5>2
      <4> QED BY <1>1, <1>2, <4>1, <4>2, RestRemainder DEF WriteSteps
    <3>2. CASE Release(Step) # <<>>
      <4>1. job.kind \in StationKinds
        BY <3>2 DEF Release
      <4>2. PICK x : /\ Release(Step) = <<x>>
                     /\ \/ Step = "mute" /\ x = "release-mute"
                        \/ Step = "unmute" /\ x = "release-unmute"
                        \/ Step = "wake" /\ x = "release-wake"
                        \/ Step = "halt" /\ x = "release-halt"
        BY <3>2, <4>1 DEF Release
      <4>3. x \in Harmless /\ x \notin Starts /\ Step \notin Starts
        BY <4>2 DEF Harmless, Starts
      <4> DEFINE r == job'.todo
      <4>4. r = <<x>> \o Rest
        BY <2>2, <4>2
      <4> HIDE DEF r, Step, Rest
      <4>5. /\ Len(r) = 1 + Len(Rest)
            /\ \A i \in 1..(1 + Len(Rest)) : r[i] = IF i <= 1 THEN x ELSE Rest[i - 1]
        BY <1>4, <4>4, <4>3 DEF Harmless
      <4>6. \A i \in 1..Len(r) : /\ i <= 1 => r[i] = x
                                 /\ i > 1 => r[i] = job.todo[i] /\ i \in 1..Len(job.todo)
        <5> SUFFICES ASSUME NEW i \in 1..Len(r)
                     PROVE  /\ i <= 1 => r[i] = x
                            /\ i > 1 => r[i] = job.todo[i] /\ i \in 1..Len(job.todo)
          OBVIOUS
        <5>1. i <= 1 => r[i] = x
          BY <4>5
        <5>2. ASSUME i > 1
              PROVE  r[i] = job.todo[i] /\ i \in 1..Len(job.todo)
          <6>1. i - 1 \in 1..Len(Rest) /\ (i - 1) + 1 = i /\ i \in 1..Len(job.todo) /\ ~(i <= 1)
            BY <1>4, <4>5, <5>2
          <6>2. r[i] = Rest[i - 1]
            BY <4>5, <6>1
          <6> QED BY <1>4, <6>1, <6>2
        <5> QED BY <5>1, <5>2
      <4>7. /\ Len(r) = 1 + Len(job.todo) - 1
            /\ \A i \in 1..Len(r) : i <= 1 => r[i] \in Harmless
            /\ \A i \in 1..Len(r) : i > 1 => r[i] = job.todo[i - 1 + 1]
        <5>1. \A i \in 1..Len(r) : i - 1 + 1 = i
          BY <4>5
        <5> QED BY <1>4, <4>3, <4>5, <4>6, <5>1
      <4>8. (\E i \in 1..Len(r) : r[i] \in Starts)
              => \E i \in 1..Len(job.todo) : job.todo[i] \in Starts
        <5> SUFFICES ASSUME NEW i \in 1..Len(r), r[i] \in Starts
                     PROVE  \E j \in 1..Len(job.todo) : job.todo[j] \in Starts
          OBVIOUS
        <5>1. i > 1
          BY <4>3, <4>5, <4>6
        <5> QED BY <4>6, <5>1
      <4>9. Safe /\ ~job.lost => SafeRemainder'
        <5>1. /\ Len(job'.todo) = 1 + Len(job.todo) - 1
              /\ \A i \in 1..Len(job'.todo) : i <= 1 => job'.todo[i] \in Harmless
              /\ \A i \in 1..Len(job'.todo) : i > 1 => job'.todo[i] = job.todo[i - 1 + 1]
          BY <4>7 DEF r
        <5>2. 1 \in Nat /\ 1 # 0 /\ job.pc \in {"check", "read"}
          BY <1>1
        <5> QED BY <1>1, <1>2, <1>3, <5>1, <5>2, ShiftedRemainder
      <4> QED BY <4>3, <4>8, <4>9 DEF r
    <3> QED BY <3>1, <3>2
  <2>4. Safe /\ Answers /\ job.sent => Steady'
    <3> SUFFICES ASSUME Answers, job.sent PROVE Steady'
      OBVIOUS
    <3>1. job.before.sel # "standby" => radio.sel # "standby"
      BY <1>1, <1>3, <1>7 DEF AudioInv, BeforeStart, Answers
    <3>2. Settled \/ (job.before.sel = "standby" /\ radio.sel = "standby" /\ Step \in Starts)
      BY <1>1, <1>3, <1>7 DEF Steady
    <3>3. Step \in Starts => NextIn(job'.todo, {"depart"})
      <4> SUFFICES ASSUME Step \in Starts PROVE NextIn(job'.todo, {"depart"})
        OBVIOUS
      <4>1. 1 \in 1..Len(job.todo) /\ job.todo[1] \in Starts /\ SafeRemainder
        BY <1>3, <1>4, <1>7
      <4>2. 1 + 1 <= Len(job.todo) /\ job.todo[1 + 1] = "depart"
        BY <4>1 DEF SafeRemainder
      <4>3. Len(Rest) >= 1 /\ Rest[1] = "depart"
        BY <1>4, <4>2
      <4> QED BY <2>3, <4>3 DEF NextIn
    <3>4. Settled' = Settled /\ radio' = radio
      BY <1>1 DEF Settled
    <3>5. job'.cur.sel = radio.sel /\ job'.cur.vol = radio.vol
      BY <1>0, <1>2, <2>1
    <3> QED BY <1>2, <3>1, <3>2, <3>3, <3>4, <3>5 DEF Steady, Settled
  <2> QED BY <1>1, <1>2, <1>5, <2>3, <2>4, Proceeds
<1> QED BY <1>6, <1>7

\* Fallback: the failed preset is selected directly.
LEMMA AudioFallback ==
  ASSUME LedgerInv, AudioInv, Fallback
  PROVE  AudioInv'
<1>0. job \in JobType
  BY Known
<1>1. /\ job.pc = "check" /\ Running /\ UNCHANGED <<radio, gate, hist>> /\ Step = "match"
      /\ job.kind = "preset" /\ Safe
  BY DEF Fallback, At, Running, Safe, SafeKinds
<1>2. /\ job'.pc = "check" /\ job'.kind = job.kind /\ job'.before = job.before
      /\ job'.sent = job.sent /\ job'.armed = job.armed /\ job'.lost = job.lost
      /\ job'.cur = job.cur
  BY <1>0, <1>1 DEF Fallback, JobType
<1>3. /\ Len(job'.todo) = 3 + Len(job.todo) - 1
      /\ \A i \in 1..Len(job'.todo) : i <= 3 => job'.todo[i] \in Harmless
      /\ \A i \in 1..Len(job'.todo) : i > 3 => job'.todo[i] = job.todo[i - 3 + 1]
  BY FallbackStep
<1>4. ~job.lost /\ SafeRemainder
  <2>1. ~job.lost
    BY <1>1, LostSafe DEF LostSteps
  <2> QED BY <1>1, <2>1, SafeFacts
<1>5. Answers /\ job.sent => Settled /\ job.cur.sel # "standby" /\ radio.vol = job.cur.vol
  BY <1>1, SafeFacts
<1> HIDE DEF Step
<1>6. /\ SafeRemainder'
      /\ (\E i \in 1..Len(job'.todo) : job'.todo[i] \in Starts)
           => \E i \in 1..Len(job.todo) : job.todo[i] \in Starts
  <2>1. 3 \in Nat /\ 3 # 0 /\ job.pc \in {"check", "read"}
    BY <1>1
  <2> QED BY <1>1, <1>2, <1>3, <1>4, <2>1, ShiftedRemainder
<1>7. Running' /\ ~Starting'
  BY <1>2 DEF Running, Starting
<1>8. Safe /\ Answers /\ job.sent => Steady'
  BY <1>1, <1>2, <1>5 DEF Steady, Settled
<1> QED BY <1>1, <1>2, <1>6, <1>7, <1>8, Proceeds

\* Begin: a new safe command answers for nothing yet.
LEMMA AudioBegin ==
  ASSUME LedgerInv, AudioInv, NEW k \in AllKinds, NEW grouped \in BOOLEAN, Begin(k, grouped)
  PROVE  AudioInv'
<1>0. job \in JobType /\ hist \in HistType /\ Snap.sel = radio.sel
  BY Known, TypesTo, RadioTypes DEF LedgerInv
<1> DEFINE refused == \/ k \in StationKinds /\ audioLock
                      \/ k # "setting" /\ radio.zone # 0 /\ ~grouped
           n == IF k = "select" /\ ~refused THEN 1 ELSE 0
           pc == IF refused THEN "fail" ELSE FirstPc(k)
           q == Program(k)
<1>1. job' = [NoJob EXCEPT !.kind = k, !.outcome = "open", !.frozen = target, !.before = Snap,
                           !.cur = Snap, !.todo = q, !.intents = n, !.pc = pc]
      /\ UNCHANGED <<radio, gate>>
      /\ (hist' = Forget(Revoked, k) \/ hist' = Forget(hist, k))
  BY DEF Begin
<1>2. pc \in {"fail", "recheck", "open", "check"} /\ (k \in SafeKinds => pc \in {"fail", "open"})
  BY DEF FirstPc, KeyKinds, StationKinds, SafeKinds
<1>3. k \in SafeKinds =>
        /\ Len(q) = 12
        /\ \A i \in 1..12 : q[i] \notin {"stop", "halt", "standby", "wake", "native", "set"}
        /\ \A i \in 1..12 : q[i] \in Starts <=> i = 4
        /\ \A i \in 1..12 : q[i] = "arm" => i < 4
        /\ q[5] = "depart"
  BY DEF Program, execute_key, play_station, SafeKinds, KeyKinds, StationKinds, Starts
<1> HIDE DEF n, pc, q, refused
<1>4. /\ job'.kind = k /\ job'.before = Snap /\ job'.todo = q /\ job'.pc = pc
      /\ job'.armed = FALSE /\ job'.sent = FALSE /\ job'.lost = FALSE
  BY <1>1 DEF NoJob
<1>5. /\ k \in SafeKinds => hist'.by = "none"
      /\ k \notin SafeKinds => hist'.by = hist.by /\ hist'.touched = hist.touched
  BY <1>0, <1>1 DEF Forget, Revoked, HistType
<1>6. SafeProgram'
  <2> SUFFICES ASSUME k \in SafeKinds, pc = "open" PROVE SafeRemainder'
    BY <1>2, <1>4 DEF SafeProgram, Running, Safe
  <2>1. \A i \in 1..12 : q[i] \in Starts => i = 4 /\ i + 1 <= 12 /\ q[i + 1] = "depart"
    BY <1>3
  <2>2. ~NextIn(q, Starts)
    BY <1>3 DEF NextIn
  <2> QED BY <1>3, <1>4, <2>1, <2>2 DEF SafeRemainder
<1>7. GateOwned'
  BY <1>4 DEF GateOwned
<1>8. BeforeStart'
  BY <1>0, <1>1, <1>2, <1>4 DEF BeforeStart, Starting
<1>9. AfterStart'
  BY <1>4, <1>5 DEF AfterStart, Safe, Answers
<1>10. Audio'
  BY <1>1, <1>5 DEF AudioInv, Audio, Answers
<1> QED BY <1>6, <1>7, <1>8, <1>9, <1>10 DEF AudioInv

\* Finish, Fail and Crash.
LEMMA AudioEnds ==
  ASSUME LedgerInv, AudioInv, Finish \/ Fail \/ Crash
  PROVE  AudioInv'
<1>0. gate \in GateType /\ hist \in HistType
  BY TypesTo DEF LedgerInv
<1>1. job'.pc = "none" /\ ~job'.armed /\ UNCHANGED radio
  BY DEF Finish, Fail, Crash, NoJob
<1>2. gate'.state \in {gate.state, "FAILED"}
  BY DEF Finish, Fail, Crash, fail_playback_safety_gate
<1>3. hist'.by = hist.by /\ hist'.touched = hist.touched
  <2>1. hist' = hist \/ hist' = Revoked
    BY DEF Finish, Fail, Crash
  <2> QED BY <1>0, <2>1 DEF Revoked, HistType
<1> QED BY <1>1, <1>2, <1>3, AudioEnded

\* A start takes effect at once, or is deferred; out of standby it always is.
LEMMA StartedFacts ==
  ASSUME CommandTypeOK, NEW r \in Started
  PROVE  \/ r.sel = radio.sel /\ r.mute = radio.mute /\ r.pend = TRUE
         \/ radio.sel # "standby" /\ r.sel = "loading" /\ r.pend = FALSE
<1>0. radio \in RadioType
  BY TypesTo
<1>1. CASE r = Deferred
  BY <1>0, <1>1 DEF Deferred, RadioType
<1>2. CASE radio.sel # "standby" /\ r \in Activated
  <2>2. PICK v \in {radio.vol, "high"}, m \in {radio.mute, FALSE} :
          r = [radio EXCEPT !.sel = "loading", !.vol = v, !.mute = m, !.pend = FALSE]
    BY <1>2 DEF Activated
  <2> QED BY <1>0, <1>2, <2>2 DEF RadioType
<1> QED BY <1>1, <1>2 DEF Started

Releasing == {"release-mute", "release-unmute", "release-wake", "release-halt"}

\* What requests do to a radio, as far as its audio is concerned.
LEMMA EffectFacts ==
  ASSUME CommandTypeOK, NEW step, NEW r \in Effect(step)
  PROVE  /\ step = "volume" =>
              r.vol = "low" /\ r.sel = radio.sel /\ r.mute = radio.mute /\ r.pend = radio.pend
         /\ step \in {"mute", "unmute"} =>
              r.vol = radio.vol /\ r.sel = radio.sel /\ r.pend = radio.pend
         /\ step \in Starts =>
              \/ r.sel = radio.sel /\ r.mute = radio.mute /\ r.pend = TRUE
              \/ radio.sel # "standby" /\ r.sel = "loading" /\ r.pend = FALSE
         /\ step \in {"stop", "halt", "standby"} =>
              r.sel \in {"standby", "stopped"} /\ r.pend = FALSE /\ r.vol = radio.vol
         /\ step \in Releasing => r = radio
<1>0. radio \in RadioType
  BY TypesTo
<1>1. CASE step = "volume"
  BY <1>0, <1>1 DEF Effect, RadioType, Starts, Releasing
<1>2. CASE step \in {"mute", "unmute"}
  BY <1>0, <1>2 DEF Effect, RadioType, Starts, Releasing
<1>3. CASE step \in Starts
  <2>1. r \in Started
    BY <1>3 DEF Effect, Starts
  <2>2. \/ r.sel = radio.sel /\ r.mute = radio.mute /\ r.pend = TRUE
        \/ radio.sel # "standby" /\ r.sel = "loading" /\ r.pend = FALSE
    BY <2>1, StartedFacts
  <2> QED BY <1>3, <2>2 DEF Starts, Releasing
<1>4. CASE step \in {"stop", "halt", "standby"}
  BY <1>0, <1>4 DEF Effect, RadioType, Starts, Releasing
<1>5. CASE step \in Releasing
  BY <1>5 DEF Effect, Releasing, Starts
<1> QED BY <1>1, <1>2, <1>3, <1>4, <1>5

\* Who answers for the audio after a request.
LEMMA CreditFacts ==
  ASSUME CommandTypeOK, NEW reply, Send(reply)
  PROVE  /\ Step \in Starts /\ ~job.armed => hist'.by = "other"
         /\ Step \in Starts /\ radio.sel # "standby" /\ radio'.pend => hist'.by # "safe"
         /\ Step \in Starts => hist'.touched = hist.touched
         /\ Step \in {"wake", "native"} => hist'.by = "other"
         /\ Step = "fallback" => hist'.by = "fallback"
         /\ Step = "set" => hist'.touched = TRUE
         /\ hist.touched => hist'.touched
         /\ Step \notin Starts \cup {"wake", "native", "fallback", "set"} =>
              hist'.by = hist.by /\ hist'.touched = hist.touched
<1>1. hist \in HistType
  BY TypesTo
<1>2. Revoked \in HistType /\ Revoked.by = hist.by /\ Revoked.touched = hist.touched
  BY <1>1 DEF Revoked, HistType
<1>3. PICK h \in HistType : hist' = Credited(h) /\ h.by = hist.by /\ h.touched = hist.touched
  BY <1>1, <1>2 DEF Send
<1> HIDE DEF Step
<1>4. CASE Step \in Starts
  BY <1>3, <1>4 DEF Credited, HistType, Starts
<1>5. CASE Step \in {"wake", "native"}
  BY <1>3, <1>5 DEF Credited, HistType, Starts
<1>6. CASE Step = "fallback"
  BY <1>3, <1>6 DEF Credited, HistType, Starts
<1>7. CASE Step = "set"
  BY <1>3, <1>7 DEF Credited, HistType, Starts
<1>8. CASE Step \notin Starts \cup {"wake", "native", "fallback", "set"}
  BY <1>3, <1>8 DEF Credited
<1> QED BY <1>4, <1>5, <1>6, <1>7, <1>8 DEF Starts

\* A request, for the audio somebody answers for.
LEMMA AudioOfSend ==
  ASSUME LedgerInv, AudioInv, NEW reply \in {"ok", "lost", "rejected"}, Send(reply)
  PROVE  Audio'
<1> SUFFICES ASSUME Answers'
             PROVE  /\ gate.state \in {"VERIFIED", "none"} => radio'.vol = "low" /\ ~radio'.pend
                    /\ radio'.sel = "playing" => radio'.vol = "low" \/ radio'.mute
  BY DEF Audio, Send
<1>0. CommandTypeOK /\ Tallies /\ job \in JobType
  BY Known DEF LedgerInv
<1>1. job.pc = "send" /\ Running /\ Step \in WriteSteps
  <2>1. job.pc = "send" /\ Running
    BY DEF Send, At, Running
  <2> QED BY <1>0, <2>1, NextStep DEF Tallies
<1>2. \A S : NextIn(job.todo, S) <=> Step \in S
  BY <1>1, NextStep
<1>3. PICK r : radio' = r /\ (r \in Effect(Step) \/ r = radio)
  BY DEF Send
<1>4. CASE Step \in Starts
  <2>1. job.armed /\ ~hist.touched
    BY <1>0, <1>4, CreditFacts DEF Answers
  <2>2. Safe /\ gate.state = "ARMED" /\ Starting
    <3>1. Safe /\ gate.state \in {"ARMED", "VERIFIED"}
      BY <2>1 DEF AudioInv, GateOwned
    <3>2. 1 \in 1..Len(job.todo) /\ job.todo[1] \in Starts
      BY <1>1, <1>4, NextStep
    <3>3. gate.state = "ARMED"
      BY <1>1, <2>1, <3>2 DEF AudioInv, GateOwned
    <3> QED BY <1>1, <1>2, <1>4, <2>1, <3>1, <3>3 DEF Starting
  <2>3. CASE r = radio
    BY <1>3, <2>1, <2>2, <2>3 DEF AudioInv, BeforeStart
  <2>4. CASE r \in Effect(Step)
    <3>1. \/ r.sel = radio.sel /\ r.mute = radio.mute
          \/ r.sel = "loading"
      BY <1>0, <1>4, <2>4, EffectFacts
    <3>2. radio.sel = "playing" => radio.mute
      BY <2>1, <2>2 DEF AudioInv, BeforeStart
    <3> QED BY <1>3, <2>2, <3>1, <3>2
  <2> QED BY <1>3, <2>3, <2>4
<1>5. CASE Step \notin Starts
  <2>1. Step \notin {"wake", "native", "fallback", "set"} /\ Answers
    BY <1>0, <1>5, CreditFacts DEF Answers
  <2>2. /\ gate.state \in {"VERIFIED", "none"} => radio.vol = "low" /\ ~radio.pend
        /\ radio.sel = "playing" => radio.vol = "low" \/ radio.mute
    BY <2>1 DEF AudioInv, Audio
  <2>3. Step \in {"volume", "mute", "unmute", "stop", "halt", "standby"} \cup Releasing
    BY <1>1, <1>5, <2>1 DEF WriteSteps, Steps, Starts, Releasing
  <2>4. CASE r = radio
    BY <1>3, <2>2, <2>4
  <2>5. CASE r \in Effect(Step) /\ Step \in {"mute", "unmute"}
    <3>1. r.vol = radio.vol /\ r.sel = radio.sel /\ r.pend = radio.pend
      BY <1>0, <2>5, EffectFacts
    <3>2. Safe /\ ~job.lost
      BY <1>1, <2>5, SafeFacts, LostSafe DEF LostSteps
    <3>3. job.sent /\ (job.armed \/ gate.state = "none") /\ (gate.state = "ARMED" => radio.sel # "playing")
      BY <1>1, <2>1, <3>2 DEF AudioInv, AfterStart
    <3>4. gate.state = "ARMED" \/ gate.state \in {"VERIFIED", "none"}
      BY <3>3 DEF AudioInv, GateOwned
    <3> QED BY <1>3, <2>2, <3>1, <3>3, <3>4
  <2>6. CASE r \in Effect(Step) /\ Step = "volume"
    BY <1>0, <1>3, <2>2, <2>6, EffectFacts
  <2>7. CASE r \in Effect(Step) /\ Step \in {"stop", "halt", "standby"}
    BY <1>0, <1>3, <2>2, <2>7, EffectFacts
  <2>8. CASE r \in Effect(Step) /\ Step \in Releasing
    BY <1>0, <1>3, <2>2, <2>8, EffectFacts
  <2> QED BY <1>3, <2>3, <2>4, <2>5, <2>6, <2>7, <2>8
<1> QED BY <1>4, <1>5

\* Send: a request of a safe command, of another one, or of a shutdown.
LEMMA AudioSend ==
  ASSUME LedgerInv, AudioInv, NEW reply \in {"ok", "lost", "rejected"}, Send(reply)
  PROVE  AudioInv'
<1> DEFINE ok == CarriesOn(reply) \/ ShutsDown(reply)
           n == job.writes + 1
           sent == job.sent \/ (reply = "ok" /\ Step \in Starts)
           lost == job.lost \/ reply # "ok"
           pc == IF ok THEN "read" ELSE "fail"
           new == IF ShutsDown(reply)
                  THEN <<Step, "halt", "standby", "volume", "raise">> ELSE job.todo
           held == reply = "ok" /\ Pressed
<1>0. CommandTypeOK /\ Tallies /\ job \in JobType
  BY Known DEF LedgerInv
<1>1. job.pc = "send" /\ Running /\ Step \in WriteSteps
  <2>1. job.pc = "send" /\ Running
    BY DEF Send, At, Running
  <2> QED BY <1>0, <2>1, NextStep DEF Tallies
<1>2. /\ \A S : NextIn(job.todo, S) <=> Step \in S
      /\ Safe /\ ~job.lost => SafeRemainder
      /\ Safe /\ job.sent => ~job.lost
      /\ Safe /\ Answers /\ job.sent => Settled
      /\ Safe /\ Answers /\ ~job.lost => job.sent
      /\ Safe => job.kind \notin Simple \cup {"plain", "timer"}
  BY <1>1, SafeFacts
<1>3. job' = [job EXCEPT !.writes = n, !.sent = sent, !.lost = lost, !.held = held, !.pc = pc,
                          !.todo = new]
      /\ UNCHANGED gate
  BY DEF Send
<1>4. Step = job.todo[1] /\ 1 \in 1..Len(job.todo) /\ Shape(job.kind, job.todo)
  BY <1>1, NextStep
<1>5. /\ sent = (job.sent \/ (reply = "ok" /\ Step \in Starts))
      /\ lost = (job.lost \/ reply # "ok")
      /\ pc \in {"read", "fail"}
      /\ ~ShutsDown(reply) => new = job.todo
      /\ ShutsDown(reply) => reply # "ok" /\ Step = "select"
      /\ Safe /\ pc = "read" => reply = "ok" \/ ShutsDown(reply)
  <2>1. Safe /\ ok => reply = "ok" \/ ShutsDown(reply)
    BY <1>2 DEF CarriesOn, Simple
  <2> QED BY <2>1 DEF ShutsDown
<1> HIDE DEF n, sent, lost, held, pc, new, ok
<1>6. /\ job'.kind = job.kind /\ job'.before = job.before /\ job'.armed = job.armed
      /\ job'.sent = sent /\ job'.lost = lost /\ job'.pc = pc /\ job'.todo = new
  BY <1>0, <1>3 DEF JobType
<1>7. PICK r : radio' = r /\ (r \in Effect(Step) \/ r = radio) /\ (reply = "ok" => r \in Effect(Step))
  BY DEF Send
<1> HIDE DEF Step
<1>8. Safe /\ Step \in Starts /\ ~job.lost => ~job.sent
  BY <1>1, <1>2, <1>4 DEF SafeRemainder
<1>9. Safe /\ job.lost => Step \notin Starts
  BY <1>1, LostSafe DEF LostSteps, Starts
<1>10. SafeProgram'
  <2>1. Safe /\ pc = "read" /\ lost => ~sent
    BY <1>2, <1>5, <1>8, <1>9 DEF Starts
  <2>2. ASSUME Safe, pc = "read", ~lost
        PROVE  SafeRemainder'
    <3>1. reply = "ok" /\ new = job.todo /\ ~job.lost /\ SafeRemainder
      BY <1>2, <1>5, <2>2
    <3>2. ASSUME NEW i \in 1..Len(job.todo), job.todo[i] \in Starts
          PROVE  /\ i + 1 <= Len(job.todo) /\ job.todo[i + 1] = "depart"
                 /\ sent => i = 1
                 /\ \A j \in 1..Len(job.todo) : job.todo[j] = "arm" => j < i
      <4>1. Step \in Starts => i = 1
        BY <1>4, <2>2, <3>2 DEF Shape, Safe
      <4> QED BY <1>1, <1>5, <3>1, <3>2, <4>1 DEF SafeRemainder
    <3>3. ASSUME NEW i \in 1..Len(job.todo), job.todo[i] = "arm"
          PROVE  ~sent
      <4>1. ~job.sent
        BY <3>1, <3>3 DEF SafeRemainder
      <4>2. Step \notin Starts
        <5> SUFFICES ASSUME Step \in Starts PROVE FALSE
          OBVIOUS
        <5>1. i < 1
          BY <1>4, <3>2, <3>3
        <5> QED BY <5>1, <1>4
      <4> QED BY <1>5, <4>1, <4>2
    <3> QED BY <1>6, <2>2, <3>1, <3>2, <3>3 DEF SafeRemainder
  <2> QED BY <1>5, <1>6, <2>1, <2>2 DEF SafeProgram, Running, Safe
<1>11. GateOwned'
  <2>1. job.armed => Safe /\ gate.state \in {"ARMED", "VERIFIED"}
    BY DEF AudioInv, GateOwned
  <2>2. ASSUME job.armed, \E i \in 1..Len(new) : new[i] \in Starts
        PROVE  gate.state = "ARMED"
    <3>1. \E i \in 1..Len(job.todo) : job.todo[i] \in Starts
      <4>1. CASE ShutsDown(reply)
        BY <1>4, <1>5, <4>1 DEF Starts
      <4>2. CASE ~ShutsDown(reply)
        BY <1>5, <2>2, <4>2
      <4> QED BY <4>1, <4>2
    <3> QED BY <1>1, <2>2, <3>1 DEF AudioInv, GateOwned
  <2> QED BY <1>3, <1>5, <1>6, <2>1, <2>2 DEF GateOwned, Safe
<1>12. BeforeStart'
  <2>1. ~Starting'
    BY <1>5, <1>6 DEF Starting
  <2>2. ASSUME Safe, pc = "read", ~lost, ~hist'.touched, job.before.sel # "standby"
        PROVE  radio'.sel # "standby"
    <3>1. reply = "ok" /\ ~job.lost /\ r \in Effect(Step)
      BY <1>5, <1>7, <2>2
    <3>2. ~hist.touched
      BY <1>0, <2>2, CreditFacts DEF Starts
    <3>3. radio.sel # "standby"
      BY <1>1, <2>2, <3>1, <3>2 DEF AudioInv, BeforeStart
    <3>4. Step \notin {"stop", "halt", "standby", "wake", "native", "set"}
      BY <1>2, <1>4, <2>2, <3>1 DEF SafeRemainder
    <3>5. CASE Step = "fallback"
      <4>1. r \in Started
        BY <3>1, <3>5 DEF Effect
      <4> QED BY <1>0, <1>7, <3>3, <4>1, StartedFacts
    <3>6. CASE Step # "fallback"
      <4>1. Step \in {"volume", "mute", "unmute"} \cup Starts \cup Releasing
        BY <1>1, <3>4, <3>6 DEF WriteSteps, Steps, Starts, Releasing
      <4> QED BY <1>0, <1>7, <3>1, <3>3, <4>1, EffectFacts
    <3> QED BY <3>5, <3>6
  <2> QED BY <1>5, <1>6, <2>1, <2>2 DEF BeforeStart, Running, Safe
<1>13. AfterStart'
  <2> SUFFICES ASSUME Safe, pc = "read", Answers'
               PROVE  /\ sent \/ lost
                      /\ sent => /\ job.armed \/ gate.state = "none"
                                 /\ gate.state = "ARMED" => radio'.sel # "playing"
                                 /\ Steady'
    BY <1>3, <1>5, <1>6 DEF AfterStart, Running, Safe
  <2>1. CASE Step \in Starts
    <3>1. job.armed /\ ~hist.touched
      BY <1>0, <2>1, CreditFacts DEF Answers
    <3>2. sent \/ lost
      BY <1>5, <2>1
    <3> SUFFICES ASSUME sent PROVE /\ radio'.sel # "playing" /\ Steady'
      BY <3>1, <3>2
    <3>3. reply = "ok" /\ ~job.lost /\ r \in Effect(Step) /\ new = job.todo
      BY <1>5, <1>7, <1>8, <1>9, <2>1
    <3>4. \/ radio.sel = "standby" /\ r.sel = "standby"
          \/ radio.sel # "standby" /\ r.sel = "loading" /\ r.pend = FALSE
      <4>1. \/ r.sel = radio.sel /\ r.pend = TRUE
            \/ radio.sel # "standby" /\ r.sel = "loading" /\ r.pend = FALSE
        BY <1>0, <2>1, <3>3, EffectFacts
      <4>2. radio.sel # "standby" => ~r.pend
        BY <1>0, <1>7, <2>1, CreditFacts DEF Answers
      <4> QED BY <4>1, <4>2
    <3>5. radio.sel = "standby" => job.before.sel = "standby"
      BY <1>1, <3>1, <3>3 DEF AudioInv, BeforeStart
    <3>6. NextIn(new, Starts)
      BY <1>2, <2>1, <3>3
    <3> QED BY <1>6, <1>7, <3>4, <3>5, <3>6 DEF Steady, Settled
  <2>2. CASE Step \notin Starts
    <3>1. Step \notin {"wake", "native", "fallback", "set"} /\ Answers
      BY <1>0, <2>2, CreditFacts DEF Answers
    <3>2. job.sent \/ job.lost
      BY <1>2, <3>1
    <3>3. sent \/ lost
      BY <1>5, <3>2
    <3> SUFFICES ASSUME sent PROVE /\ job.armed \/ gate.state = "none"
                                   /\ gate.state = "ARMED" => radio'.sel # "playing"
                                   /\ Steady'
      BY <3>3
    <3>4. job.sent /\ ~job.lost
      BY <1>2, <1>5, <2>2
    <3>5. /\ job.armed \/ gate.state = "none"
          /\ gate.state = "ARMED" => radio.sel # "playing"
          /\ Settled
      BY <1>1, <1>2, <3>1, <3>4 DEF AudioInv, AfterStart
    <3>6. Step \notin {"stop", "halt", "standby"}
      BY <1>2, <1>4, <3>4 DEF SafeRemainder
    <3>7. Step \in {"volume", "mute", "unmute"} \cup Releasing
      BY <1>1, <2>2, <3>1, <3>6 DEF WriteSteps, Steps, Starts, Releasing
    <3>8. r.sel = radio.sel /\ r.pend = radio.pend
      BY <1>0, <1>7, <3>7, EffectFacts
    <3> QED BY <1>6, <1>7, <3>5, <3>8 DEF Steady, Settled
  <2> QED BY <2>1, <2>2
<1>14. Audio'
  BY AudioOfSend
<1> QED BY <1>10, <1>11, <1>12, <1>13, <1>14 DEF AudioInv

\* LetGo: the release changes neither the radio nor the gate.
LEMMA AudioLetGo ==
  ASSUME LedgerInv, AudioInv, NEW reply, LetGo(reply)
  PROVE  AudioInv'
<1>0. hist \in HistType
  BY TypesTo DEF LedgerInv
<1>1. /\ job.pc = "read"
      /\ job'.kind = job.kind /\ job'.before = job.before /\ job'.sent = job.sent
      /\ job'.armed = job.armed /\ job'.todo = job.todo /\ job'.cur = job.cur
      /\ \/ job'.pc = "read" /\ job'.lost = job.lost
         \/ job'.pc = "fail" /\ job'.lost
  BY LetGoStep
<1>2. UNCHANGED <<radio, gate>> /\ hist'.by = hist.by /\ hist'.touched = hist.touched
  <2>1. hist' = hist \/ hist' = Revoked
    BY DEF LetGo
  <2> QED BY <1>0, <2>1 DEF LetGo, Revoked, HistType
<1>3. ~Starting'
  BY <1>1 DEF Starting
<1>4. CASE job'.pc = "read" /\ job'.lost = job.lost
  <2>1. Running /\ Running'
    BY <1>1, <1>4 DEF Running
  <2>2. Safe /\ ~job.lost => SafeRemainder'
    BY <1>1, <1>4, <2>1 DEF AudioInv, SafeProgram, SafeRemainder
  <2>3. Safe /\ Answers /\ job.sent => Steady'
    BY <1>1, <1>2, <1>4, <2>1 DEF AudioInv, AfterStart, Steady, Settled
  <2> QED BY <1>1, <1>2, <1>3, <1>4, <2>1, <2>2, <2>3, Proceeds
<1>5. CASE job'.pc = "fail"
  <2>1. ~Running'
    BY <1>5 DEF Running
  <2>2. GateOwned'
    BY <1>1, <1>2, <1>5, <2>1 DEF AudioInv, GateOwned, Safe
  <2>3. Audio'
    BY <1>2 DEF AudioInv, Audio, Answers
  <2> QED BY <1>3, <2>1, <2>2, <2>3 DEF AudioInv, SafeProgram, BeforeStart, AfterStart
<1> QED BY <1>1, <1>4, <1>5

\* What happens beside the commands: it is enough to look at the radio.
LEMMA AudioBeside ==
  ASSUME LedgerInv, AudioInv, Beside
  PROVE  AudioInv'
<1>0. /\ CommandTypeOK /\ radio \in RadioType /\ gate \in GateType /\ hist \in HistType
      /\ job' = job
  BY TypesTo, BesideKeeps DEF LedgerInv
<1>1. /\ SafeProgram' /\ Running' = Running /\ Safe' = Safe
      /\ SafeProgram /\ GateOwned /\ BeforeStart /\ AfterStart /\ Audio
  BY <1>0 DEF AudioInv, SafeProgram, SafeRemainder, Running, Safe
<1>2. ASSUME gate'.state = gate.state
      PROVE  GateOwned'
  BY <1>0, <1>1, <1>2 DEF GateOwned
<1>3. ASSUME gate'.state = gate.state, UNCHANGED radio,
             hist'.by = hist.by, hist'.touched = hist.touched
      PROVE  AudioInv'
  <2>1. Answers' = Answers /\ Starting' = Starting /\ Steady' = Steady
    BY <1>0, <1>3 DEF Answers, Starting, Safe, Steady, Settled
  <2>2. BeforeStart'
    BY <1>0, <1>1, <1>3, <2>1 DEF BeforeStart
  <2>3. AfterStart'
    BY <1>0, <1>1, <1>3, <2>1 DEF AfterStart
  <2>4. Audio'
    BY <1>1, <1>3, <2>1 DEF Audio
  <2> QED BY <1>1, <1>2, <1>3, <2>2, <2>3, <2>4 DEF AudioInv
<1>4. ASSUME UNCHANGED gate, hist'.touched \/ hist'.by = "other",
             hist'.touched \/ (hist'.touched = hist.touched /\ radio'.sel \in {radio.sel, "loading"}
                               /\ (radio'.sel = "playing" => radio'.mute = radio.mute))
      PROVE  AudioInv'
  <2>1. ~Answers'
    BY <1>4 DEF Answers
  <2>2. Starting' = Starting
    BY <1>0 DEF Starting, Safe
  <2>3. BeforeStart'
    BY <1>0, <1>1, <1>4, <2>2 DEF BeforeStart
  <2> QED BY <1>1, <1>2, <1>4, <2>1, <2>3 DEF AudioInv, AfterStart, Audio
<1>5. ASSUME UNCHANGED <<gate, hist>>, radio.sel # "standby", radio'.sel \notin {"standby", "playing"},
             radio'.pend = radio.pend, radio'.vol = radio.vol
      PROVE  AudioInv'
  <2>1. Answers' = Answers /\ Starting' = Starting
    BY <1>0, <1>5 DEF Answers, Starting, Safe
  <2>2. BeforeStart'
    BY <1>0, <1>1, <1>5, <2>1 DEF BeforeStart
  <2>3. Steady => Steady'
    BY <1>0, <1>5 DEF Steady, Settled
  <2>4. AfterStart'
    BY <1>0, <1>1, <1>5, <2>1, <2>3 DEF AfterStart
  <2>5. Audio'
    BY <1>1, <1>5, <2>1 DEF Audio
  <2> QED BY <1>1, <1>2, <1>5, <2>2, <2>4, <2>5 DEF AudioInv
<1>6. CASE UnlockAudio
  <2>1. /\ job.pc = "none" /\ UNCHANGED <<gate, hist>> /\ radio'.sel = "standby"
        /\ radio'.vol = "low" /\ radio'.pend = FALSE
    BY <1>0, <1>6 DEF UnlockAudio, Free, RadioType
  <2>2. ~Running' /\ ~Starting'
    BY <1>0, <2>1 DEF Running, Starting
  <2>3. Audio'
    BY <2>1 DEF Audio
  <2> QED BY <1>1, <1>2, <2>1, <2>2, <2>3 DEF AudioInv, BeforeStart, AfterStart
<1>7. CASE ProviderServes
  <2>1. /\ radio.sel = "loading" /\ gate.state \in {"none", "VERIFIED"} /\ UNCHANGED <<gate, hist>>
        /\ radio' = [radio EXCEPT !.sel = "playing"]
    BY <1>7 DEF ProviderServes, Releases, commandVars
  <2>2. /\ radio'.sel = "playing" /\ radio'.vol = radio.vol /\ radio'.mute = radio.mute
        /\ radio'.pend = radio.pend
    BY <1>0, <2>1 DEF RadioType
  <2>3. Answers' = Answers /\ Starting' = Starting
    BY <1>0, <2>1 DEF Answers, Starting, Safe
  <2>4. ~Starting
    <3> SUFFICES ASSUME Starting PROVE FALSE
      OBVIOUS
    <3>1. job.armed /\ Running
      BY DEF Starting, Running
    <3>2. 1 \in 1..Len(job.todo) /\ job.todo[1] \in Starts
      BY <3>1, NextStep DEF Starting, NextIn
    <3> QED BY <1>1, <2>1, <3>1, <3>2 DEF GateOwned
  <2>5. BeforeStart'
    BY <1>0, <1>1, <2>1, <2>2, <2>3, <2>4 DEF BeforeStart
  <2>6. Steady => Steady'
    BY <1>0, <2>1, <2>2 DEF Steady, Settled
  <2>7. AfterStart'
    BY <1>0, <1>1, <2>1, <2>3, <2>6 DEF AfterStart
  <2>8. Audio'
    BY <1>1, <2>1, <2>2, <2>3 DEF Audio
  <2> QED BY <1>1, <1>2, <2>1, <2>5, <2>7, <2>8 DEF AudioInv
<1>8. CASE ProviderRefuses
  <2>1. radio.sel = "loading" /\ UNCHANGED <<gate, hist>> /\ radio' = [radio EXCEPT !.sel = "invalid"]
    BY <1>8 DEF ProviderRefuses, commandVars
  <2>2. radio'.sel = "invalid" /\ radio'.vol = radio.vol /\ radio'.pend = radio.pend
    BY <1>0, <2>1 DEF RadioType
  <2> QED BY <1>5, <2>1, <2>2
<1>9. CASE GateExpires
  <2>1. gate'.state = gate.state /\ UNCHANGED <<radio, hist>>
    BY <1>0, <1>9 DEF GateExpires, GateType
  <2> QED BY <1>3, <2>1
<1>10. CASE Firmware
  <2>1. radio.pend /\ UNCHANGED <<gate, hist>> /\ radio' \in Activated
    BY <1>10 DEF Firmware, FirmwareActivates, Quiet
  <2>2. PICK v \in {radio.vol, "high"}, m \in {radio.mute, FALSE} :
          radio' = [radio EXCEPT !.sel = "loading", !.vol = v, !.mute = m, !.pend = FALSE]
    BY <2>1 DEF Activated
  <2>3. radio'.sel = "loading" /\ ~radio'.pend
    BY <1>0, <2>2 DEF RadioType
  <2>4. Answers' = Answers /\ Starting' = Starting
    BY <1>0, <2>1 DEF Answers, Starting, Safe
  <2>5. BeforeStart'
    BY <2>3 DEF BeforeStart
  <2>6. Steady => Steady'
    BY <1>0, <2>1, <2>3 DEF Steady, Settled
  <2>7. AfterStart'
    BY <1>0, <1>1, <2>1, <2>3, <2>4, <2>6 DEF AfterStart
  <2>8. Audio'
    BY <1>1, <2>1, <2>3, <2>4 DEF Audio
  <2> QED BY <1>1, <1>2, <2>1, <2>5, <2>7, <2>8 DEF AudioInv
<1>11. CASE Outside \/ ProviderServesUnknown
  <2>1. hist'.touched /\ UNCHANGED gate
    BY <1>0, <1>11 DEF Outside, ProviderServesUnknown, Quiet, commandVars, HistType
  <2> QED BY <1>4, <2>1
<1>12. CASE Preference \/ Report \/ Restarts
  <2>1. UNCHANGED <<radio, gate>>
    BY <1>12 DEF Preference, save_preference, Report, observe_report, Restarts, CloudRestarts, Quiet
  <2>2. hist'.by = hist.by /\ hist'.touched = hist.touched
    BY <1>0, <1>12 DEF Preference, Report, Restarts, Ended, Revoked, HistType
  <2> QED BY <1>3, <2>1, <2>2
<1>13. CASE Ends
  <2>1. UNCHANGED <<gate, hist>>
    BY <1>13 DEF Ends, Quiet
  <2>2. CASE StopReported
    BY <1>3, <2>1, <2>2 DEF StopReported
  <2>3. CASE StreamEnds
    <3>1. radio.sel = "playing" /\ radio' = [radio EXCEPT !.sel = "invalid"]
      BY <2>3 DEF StreamEnds
    <3>2. radio'.sel = "invalid" /\ radio'.vol = radio.vol /\ radio'.pend = radio.pend
      BY <1>0, <3>1 DEF RadioType
    <3> QED BY <1>5, <2>1, <3>1, <3>2
  <2> QED BY <1>13, <2>2, <2>3 DEF Ends
<1>14. CASE \E t \in Tasks : RcStep(t)
  <2> PICK t \in Tasks : RcStep(t)
    BY <1>14
  <2>1. UNCHANGED gate
    BY DEF RcStep, Quiet
  <2>2. CASE (RcRead(t) \/ RcClaim(t)) /\ UNCHANGED hist
    BY <1>3, <2>1, <2>2 DEF RcRead, RcClaim
  <2>3. CASE RcEnd(t) /\ Ended
    <3>1. hist'.by = hist.by /\ hist'.touched = hist.touched /\ UNCHANGED radio
      BY <1>0, <2>3 DEF RcEnd, Ended, HistType
    <3> QED BY <1>3, <2>1, <3>1
  <2>4. CASE RcPost(t) /\ hist' = [hist EXCEPT !.by = "other"]
    <3>1. hist'.by = "other" /\ hist'.touched = hist.touched
      BY <1>0, <2>4 DEF HistType
    <3>2. radio' \in Started \/ radio' = radio
      BY <2>4 DEF RcPost, Effect
    <3>3. /\ radio'.sel \in {radio.sel, "loading"}
          /\ radio'.sel = "playing" => radio'.mute = radio.mute
      BY <1>0, <3>2, StartedFacts
    <3> QED BY <1>4, <2>1, <3>1, <3>3
  <2> QED BY <2>2, <2>3, <2>4 DEF RcStep
<1> QED BY <1>6, <1>7, <1>8, <1>9, <1>10, <1>11, <1>12, <1>13, <1>14 DEF Beside

\* The audio of a safe command stays as safe as the invariant says.
LEMMA AudioKept ==
  ASSUME LedgerInv, AudioInv, [Next]_vars
  PROVE  AudioInv'
<1>1. CASE UNCHANGED vars
  <2>1. /\ radio' = radio /\ gate' = gate /\ hist' = hist /\ job' = job
    BY <1>1 DEF vars
  <2>2. SafeProgram' /\ GateOwned'
    BY <2>1 DEF AudioInv, SafeProgram, SafeRemainder, GateOwned, Running, Safe
  <2>3. BeforeStart' /\ AfterStart' /\ Audio'
    BY <2>1 DEF AudioInv, BeforeStart, AfterStart, Audio, Running, Safe, Starting, Answers, Steady, Settled
  <2> QED BY <2>2, <2>3 DEF AudioInv
<1>2. CASE Next
  BY <1>2, NextCases, AudioBegin, AudioReadings, AudioLocal, AudioGate, AudioReadback, AudioFallback,
     AudioSend, AudioLetGo, AudioEnds, AudioBeside
<1> QED BY <1>1, <1>2

\* Audio that a safe key or station started, that nobody outside touched since and
\* that the radio asked for under its own address, is never playing loud and unmuted
\* (AudioSafe): not with any number of commands, readings, crashes, lost answers,
\* reconnects and expiries of the gate.
THEOREM AudioSafeHolds == Spec => []AudioSafe
<1>1. Init => AudioInv
  <2> SUFFICES ASSUME Init PROVE AudioInv
    OBVIOUS
  <2>1. job.pc = "none" /\ ~job.armed /\ hist.by = "none"
    BY DEF Init, NoJob
  <2> QED BY <2>1 DEF AudioInv, SafeProgram, GateOwned, BeforeStart, AfterStart, Audio, Running,
             Starting, Answers
<1>2. LedgerInv /\ AudioInv /\ [Next]_vars => AudioInv'
  BY AudioKept
<1>3. AudioInv => AudioSafe
  BY DEF AudioInv, Audio, Answers, AudioSafe
<1> QED BY <1>1, <1>2, <1>3, CommandInvariant, PTL DEF Spec

=============================================================================
