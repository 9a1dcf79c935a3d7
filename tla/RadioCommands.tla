---------------------------- MODULE RadioCommands ----------------------------
(***************************************************************************)
(* Explicit commands to one radio: remote keys, stations, timers, direct   *)
(* selection, power, manual commands and settings. Every service holds     *)
(* the radio's lock, saves a START backup, compares a fresh snapshot       *)
(* before each write, stores an intent, writes once and reads back. Beside *)
(* them run the local provider, which withholds the audio URL behind the   *)
(* playback safety gate, the firmware, the live reconnect, and people and  *)
(* controllers outside the program.                                        *)
(***************************************************************************)
EXTENDS LiveReconnect

CONSTANTS
  Kinds,          \* the kinds of command that are issued
  OptInKinds,     \* ... while the listener has opted in to reconnects
  MaxJobs,        \* bound on the number of commands
  MaxPolls,       \* readings of a waiting loop (20 in the code)
  MaxFaults       \* bound on crashes, outside changes and changes of the opt-in

AllKinds == {"preset", "resume", "stop", "station", "timer", "plain",
             "select", "power", "lowpower", "manual", "setting"}

ASSUME CommandAssumption ==
  /\ Kinds \subseteq AllKinds /\ OptInKinds \subseteq AllKinds
  /\ OptIns \subseteq BOOLEAN
  /\ MaxJobs \in Nat /\ MaxPolls \in Nat /\ MaxFaults \in Nat

VARIABLES
  gate,       \* the playback safety gate row and whether it is fresh
  audioLock,  \* the persistent audio safety lock
  job,        \* the command that owns the radio, or the last one
  jobs,       \* commands issued so far
  faults,     \* crashes, outside changes and changes of the opt-in so far
  hist        \* history: who started the audio ("late": a safe command whose
              \* start is deferred outside standby), whether it was touched since
              \* or served past the gate, tasks revoked by a command

commandVars == <<gate, audioLock, job, jobs>>
vars == <<radio, target, optIn, row, rc, report, gate, audioLock, job, jobs, faults, hist>>

KeyKinds == {"preset", "resume", "stop"}
StationKinds == {"station", "timer", "plain"}
SafeKinds == {"preset", "station"}       \* commands with a safe volume of at most 5

Steps == {"volume", "mute", "unmute", "start", "select", "fallback", "stop", "halt",
          "standby", "wake", "native", "set", "release-mute", "release-unmute",
          "release-wake", "release-halt",
          "arm", "depart", "verify", "match", "matched", "clear", "finish", "raise"}

NoJob ==
  [kind |-> "none", pc |-> "none", held |-> FALSE, todo |-> <<>>, before |-> Blank, cur |-> Blank,
   intents |-> 0, writes |-> 0, sent |-> FALSE, armed |-> FALSE, lost |-> FALSE,
   polls |-> 0, frozen |-> 0, outcome |-> "LOST"]

CommandTypeOK ==
  /\ RadioTypeOK /\ ReconnectTypeOK
  /\ gate \in [state : {"none", "ARMED", "VERIFIED", "FAILED"}, live : BOOLEAN]
  /\ audioLock \in BOOLEAN
  /\ job \in [kind : AllKinds \cup {"none"},
              pc : {"none", "open", "check", "recheck", "send", "read", "fail"}, held : BOOLEAN,
              todo : Seq(Steps), before : Snapshots, cur : Snapshots, intents : Nat,
              writes : Nat, sent : BOOLEAN, armed : BOOLEAN, lost : BOOLEAN,
              polls : 0 .. MaxPolls, frozen : Nat,
              outcome : {"open", "UNCHANGED", "VERIFIED", "PENDING", "DIVERGED",
                         "BLOCKED", "LOST"}]
  /\ jobs \in 0 .. MaxJobs /\ faults \in 0 .. MaxFaults
  /\ hist \in [by : {"none", "safe", "late", "fallback", "other"}, touched : BOOLEAN,
               revoked : SUBSET Tasks]

Init ==
  /\ RadioInit /\ ReconnectInit
  /\ gate = [state |-> "none", live |-> FALSE]
  /\ audioLock = FALSE /\ job = NoJob /\ jobs = 0 /\ faults = 0
  /\ hist = [by |-> "none", touched |-> FALSE, revoked |-> {}]

-----------------------------------------------------------------------------
(* The playback safety gate. *)

arm_playback_safety_gate == gate' = [state |-> "ARMED", live |-> TRUE]

CanVerify(s) == gate.state = "ARMED" /\ gate.live /\ s.vol = "low" /\ s.mute

verify_playback_safety_gate == gate' = [state |-> "VERIFIED", live |-> TRUE]

\* A FAILED row, or the old one when the database refuses.
fail_playback_safety_gate == gate' \in {gate, [state |-> "FAILED", live |-> TRUE]}

clear_playback_safety_gate == gate' = [state |-> "none", live |-> FALSE]

\* No row, or a fresh and verified one, lets the provider answer.
Releases == gate.state = "none" \/ (gate.state = "VERIFIED" /\ gate.live)

\* The provider answers a request attributed to the radio; keeping the
\* contract for the reconnect is best effort.
ProviderServes ==
  /\ radio.sel = "loading" /\ Releases
  /\ radio' = [radio EXCEPT !.sel = "playing"]
  /\ observe_contract \/ UNCHANGED <<row, rc>>
  /\ UNCHANGED <<target, optIn, report, faults, hist>> /\ UNCHANGED commandVars

\* A request that resolve_request_device attributes to no radio (an unknown or
\* contradictory address) is answered without a look at the gate, and without
\* the contract.
ProviderServesUnknown ==
  /\ radio.sel = "loading"
  /\ radio' = [radio EXCEPT !.sel = "playing"]
  /\ hist' = [hist EXCEPT !.touched = TRUE]
  /\ UNCHANGED <<target, optIn, row, rc, report, faults>> /\ UNCHANGED commandVars

\* It refuses a failed or old gate, and gives up waiting for an armed one.
ProviderRefuses ==
  /\ radio.sel = "loading" /\ gate.state # "none"
  /\ gate.state # "VERIFIED" \/ ~gate.live
  /\ radio' = [radio EXCEPT !.sel = "invalid"]
  /\ UNCHANGED <<target, optIn, row, rc, report, faults, hist>> /\ UNCHANGED commandVars

GateExpires ==
  /\ gate.live /\ gate' = [gate EXCEPT !.live = FALSE]
  /\ UNCHANGED <<radio, target, optIn, row, rc, report, audioLock, job, jobs, faults, hist>>

-----------------------------------------------------------------------------
(* What each command does. *)

execute_key(k) ==
  CASE k = "preset" -> <<"volume", "arm", "mute", "start", "depart", "volume", "mute",
                         "verify", "match", "unmute", "clear", "finish">>
    [] k = "resume" -> <<"start", "match", "finish">>
    [] k = "stop"   -> <<"stop", "match", "finish">>

play_station(k) ==
  CASE k = "station" -> <<"arm", "volume", "mute", "select", "depart", "volume", "mute",
                          "verify", "match", "unmute", "clear", "finish">>
    [] k = "timer"   -> <<"wake", "volume", "select", "volume", "match", "finish">>
    [] k = "plain"   -> <<"select", "match", "finish">>

select_direct == <<"select", "finish">>
execute_power == <<"standby", "finish">>
execute_manual_command == <<"native", "finish">>
apply_settings == <<"set", "finish">>

Program(k) ==
  CASE k \in KeyKinds              -> execute_key(k)
    [] k \in StationKinds          -> play_station(k)
    [] k = "select"                -> select_direct
    [] k \in {"power", "lowpower"} -> execute_power
    [] k = "manual"                -> execute_manual_command
    [] k = "setting"               -> apply_settings

Step == Head(job.todo)
Rest == Tail(job.todo)

WriteSteps == Steps \ {"arm", "depart", "verify", "match", "matched", "clear", "finish", "raise"}

\* volume_once, mute_once and plan.matches: a value that is already there is
\* not written, and only a radio in standby is woken.
Needed ==
  CASE Step = "volume" -> job.cur.vol # "low"
    [] Step = "set"    -> job.cur.vol # "high"
    [] Step = "mute"   -> ~job.cur.mute
    [] Step = "unmute" -> job.cur.mute # job.before.mute
    [] Step = "wake"   -> job.before.sel = "standby"
    [] OTHER           -> TRUE

\* The value a correction must show when it is read back.
Confirmed(step, s) ==
  CASE step = "volume"         -> s.vol = "low"
    [] step = "set"            -> s.vol = "high"
    [] step = "mute"           -> job.kind \in StationKinds \/ s.mute
    [] step = "unmute"         -> job.kind \in StationKinds \/ s.mute = job.before.mute
    [] step = "release-mute"   -> s.mute
    [] step = "release-unmute" -> s.mute = job.before.mute
    [] step = "release-wake"   -> s.sel # "standby"
    [] OTHER                   -> TRUE

\* A station presses and releases a key in two writes.
Release(step) ==
  IF job.kind \notin StationKinds THEN <<>>
  ELSE CASE step = "mute"   -> <<"release-mute">>
         [] step = "unmute" -> <<"release-unmute">>
         [] step = "wake"   -> <<"release-wake">>
         [] step = "halt"   -> <<"release-halt">>
         [] OTHER           -> <<>>

\* Identity, stored target and topology, required of every reading; a setting
\* checks only that the answering radio is the stored one.
Stable ==
  job.kind # "setting" => target = job.frozen /\ radio.zone = job.before.zone

\* A selection may have moved on by itself: buffering of the requested content
\* ends. After its start a safe command corrects volume and mute whatever the
\* player does.
SameSelection ==
  LET old == job.cur.sel
      active == {"loading", "playing"}
  IN  \/ radio.sel = old
      \/ job.kind \in KeyKinds /\ job.writes > 0 /\ old = "loading" /\ radio.sel \in active
      \/ job.kind \in StationKinds /\ old = "loading" /\ radio.sel = "playing"
      \/ job.kind \in StationKinds /\ job.sent /\ old \in active /\ radio.sel \in active
      \/ job.armed /\ job.sent /\ Step \in {"volume", "mute"}

\* The radio is still in the state the next write was decided on. A setting
\* compares its own value only.
Comparable ==
  /\ radio.vol = job.cur.vol
  /\ job.kind # "setting" => radio.mute = job.cur.mute /\ SameSelection

\* The final state a command may report.
Match(s) ==
  CASE job.kind = "stop" -> s.sel \in {"standby", "stopped"}
    [] job.kind \in {"preset", "resume"} -> s.sel = "playing"
    [] OTHER -> s.sel \in {"loading", "playing"}

Restored(s) ==
  /\ job.kind # "setting" => s.mute = job.before.mute
  /\ job.kind \notin SafeKinds \cup {"timer", "setting"} => s.vol = job.before.vol
  /\ job.kind \in SafeKinds \cup {"timer"} => s.vol = "low"

-----------------------------------------------------------------------------
(* One command, step by step. *)

\* The lock of the radio: one command or one reconnect at a time.
Free == job.pc = "none" /\ \A t \in Tasks : rc[t].pc \notin RcHolding

Other == <<target, optIn, report, faults>>

Revoked == [hist EXCEPT !.revoked = {t \in Tasks : rc[t].pc # "idle"}]

\* A new safe command answers for its own audio only.
Forget(h, k) == IF k \in SafeKinds THEN [h EXCEPT !.by = "none", !.touched = FALSE] ELSE h

\* A direct selection is already intended; keys and stations read a second time.
FirstPc(k) ==
  CASE k = "select" -> "recheck"
    [] k \in KeyKinds \cup StationKinds -> "open"
    [] OTHER -> "check"

\* The lock is taken, the target frozen, the radio read, and START committed.
\* A direct selection commits its intent with START; a station cancels the
\* reconnect with it. A locked radio refuses the command, and so does a zone,
\* unless the caller (a group or an alarm) names its participants.
Begin(k, grouped) ==
  /\ Free /\ jobs < MaxJobs /\ jobs' = jobs + 1
  /\ grouped => k \in KeyKinds \cup StationKinds
  /\ LET refused == \/ k \in StationKinds /\ audioLock
                    \/ k # "setting" /\ radio.zone # 0 /\ ~grouped
     IN  /\ job' = [NoJob EXCEPT
                      !.kind = k, !.outcome = "open", !.frozen = target,
                      !.before = Snap, !.cur = Snap, !.todo = Program(k),
                      !.intents = IF k = "select" /\ ~refused THEN 1 ELSE 0,
                      !.pc = IF refused THEN "fail" ELSE FirstPc(k)]
         /\ IF k \in StationKinds /\ ~refused
            THEN cancel /\ hist' = Forget(Revoked, k)
            ELSE UNCHANGED <<row, rc>> /\ hist' = Forget(hist, k)
  /\ UNCHANGED <<radio, gate, audioLock>> /\ UNCHANGED Other

At(pc) == job.pc = pc /\ UNCHANGED <<audioLock, jobs>> /\ UNCHANGED Other

\* The second reading: START is still the state of the radio.
Open ==
  /\ At("open") /\ Stable /\ Comparable
  /\ job' = [job EXCEPT !.pc = "check", !.cur = Snap]
  /\ UNCHANGED <<radio, row, rc, gate, hist>>

\* A value that is already right; for a setting that is the whole command.
Skip ==
  /\ At("check") /\ Step \in WriteSteps /\ ~Needed
  /\ job.kind = "setting" => Comparable
  /\ job' = IF job.kind = "setting"
            THEN [NoJob EXCEPT !.kind = job.kind, !.outcome = "UNCHANGED"]
            ELSE [job EXCEPT !.todo = Rest]
  /\ UNCHANGED <<radio, row, rc, gate, hist>>

\* A reading that still agrees, then the durable intent; power and manual
\* commands cancel the reconnect in the same commit.
Intend ==
  /\ At("check") /\ Step \in WriteSteps /\ Needed /\ Stable /\ Comparable
  /\ job' = [job EXCEPT !.intents = @ + 1,
                        !.pc = IF job.kind = "setting" THEN "send" ELSE "recheck"]
  /\ IF job.kind \in {"power", "lowpower", "manual"}
     THEN cancel /\ hist' = Revoked
     ELSE UNCHANGED <<row, rc, hist>>
  /\ UNCHANGED <<radio, gate>>

\* The reading after the intent; the request leaves next.
Recheck ==
  /\ At("recheck") /\ Stable /\ Comparable
  /\ job' = [job EXCEPT !.pc = "send"]
  /\ UNCHANGED <<radio, row, rc, gate, hist>>

\* Requests that post_xml lets cancel a queued reconnect.
KeyOrSelect == WriteSteps \ {"volume", "set", "standby", "native"}

CarriesOnAfterLost(reply) ==
  reply # "rejected" \/ job.kind \in {"select", "power", "lowpower", "manual", "setting"}

\* Whether the command goes on after an answer that is not a success.
CarriesOn(reply) ==
  \/ reply = "ok"
  \/ job.kind \in {"select", "power", "lowpower", "manual", "setting"}
  \/ job.kind \in {"timer", "plain"} /\ Step = "select" /\ reply = "lost"

\* A rejected safe selection is followed by a safety shutdown.
ShutsDown(reply) == job.kind = "station" /\ Step = "select" /\ reply = "rejected"

Starts == {"start", "select"}

\* Who is responsible for the audio after this request.
Credited(h) ==
  CASE Step = "fallback" -> [h EXCEPT !.by = "fallback"]
    [] Step \in Starts ->
         [h EXCEPT !.by = IF ~job.armed THEN "other"
                          ELSE IF radio.sel # "standby" /\ radio'.pend THEN "late" ELSE "safe"]
    [] Step \in {"wake", "native"} -> [h EXCEPT !.by = "other"]
    [] Step = "set" -> [h EXCEPT !.touched = TRUE]
    [] OTHER -> h

\* A key of execute_key is pressed and released under one intent.
Pressed == job.kind \in KeyKinds /\ Step \in {"mute", "unmute", "start", "stop"}

\* The request: it reaches the radio or not, and is answered, rejected or lost.
Send(reply) ==
  /\ At("send")
  /\ radio' \in Effect(Step) \cup (IF reply = "ok" THEN {} ELSE {radio})
  /\ job' = [job EXCEPT
               !.writes = @ + 1,
               !.sent = @ \/ (reply = "ok" /\ Step \in Starts),
               !.lost = @ \/ reply # "ok",
               !.held = reply = "ok" /\ Pressed,
               !.pc = IF CarriesOn(reply) \/ ShutsDown(reply) THEN "read" ELSE "fail",
               !.todo = IF ShutsDown(reply)
                        THEN <<Step, "halt", "standby", "volume", "raise">> ELSE @]
  /\ \/ Step \in KeyOrSelect /\ cancel /\ hist' = Credited(Revoked)
     \/ UNCHANGED <<row, rc>> /\ hist' = Credited(hist)
  /\ UNCHANGED gate

\* The release of an acknowledged key: identity and target are checked again,
\* the state is not; a lost or rejected release ends the command.
LetGo(reply) ==
  /\ At("read") /\ job.held /\ target = job.frozen
  /\ job' = [job EXCEPT !.held = FALSE, !.lost = @ \/ reply # "ok",
                        !.pc = IF reply = "ok" THEN "read" ELSE "fail"]
  /\ \/ cancel /\ hist' = Revoked
     \/ UNCHANGED <<row, rc, hist>>
  /\ UNCHANGED <<radio, gate>>

\* The reading after the request.
Readback ==
  /\ At("read") /\ ~job.held /\ Stable /\ Confirmed(Step, Snap)
  /\ job.kind \in StationKinds /\ Step \in {"volume", "mute", "unmute", "release-mute", "release-unmute"}
       => SameSelection
  /\ job' = [job EXCEPT
               !.pc = "check", !.cur = Snap,
               !.todo = Release(Step) \o
                        IF job.kind = "timer" /\ job.lost THEN Tail(Rest) ELSE Rest]
  /\ UNCHANGED <<radio, row, rc, gate, hist>>

\* A power or manual command that promises nothing goes on without a reading.
Unread ==
  /\ At("read")
  /\ job.kind \in {"lowpower", "manual"} \/ (job.kind = "power" /\ job.lost)
  /\ job' = [job EXCEPT !.pc = "check", !.todo = Rest]
  /\ UNCHANGED <<radio, row, rc, gate, hist>>

Advance == job' = [job EXCEPT !.todo = Rest, !.polls = 0]

Arm ==
  /\ At("check") /\ Step = "arm"
  /\ arm_playback_safety_gate
  /\ job' = [job EXCEPT !.todo = Rest, !.armed = TRUE]
  /\ UNCHANGED <<radio, row, rc, hist>>

AwaitedAtOnce == Step = "depart" \/ Match(job.cur)

\* What the waiting loops wait for.
Awaited ==
  CASE Step = "depart" -> job.before.sel = "standby" => job.cur.sel # "standby"
    [] OTHER           -> Match(job.cur)

Poll ==
  /\ At("check") /\ Step \in {"depart", "match"} /\ ~Awaited
  /\ job.polls < MaxPolls /\ Stable
  /\ job' = [job EXCEPT !.cur = Snap, !.polls = @ + 1]
  /\ UNCHANGED <<radio, row, rc, gate, hist>>

Arrive ==
  /\ At("check") /\ Step \in {"depart", "match", "matched"} /\ Awaited
  /\ Advance
  /\ UNCHANGED <<radio, row, rc, gate, hist>>

Verify ==
  /\ At("check") /\ Step = "verify" /\ CanVerify(job.cur)
  /\ verify_playback_safety_gate
  /\ Advance
  /\ UNCHANGED <<radio, row, rc, hist>>

\* The preset failed definitely: its content is selected directly, once.
Fallback ==
  /\ At("check") /\ Step = "match" /\ job.kind = "preset"
  /\ job.polls = MaxPolls /\ job.cur.sel = "invalid"
  /\ job' = [job EXCEPT !.todo = <<"fallback", "volume", "matched">> \o Rest, !.polls = 0]
  /\ UNCHANGED <<radio, row, rc, gate, hist>>

Clear ==
  /\ At("check") /\ Step = "clear" /\ Match(job.cur) /\ Restored(job.cur)
  /\ target = job.frozen
  /\ clear_playback_safety_gate
  /\ job' = [job EXCEPT !.todo = Rest, !.armed = FALSE]
  /\ UNCHANGED <<radio, row, rc, hist>>

\* What the caller is told when the last reading is accepted.
Result ==
  CASE job.kind \in KeyKinds -> "VERIFIED"
    [] job.kind = "power" -> IF job.lost THEN "PENDING" ELSE "VERIFIED"
    [] job.kind \in {"lowpower", "manual"} -> "PENDING"
    [] job.kind = "setting" -> "VERIFIED"
    [] OTHER -> IF job.cur.sel = "playing" THEN "VERIFIED" ELSE "PENDING"

Acceptable ==
  CASE job.kind = "power" -> job.lost \/ (job.cur.sel = "standby" /\ Restored(job.cur))
    [] job.kind \in {"lowpower", "manual", "setting"} -> TRUE
    [] OTHER -> Match(job.cur) /\ Restored(job.cur)

\* The final commit; a verified stop takes the reconnect with it.
Finish ==
  /\ At("check") /\ Step = "finish" /\ Acceptable
  /\ job.kind # "setting" => target = job.frozen
  /\ job' = [NoJob EXCEPT !.kind = job.kind, !.outcome = Result]
  /\ IF job.kind = "stop" THEN cancel /\ hist' = Revoked ELSE UNCHANGED <<row, rc, hist>>
  /\ UNCHANGED <<radio, gate>>

FailureByAnswer == IF job.sent THEN "DIVERGED" ELSE "BLOCKED"

\* Told by the flag that is set before a request leaves, not by its answer.
Failure == IF job.writes > 0 THEN "DIVERGED" ELSE "BLOCKED"

\* Anything else: a comparison, a reading, a commit or a wait fails. An armed
\* gate is failed, and a safe station locks the radio's audio, if the database
\* allows.
Fail ==
  /\ job.pc \notin {"none", "send"}
  /\ job' = [NoJob EXCEPT !.kind = job.kind, !.outcome = Failure]
  /\ LET locks == job.kind = "station" /\ (job.armed \/ job.writes > 0)
     IN  /\ IF job.armed \/ locks THEN fail_playback_safety_gate ELSE UNCHANGED gate
         /\ audioLock' \in {audioLock, locks \/ audioLock}
  /\ UNCHANGED <<radio, row, rc, jobs, hist>> /\ UNCHANGED Other

JobStep ==
  \/ Open \/ Skip \/ Intend \/ Recheck \/ Readback \/ Unread
  \/ Arm \/ Poll \/ Arrive \/ Verify \/ Fallback \/ Clear \/ Finish \/ Fail
  \/ \E reply \in {"ok", "lost", "rejected"} : Send(reply) \/ LetGo(reply)

\* The web process dies in the middle of a command; nothing resumes it.
Crash ==
  /\ job.pc # "none" /\ faults < MaxFaults /\ faults' = faults + 1
  /\ job' = [NoJob EXCEPT !.kind = job.kind, !.outcome = "LOST"]
  /\ UNCHANGED <<radio, target, optIn, row, rc, report, gate, audioLock, jobs, hist>>

\* The dedicated check stops the radio, lowers it and opens the audio lock.
UnlockAudio ==
  /\ audioLock /\ Free /\ audioLock' = FALSE
  /\ radio' = [radio EXCEPT !.sel = "standby", !.vol = "low", !.mute = FALSE, !.pend = FALSE]
  /\ UNCHANGED <<target, optIn, row, rc, report, gate, job, jobs, faults, hist>>

-----------------------------------------------------------------------------
Quiet == UNCHANGED <<gate, audioLock, job, jobs>>

Outside ==
  /\ faults < MaxFaults /\ faults' = faults + 1
  /\ OutsideChange
  /\ hist' = [hist EXCEPT !.touched = TRUE]
  /\ UNCHANGED reconnectVars /\ Quiet

Firmware == FirmwareActivates /\ UNCHANGED <<optIn, row, rc, report, faults, hist>> /\ Quiet

Ended == hist' = [hist EXCEPT !.revoked = {t \in @ : rc'[t].pc # "idle"}]

Preference ==
  /\ faults < MaxFaults /\ faults' = faults + 1
  /\ save_preference /\ hist' = Revoked /\ Quiet
Report == observe_report /\ UNCHANGED <<faults, hist>> /\ Quiet
Ends == (StreamEnds \/ StopReported) /\ UNCHANGED <<faults, hist>> /\ Quiet
Restarts == CloudRestarts /\ Ended /\ UNCHANGED faults /\ Quiet

RcStep(t) ==
  \/ RcRead(t) /\ Free /\ UNCHANGED <<faults, hist>> /\ Quiet
  \/ RcClaim(t) /\ UNCHANGED <<faults, hist>> /\ Quiet
  \/ RcPost(t) /\ hist' = [hist EXCEPT !.by = "other"] /\ UNCHANGED faults /\ Quiet
  \/ RcEnd(t) /\ Ended /\ UNCHANGED faults /\ Quiet

Next ==
  \/ \E k \in (IF optIn THEN OptInKinds ELSE Kinds), grouped \in BOOLEAN : Begin(k, grouped)
  \/ JobStep \/ Crash \/ UnlockAudio
  \/ ProviderServes \/ ProviderServesUnknown \/ ProviderRefuses \/ GateExpires
  \/ Firmware \/ Outside
  \/ Preference \/ Report \/ Ends \/ Restarts
  \/ \E t \in Tasks : RcStep(t)

Spec == Init /\ [][Next]_vars

-----------------------------------------------------------------------------
(* Properties. *)

\* Audio that a safe key or station started, that nobody outside touched since,
\* and that the radio asked for under its own address, is never playing loud and
\* unmuted: not while the firmware restores a volume, not after a lost answer, a
\* failed command or a crash between arming the gate and clearing it
\* (playback_safety_gate.py, key_actions.py and station_playback.py together).
\* Not covered (README): the direct selection after a failed preset, which the
\* gate verified for the preset lets pass unread; a start that the radio
\* acknowledges outside standby and carries out later, since the readings that
\* open the gate may then precede it; and a request attributed to no radio, which
\* the provider answers without asking the gate.
AudioSafe ==
  hist.by = "safe" /\ ~hist.touched /\ radio.sel = "playing"
    => radio.vol = "low" \/ radio.mute

\* After an answer that was lost or refused a composite command writes nothing
\* more, except the shutdown of a rejected safe selection: no release, no
\* fallback, no correction on an unknown state (key_actions.py:253-260 and
\* 318-323, station_playback.py:233-236).
QuietAfterLost ==
  [][job.lost /\ job'.outcome = "open" /\ job'.writes > job.writes
       => job.todo # <<>> /\ job.todo[Len(job.todo)] = "raise"]_vars

\* A reconnect never selects for a session that a later command, stop, power
\* off, manual command or change of the opt-in has durably revoked, whatever
\* the task had read, waited for or claimed before (live_radio_reconnect.py,
\* soundtouch_client.py:258-274).
NoRevival == [][\A t \in Tasks : RcPost(t) => t \notin hist.revoked]_vars

\* Intents and writes of the command, and what its caller is told, follow the
\* ledger every radio service promises (CommandLedger).
Ledger == INSTANCE CommandLedger WITH
            intents <- job.intents, writes <- job.writes, outcome <- job.outcome

LedgerSpec == Ledger!LedgerSpec

=============================================================================
