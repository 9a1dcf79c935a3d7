---------------------------- MODULE AirPlayPilot ----------------------------
(***************************************************************************)
(* An AirPlay session (airplay_bridge/): the journal of the session service, *)
(* the foreground that prepares, groups and restores radios, the monitor   *)
(* that watches the receivers beside it, the audio control both use, and   *)
(* the relay worker in the receiver's process, which reads commands from   *)
(* one file and acknowledges them in another.                              *)
(*                                                                         *)
(* A command's sequence number, epoch and time are abstracted to whether   *)
(* it is the latest and whether it has lapsed (max_age).  A volume is the  *)
(* session's or another.  Reads, records and receivers that fail are       *)
(* Raises.  Metadata, volume forwarding within the session's ceiling, the  *)
(* latency mode and the encoder are left out.                              *)
(***************************************************************************)
EXTENDS Naturals, FiniteSets

CONSTANTS
  Master, Members,   \* the radios of the session
  MaxOutside         \* radios that somebody else uses meanwhile

ASSUME PilotAssumption ==
  Master \notin Members /\ MaxOutside \in Nat

VARIABLES
  up,          \* the service process: "up", "broken" (journal lost) or "down"
  entry,       \* the session in memory: "LIVE" (STOPPING with stop), "ENDED", "RECOVERY"
  stored,      \* the session in the journal
  fg, mon,     \* foreground and monitor task
  plan,        \* GroupSession.plan
  stop,        \* _stop_requested
  audio,       \* AudioControl
  file,        \* controller.json, and its last command has lapsed
  limbo,       \* a request whose answer nobody waits for any more
  worker,      \* the relay worker and its gate
  ack,         \* controller-ack.json for the latest command
  radio,       \* selection, volume and zone of each radio
  outside      \* the radios somebody else has used

pilotVars == <<up, entry, stored, fg, mon, plan, stop, audio, file, limbo, worker,
               ack, radio, outside>>

Radios == Members \cup {Master}
Untouched == [sel |-> "standby", vol |-> "own", zone |-> FALSE]

Waiting == [status |-> "WAITING", members |-> {}]
Halted == [status |-> "STOPPED", members |-> {}]
Plans == [status : {"ACTIVE"}, members : SUBSET Members]

\* then: where the task goes after an exchange; fresh: plan is the object the
\* foreground works with; todo: radios to write; members: the zone as last
\* verified; norm: radios whose volume may be corrected.
NoFg == [pc |-> "off", op |-> "hold", then |-> "off", fresh |-> TRUE, todo |-> {},
         members |-> {}, norm |-> {}, attempted |-> FALSE, clean |-> TRUE]
NoMon == [pc |-> "off", op |-> "hold", then |-> "off"]
NoAudio == [allowed |-> FALSE, revoked |-> FALSE, by |-> "none", sent |-> FALSE]
NoFile == [cmd |-> "none", lapsed |-> FALSE]
NoWorker == [pc |-> "off", open |-> FALSE]

PilotInit ==
  /\ up = "up" /\ entry = "none" /\ stored = "none"
  /\ fg = NoFg /\ mon = NoMon /\ plan = Waiting /\ stop = FALSE
  /\ audio = NoAudio /\ file = NoFile /\ limbo = "none" /\ worker = NoWorker /\ ack = "none"
  /\ radio = [r \in Radios |-> Untouched]
  /\ outside = {}

serviceVars == <<up, entry, stored>>
audioVars == <<audio, file, limbo, worker, ack>>

-----------------------------------------------------------------------------
(***************************************************************************)
(* AudioControl: one exchange at a time, by the monitor or the foreground   *)
(***************************************************************************)

Revoked == [audio EXCEPT !.revoked = TRUE, !.allowed = FALSE]
Dropped == [Revoked EXCEPT !.by = "none", !.sent = FALSE]

\* accept(): the previous command must not have expired.
Renews == ~file.lapsed

\* The lock is free and a task waits for it: it takes the lock before either
\* task goes on (asyncio.Lock is fair).
Queued == audio.by = "none" /\ (fg.pc = "exchange" \/ mon.pc = "exchange")

\* The command is made and its publication requested.
Begins(task, op) ==
  /\ ~audio.revoked /\ Renews
  /\ audio' = [audio EXCEPT !.by = task, !.sent = FALSE,
                            !.allowed = IF op = "pulse" THEN @ ELSE op = "release"]
  /\ file' = [file EXCEPT !.lapsed = FALSE]
  /\ UNCHANGED <<limbo, worker, ack>>

\* An owner that was retired or has expired makes no command.
Refused == (audio.revoked \/ ~Renews) /\ audio' = Revoked /\ UNCHANGED <<file, limbo, worker, ack>>

Command == IF audio.allowed THEN "release" ELSE "hold"

\* A request may still be carried out when nobody waits for its answer; a hold
\* that comes late makes no difference.
Abandoned ==
  {"none"} \cup (IF audio.by # "none" /\ ~audio.sent THEN {Command} \ {"hold"} ELSE {limbo})

\* A new file: what the worker has acknowledged is an older command.
Put(cmd) ==
  /\ file' = [file EXCEPT !.cmd = cmd]
  /\ ack' = "none" /\ UNCHANGED worker

Published ==
  /\ audio.by # "none" /\ ~audio.sent
  /\ Put(Command)
  /\ audio' = [audio EXCEPT !.sent = TRUE]
  /\ UNCHANGED <<serviceVars, fg, mon, plan, stop, limbo, radio, outside>>

PublishedLate ==
  /\ limbo # "none" /\ ~file.lapsed
  /\ Put(limbo) /\ limbo' = "none"
  /\ UNCHANGED <<serviceVars, fg, mon, plan, stop, audio, radio, outside>>

\* Mutant: the publication of a command is taken for its acknowledgement.
SentIsAcked == audio.sent

\* The worker has acknowledged this very command, and a hold with a closed gate.
Acked == audio.sent /\ ack # "none" /\ (audio.allowed \/ ack = "closed")

Succeeds(task) ==
  /\ audio.by = task /\ Acked /\ ~audio.revoked
  /\ audio' = [audio EXCEPT !.by = "none", !.sent = FALSE]
  /\ UNCHANGED <<file, limbo, worker, ack>>

\* Timeout, unexpected answer, cancellation, or the owner was revoked meanwhile.
Breaks(task) ==
  /\ audio.by = task
  /\ audio' = Dropped /\ limbo' \in Abandoned
  /\ UNCHANGED <<file, worker, ack>>

\* Nothing was heard of the owner for max_age.
Lapse ==
  /\ file.cmd # "none" /\ ~file.lapsed
  /\ file' = [file EXCEPT !.lapsed = TRUE]
  /\ UNCHANGED <<serviceVars, fg, mon, plan, stop, audio, limbo, worker, ack, radio, outside>>

-----------------------------------------------------------------------------
(***************************************************************************)
(* The relay worker                                                        *)
(***************************************************************************)

Environment == UNCHANGED <<serviceVars, fg, mon, plan, stop, audio, file, limbo, radio, outside>>

\* The receiver starts its output on a held command only.
WorkerStarts ==
  /\ worker.pc = "off" /\ file.cmd = "hold" /\ ~file.lapsed
  /\ worker' = [NoWorker EXCEPT !.pc = "on"]
  /\ UNCHANGED ack /\ Environment

\* One turn of its loop: a release opens the gate if the receiver plays, and the
\* command is acknowledged; a command that has lapsed ends the worker.  (A command
\* published during the turn makes its acknowledgement one of an older command.)
WorkerTurns ==
  /\ worker.pc = "on"
  /\ \/ Renews /\ \E open \in {FALSE, file.cmd = "release"} :
          worker' = [worker EXCEPT !.open = open] /\ ack' = IF open THEN "open" ELSE "closed"
     \/ worker' = [pc |-> "dead", open |-> FALSE] /\ UNCHANGED ack
  /\ Environment

Worker == WorkerStarts \/ WorkerTurns

-----------------------------------------------------------------------------
(***************************************************************************)
(* The monitor                                                             *)
(***************************************************************************)

Lost == mon.then = "dead"
Dead == [NoMon EXCEPT !.pc = "dead", !.then = "dead"]
Exchange(op, then) == [pc |-> "exchange", op |-> op, then |-> then]

\* The receivers were read: the same plan or a new one.  The first is new.
Successors ==
  IF mon.pc = "first" THEN {Waiting} \cup Plans
  ELSE CASE plan.status = "WAITING" -> {plan} \cup Plans
         [] plan.status = "ACTIVE" -> Plans \cup {Halted}
         [] OTHER -> {plan}

MonitorObserves ==
  /\ ~Queued
  /\ mon.pc \in {"first", "observe"}
  /\ \E new \in Successors :
       /\ plan' = new
       /\ fg' = [fg EXCEPT !.fresh = @ /\ new = plan]
       /\ mon' = Exchange(IF mon.pc = "first" \/ new # plan \/ stop THEN "hold" ELSE "pulse", "observe")
  /\ UNCHANGED <<serviceVars, stop, radio, outside>> /\ UNCHANGED audioVars

\* An observation failed or the foreground has stalled: a last hold is tried.
MonitorLoses ==
  /\ ~Queued
  /\ mon.pc \in {"first", "observe"}
  /\ mon' = Exchange("hold", "dead")
  /\ UNCHANGED <<serviceVars, fg, plan, stop, radio, outside>> /\ UNCHANGED audioVars

MonitorExchanges ==
  /\ \/ mon.pc = "exchange" /\ audio.by = "none" /\ Begins("mon", mon.op) /\ UNCHANGED mon
     \/ mon.pc = "exchange" /\ audio.by = "none" /\ Refused /\ mon' = Dead
     \/ mon.then = "observe" /\ Succeeds("mon") /\ mon' = [NoMon EXCEPT !.pc = "observe"]
     \/ Breaks("mon") /\ mon' = Dead
  /\ UNCHANGED <<serviceVars, fg, plan, stop, radio, outside>>

\* After its last hold the monitor retires the owner.
MonitorRetires ==
  /\ mon.then = "dead" /\ audio.by = "mon" /\ Acked /\ ~audio.revoked
  /\ audio' = Dropped /\ mon' = Dead
  /\ UNCHANGED <<serviceVars, fg, plan, stop, file, limbo, worker, ack, radio, outside>>

Monitor == MonitorObserves \/ MonitorLoses \/ MonitorExchanges \/ MonitorRetires

-----------------------------------------------------------------------------
(***************************************************************************)
(* The foreground                                                          *)
(***************************************************************************)

WaitScope == {"ready", "wait", "final"}
SourceScope == {"capture", "volume", "select", "playing", "zone", "leave"}
ZoneScope == {"loop", "halt", "apply", "writes", "guard", "post", "readback", "norm", "close"}

ToRestore == [NoFg EXCEPT !.pc = "restore", !.todo = Radios, !.attempted = fg.attempted]
Over(clean) == [NoFg EXCEPT !.pc = "final", !.clean = clean]

\* Where an exception at pc leads: out of the zone and the source scope into the
\* restoration, whose own failure is left to reconciliation.
Unwound(pc) ==
  CASE pc \in WaitScope -> Over(TRUE)
    [] pc \in SourceScope \cup ZoneScope -> ToRestore
    [] pc \in {"restore", "revolume"} -> Over(FALSE)
    [] OTHER -> [NoFg EXCEPT !.pc = "end", !.clean = fg.clean]

\* GroupZone.fail() and the end of its scope retire the owner.
LeavesZone(pc) == audio' = IF pc \in ZoneScope THEN Revoked ELSE audio

Calls(op, then) == [fg EXCEPT !.pc = "exchange", !.op = op, !.then = then]
Goes(pc) == [fg EXCEPT !.pc = pc, !.op = "hold", !.then = "off"]

Foreground == ~Queued /\ UNCHANGED <<serviceVars, mon, plan, stop, outside>>
Silent == UNCHANGED audioVars /\ Foreground
Step(new) == fg' = new /\ UNCHANGED radio /\ Silent

At(pc) == fg.pc = pc

\* A reading, a record, a guard or the transport fails, or the task is cancelled.
Raises ==
  /\ fg.pc \notin {"off", "start", "final", "end"} /\ audio.by # "fg"
  /\ LET pc == IF At("exchange") THEN fg.then ELSE fg.pc
     IN  fg' = Unwound(pc) /\ LeavesZone(pc)
  /\ UNCHANGED <<file, limbo, worker, ack, radio>> /\ Foreground

\* A write with its readback: done, or failed with or without its effect.
Writes(new, next) ==
  \/ radio' = new /\ fg' = next /\ Silent
  \/ /\ radio' \in {radio, new}
     /\ fg' = [Unwound(fg.pc) EXCEPT !.attempted = @ \/ At("volume")] /\ LeavesZone(fg.pc)
     /\ UNCHANGED <<file, limbo, worker, ack>> /\ Foreground

ForegroundExchanges ==
  /\ \/ At("exchange") /\ audio.by = "none" /\ Begins("fg", fg.op) /\ UNCHANGED fg
     \/ At("exchange") /\ audio.by = "none" /\ Refused /\ fg' = Unwound(fg.then)
     \/ Succeeds("fg") /\ fg' = Goes(fg.then)
     \/ Breaks("fg") /\ fg' = Unwound(fg.then)
  /\ UNCHANGED <<serviceVars, mon, plan, stop, radio, outside>>

-----------------------------------------------------------------------------
\* The first acknowledged observation.
Ready == At("ready") /\ mon.pc = "observe" /\ Step(Goes("wait"))

\* run_owned(): waits for the input of every member.
Waits ==
  /\ At("wait") /\ ~Lost
  /\ IF stop THEN Step(Calls("hold", "final"))
     ELSE /\ plan.status = "ACTIVE" /\ plan.members = Members
          /\ Step([fg EXCEPT !.pc = "capture", !.fresh = TRUE])

\* guard_preparation() and require_held().
Held == ~Lost /\ fg.fresh /\ ~audio.revoked /\ ~audio.allowed /\ ~file.lapsed

Preparing == Held /\ ~stop

Captures ==
  /\ At("capture") /\ Preparing
  /\ \A r \in Radios : radio[r].sel = "standby" /\ ~radio[r].zone
  /\ Step([fg EXCEPT !.pc = "volume", !.todo = Radios])

SetsVolume ==
  /\ At("volume") /\ Preparing
  /\ \E r \in fg.todo :
       /\ radio[r].vol = "own"
       /\ Writes([radio EXCEPT ![r].vol = "low"],
                 [fg EXCEPT !.todo = @ \ {r}, !.attempted = TRUE,
                            !.pc = IF fg.todo = {r} THEN "select" ELSE "volume"])

Selects ==
  /\ At("select") /\ Preparing
  /\ \E v \in {"low", "own"} :
       Writes([radio EXCEPT ![Master].sel = "relay", ![Master].vol = v], Goes("playing"))

\* The source plays at the volume it was given, the others are as captured.  A
\* hearing volume above the one of the start is written here, with the gate
\* still held; both are the session's.
Plays ==
  /\ At("playing") /\ Preparing
  /\ radio[Master] = [sel |-> "relay", vol |-> "low", zone |-> FALSE]
  /\ \A r \in Members : radio[r] = [sel |-> "standby", vol |-> "low", zone |-> FALSE]
  /\ Step(Goes("zone"))

\* check_expected() and check_source().
ZoneHolds ==
  /\ radio[Master].sel = "relay" /\ radio[Master].zone = (fg.members # {})
  /\ \A r \in Members : radio[r].zone = (r \in fg.members)

\* run_owned() after the preparation, and group_zone_scope(): no zone as yet.
EntersZone ==
  /\ At("zone") /\ Held
  /\ \/ stop /\ Step(Calls("hold", "leave"))
     \/ ~stop /\ ZoneHolds /\ Step([fg EXCEPT !.pc = "loop", !.fresh = FALSE])

-----------------------------------------------------------------------------
\* Mutant: a stop is left to the monitor.
StopUnseen == FALSE

StopSeen == stop

Loops ==
  /\ At("loop") /\ ~Lost
  /\ Step(IF StopSeen THEN Calls("hold", "halt")
          ELSE Goes(IF fg.fresh THEN "readback" ELSE "apply"))

Halts ==
  /\ At("halt") /\ ~Lost /\ ~Queued
  /\ plan' = Halted
  /\ fg' = [fg EXCEPT !.pc = "apply", !.fresh = FALSE]
  /\ UNCHANGED <<serviceVars, mon, stop, radio, outside>> /\ UNCHANGED audioVars

Applies ==
  /\ At("apply") /\ ~Lost /\ ZoneHolds
  /\ fg' = [(IF plan.status = "ACTIVE" /\ plan.members = fg.members THEN Goes("readback")
             ELSE Calls("hold", "writes")) EXCEPT !.fresh = TRUE, !.norm = {}]
  /\ UNCHANGED radio /\ Silent

\* The next zone of the plan: dissolved at once, members removed one by one, or
\* created with all members.
NextZones ==
  IF plan.status # "ACTIVE" THEN {{}} \ {fg.members}
  ELSE IF fg.members \ plan.members # {} THEN {fg.members \ {r} : r \in fg.members \ plan.members}
  ELSE {plan.members} \ {fg.members}

PlansWrite ==
  /\ At("writes") /\ ~Lost /\ fg.fresh
  /\ Step(IF NextZones # {} THEN Calls("hold", "guard")
          ELSE IF plan.status = "ACTIVE" THEN Goes("readback") ELSE Calls("hold", "close"))

\* After the hold everything is checked again.
Guards == At("guard") /\ ~Lost /\ fg.fresh /\ ZoneHolds /\ Step(Goes("post"))

\* A radio that joins may fall back to a volume of its own.
Regrouped(z, loud) ==
  [r \in Radios |-> [radio[r] EXCEPT !.zone = IF r = Master THEN z # {} ELSE r \in z,
                                     !.vol = IF r \in loud THEN "own" ELSE @]]

Posts ==
  /\ At("post")
  /\ \E z \in NextZones : \E loud \in SUBSET (z \ fg.members) :
       Writes(Regrouped(z, loud), [fg EXCEPT !.pc = "writes", !.members = z, !.norm = loud])

OffVolume == {r \in Radios : radio[r].vol # "low"}

\* A new plan or a stop during the readback goes back to the loop; otherwise
\* volumes are corrected with the gate held, and the audio is released.
ReadsBack ==
  /\ At("readback") /\ ~Lost
  /\ \/ ~fg.fresh /\ Step(Calls("hold", "loop"))
     \/ /\ fg.fresh /\ ZoneHolds /\ OffVolume \subseteq fg.norm
        /\ Step(IF OffVolume # {} THEN Calls("hold", "norm")
                ELSE [Calls(IF stop THEN "hold" ELSE "release", "loop") EXCEPT !.norm = {}])

Normalizes ==
  /\ At("norm") /\ ~Lost
  /\ \/ ~fg.fresh /\ Step(Calls("hold", "loop"))
     \/ /\ fg.fresh /\ ZoneHolds
        /\ \E r \in OffVolume : Writes([radio EXCEPT ![r].vol = "low"], Goes("readback"))

\* The scopes are left in order.
Closes ==
  /\ fg.pc \in {"close", "leave"}
  /\ fg' = ToRestore
  /\ LeavesZone(fg.pc)
  /\ UNCHANGED <<file, limbo, worker, ack, radio>> /\ Foreground

-----------------------------------------------------------------------------
\* PilotSource.restore(), without the audio guard.
Restores ==
  /\ At("restore")
  /\ \/ (~fg.attempted \/ fg.todo = {}) /\ Step(Over(TRUE))
     \/ /\ fg.attempted
        /\ \E r \in fg.todo :
             IF radio[r] = Untouched THEN Step([fg EXCEPT !.todo = @ \ {r}])
             ELSE /\ ~radio[r].zone /\ radio[r].vol = "low" /\ radio[r].sel \in {"relay", "standby"}
                  /\ Writes([radio EXCEPT ![r].sel = "standby"],
                            [fg EXCEPT !.pc = "revolume", !.norm = {r}])

\* Back to the captured volume in standby only.
InStandby(r) == radio[r].sel = "standby" /\ ~radio[r].zone

RestoresVolume ==
  /\ At("revolume")
  /\ \E r \in fg.norm :
       /\ radio[r].vol = "low" /\ InStandby(r)
       /\ Writes([radio EXCEPT ![r].vol = "own"],
                 [fg EXCEPT !.pc = "restore", !.norm = {}, !.todo = @ \ {r}])

\* The monitor is cancelled, in the middle of an exchange too; a last hold.
Finishes ==
  /\ At("final") /\ ~Queued
  /\ mon' = NoMon
  /\ \/ audio.by = "mon" /\ Breaks("mon")
     \/ audio.by = "none" /\ UNCHANGED audioVars
  /\ fg' = Calls("hold", "end")
  /\ UNCHANGED <<serviceVars, plan, stop, radio, outside>>

ForegroundStep ==
  \/ ForegroundExchanges \/ Ready \/ Waits \/ Captures \/ SetsVolume \/ Selects \/ Plays \/ EntersZone
  \/ Loops \/ Halts \/ Applies \/ PlansWrite \/ Guards \/ Posts \/ ReadsBack \/ Normalizes \/ Closes
  \/ Restores \/ RestoresVolume \/ Finishes \/ Raises

-----------------------------------------------------------------------------
(***************************************************************************)
(* The session service                                                     *)
(***************************************************************************)

\* The journal is replaced atomically or not at all.
Saved(state) ==
  \/ stored' = state /\ UNCHANGED up
  \/ up' = "broken" /\ UNCHANGED stored

\* start(): the radios are neither busy nor unreconciled.
Free == entry \notin {"LIVE", "RECOVERY"}

Fresh ==
  /\ mon' = NoMon /\ plan' = Waiting
  /\ audio' = NoAudio /\ file' = NoFile /\ limbo' = "none" /\ worker' = NoWorker /\ ack' = "none"

Starts ==
  /\ up = "up" /\ Free
  /\ \/ /\ stored' = "LIVE" /\ entry' = "LIVE" /\ fg' = [NoFg EXCEPT !.pc = "start"]
        /\ stop' = FALSE /\ UNCHANGED up /\ Fresh
     \/ up' = "broken" /\ UNCHANGED <<stored, entry, fg, stop, mon, plan>> /\ UNCHANGED audioVars
  /\ UNCHANGED <<radio, outside>>

\* _run(): a session that was stopped before it ran is finished.
Runs ==
  /\ At("start")
  /\ IF stop
     THEN fg' = [fg EXCEPT !.pc = "end"] /\ UNCHANGED mon
     ELSE fg' = [fg EXCEPT !.pc = "ready"] /\ mon' = [NoMon EXCEPT !.pc = "first"]
  /\ UNCHANGED <<serviceVars, plan, stop, radio, outside>> /\ UNCHANGED audioVars

Stops ==
  /\ up = "up" /\ entry = "LIVE" /\ ~stop
  /\ Saved("LIVE") /\ stop' = TRUE
  /\ UNCHANGED <<entry, fg, mon, plan, radio, outside>> /\ UNCHANGED audioVars

\* The lifetime of the session is over.
Expires ==
  /\ fg.pc \notin {"off", "start"} /\ ~stop /\ stop' = TRUE
  /\ UNCHANGED <<serviceVars, fg, mon, plan, radio, outside>> /\ UNCHANGED audioVars

\* Mutant: a session that has ended leaves nothing behind.
EndsAnyway == "ENDED"

\* The receipt decides: FINISHED and FAILED both free the radios.
EndState == IF fg.clean THEN "ENDED" ELSE "RECOVERY"

\* The station may remain, too, and a teardown that takes too long is cancelled:
\* both are left to reconciliation.
Ends ==
  /\ At("end")
  /\ entry' \in {EndState, "RECOVERY"}
  /\ Saved(entry') /\ stop' = FALSE
  /\ fg' = NoFg /\ plan' = Waiting /\ audio' = NoAudio
  /\ UNCHANGED <<mon, file, limbo, worker, ack, radio, outside>>

PilotCrash ==
  /\ up # "down" /\ up' = "down" /\ entry' = "none"
  /\ fg' = NoFg /\ mon' = NoMon /\ plan' = Waiting /\ stop' = FALSE
  /\ audio' = NoAudio /\ limbo' \in Abandoned
  /\ UNCHANGED <<stored, file, worker, ack, radio, outside>>

\* _load(): a live session needs reconciliation.
Restarts ==
  /\ up = "down" /\ up' = "up"
  /\ stored' = IF stored = "LIVE" THEN "RECOVERY" ELSE stored
  /\ entry' = stored'
  /\ UNCHANGED <<fg, mon, plan, stop, radio, outside>> /\ UNCHANGED audioVars

\* Somebody else uses a radio.
Outside ==
  /\ Cardinality(outside) < MaxOutside
  /\ \E r \in Radios \ outside :
       /\ \E s \in {radio[r].sel, "standby", "other"} :
            radio' = [radio EXCEPT ![r].sel = s, ![r].vol = "own"]
       /\ outside' = outside \cup {r}
  /\ UNCHANGED <<serviceVars, fg, mon, plan, stop>> /\ UNCHANGED audioVars

-----------------------------------------------------------------------------
PilotNext ==
  \/ ForegroundStep \/ Monitor \/ Worker \/ Published \/ PublishedLate \/ Lapse
  \/ Starts \/ Runs \/ Stops \/ Expires \/ Ends \/ PilotCrash \/ Restarts \/ Outside

\* The tasks of the event loop go on, every await has a timeout, the session a
\* lifetime.  Strong fairness: the foreground waits while the lock is handed to
\* the monitor, which then sleeps for its interval.
PilotSpec ==
  /\ PilotInit /\ [][PilotNext]_pilotVars
  /\ SF_pilotVars(ForegroundStep) /\ WF_pilotVars(Monitor) /\ WF_pilotVars(Runs)
  /\ WF_pilotVars(Ends) /\ WF_pilotVars(Expires)

-----------------------------------------------------------------------------
(***************************************************************************)
(* Properties                                                              *)
(***************************************************************************)

\* A radio that plays the relay while the gate is open has the session's volume,
\* unless somebody else has set it: through joins that change volumes, failures,
\* late commands and the restoration (pilot_source.py:193-210 and 302-305).
BoundedAudio ==
  \A r \in Radios \ outside :
    worker.open /\ radio[Master].sel = "relay" /\ (r = Master \/ radio[r].zone)
      => radio[r].vol = "low"

\* A session begins with radios as they were before the last one, the ones
\* somebody else has used aside: a session that ended in doubt, was not recorded
\* or was interrupted keeps its radios reserved (session_service.py:187, 225-232).
StartsClean == At("start") => \A r \in Radios \ outside : radio[r] = Untouched

\* A session ends: it is stopped at the end of its lifetime, and neither the
\* exchange with the worker nor the teardown waits for ever (pilot_runner.py:405-441).
SessionEnds == entry = "LIVE" ~> entry # "LIVE"
=============================================================================
