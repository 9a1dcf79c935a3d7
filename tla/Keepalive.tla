----------------------------- MODULE Keepalive -----------------------------
(***************************************************************************)
(* The background polls of one radio (playback_keepalive.py), one for each *)
(* process that runs the loop, with the policy that gates them             *)
(* (device_policy.py), rediscovery after failures (ssdp_discovery.py), the *)
(* refresh, the state read and the quick fixes that write the same rows    *)
(* without the device lock (device_service.py, device_state.py,            *)
(* quick_fixes.py) and commands, which hold it.                            *)
(*                                                                         *)
(* A poll copies the stored runtime state, reads the radio, and writes the *)
(* whole copy back.  What the radio plays is abstracted to playing,        *)
(* stopped or INVALID_SOURCE, the backoff to whether a retry time is       *)
(* stored and whether it lies ahead.  Metadata, restriction timers, play   *)
(* history and health projections are left out.                            *)
(***************************************************************************)
EXTENDS Naturals

CONSTANTS
  Pollers,       \* processes that run the loop
  Offline,       \* OFFLINE_FAILURE_THRESHOLD: 3 in the code
  Pause,         \* KEEPALIVE_PAUSE_FAILURE_THRESHOLD: 5 in the code
  MaxChanges,    \* changes at the radio
  MaxCalls,      \* requests of users: refreshes, fixes, settings, commands
  MaxFaults      \* commits that fail

ASSUME KeepaliveAssumption ==
  /\ {"none", "command"} \cap Pollers = {}
  /\ Offline \in Nat \ {0} /\ Pause \in Nat /\ Offline <= Pause
  /\ MaxChanges \in Nat /\ MaxCalls \in Nat /\ MaxFaults \in Nat

VARIABLES
  radio,         \* whether it answers and what it would report
  device,        \* devices row: failure_count, reachable
  safe,          \* devices row: safe_mode is ALWAYS
  ka,            \* playback_keepalive in the runtime state
  ahead,         \* the stored retry time lies in the future
  poll,          \* the poll of each process
  owner,         \* holder of the device lock
  diagnosed,     \* history: diagnoses since the source was last seen valid or
                 \* the memory of it was last discarded
  changes, calls, faults

keepaliveVars == <<radio, device, safe, ka, ahead, poll, owner, diagnosed,
                   changes, calls, faults>>

Reports == {"play", "stop", "invalid"}

\* retry: next_retry_at is stored; invalid: last_source is INVALID_SOURCE.
NoKeepalive == [failures |-> 0, retry |-> FALSE, invalid |-> FALSE, manual |-> FALSE]

\* copy: the runtime state as loaded; saw: the radio's answer; open: the policy
\* found the circuit open or, for a second reading, safe mode; first: no
\* rediscovery was made in this poll.
NoPoll == [pc |-> "idle", copy |-> NoKeepalive, saw |-> "stop", open |-> FALSE, first |-> TRUE]

\* Working: the poll owns the radio.
Working == {"read", "save", "recover", "failed"}

KeepaliveInit ==
  /\ radio \in [online : BOOLEAN, report : Reports]
  /\ device = [failures |-> 0, reachable |-> TRUE]
  /\ safe \in BOOLEAN
  /\ ka = NoKeepalive /\ ahead = FALSE
  /\ poll = [p \in Pollers |-> NoPoll] /\ owner = "none"
  /\ diagnosed = 0
  /\ changes = 0 /\ calls = 0 /\ faults = 0

-----------------------------------------------------------------------------
(***************************************************************************)
(* Policy                                                                  *)
(***************************************************************************)

Larger(a, b) == IF a < b THEN b ELSE a
Failures == Larger(ka.failures, device.failures)

\* Mutant: an open circuit is left by a reset only.
CircuitStuck == Failures >= Pause

\* Open until the stored retry time has passed, then half open.
CircuitOpen == Failures >= Pause /\ ~(ka.retry /\ ~ahead)

\* Backoff, or safe mode: as a setting, or activated by an open circuit.
Denied == safe \/ (ka.retry /\ ahead) \/ CircuitOpen

\* The third failure is the first with a backoff.
Backoff(n) == n >= 3

-----------------------------------------------------------------------------
(***************************************************************************)
(* One poll                                                                *)
(***************************************************************************)

Idle(p) == poll' = [poll EXCEPT ![p] = NoPoll]
Goes(p, pc, k, open) == poll' = [poll EXCEPT ![p] = [NoPoll EXCEPT !.pc = pc, !.copy = k, !.open = open]]
Outside == UNCHANGED <<radio, safe, changes, calls>>

\* A denied radio with failures is looked for first.  (The attempt is stored,
\* but overwritten with the copy at once, so that another is always due.)
PollStarts(p) ==
  /\ poll[p].pc = "idle"
  /\ \/ ~Denied /\ Goes(p, "enter", NoKeepalive, FALSE)
     \/ Denied /\ Failures > 0 /\ Goes(p, "find", ka, CircuitOpen)
     \/ Denied /\ Failures = 0 /\ Goes(p, "skip", ka, FALSE)
  /\ Outside /\ UNCHANGED <<device, ka, ahead, owner, diagnosed, faults>>

\* A verified rediscovery clears the failures in both rows.
Found ==
  /\ radio.online
  /\ device' = [failures |-> 0, reachable |-> TRUE]
  /\ ka' = [ka EXCEPT !.failures = 0, !.retry = FALSE]
  /\ UNCHANGED ahead

\* The radio is looked for without the lock, and the policy asked again.
Finds(p) ==
  /\ poll[p].pc = "find"
  /\ Found
  /\ \/ ~safe /\ Goes(p, "enter", NoKeepalive, FALSE)
     \/ safe /\ Goes(p, "skip", ka', FALSE)
  /\ Outside /\ UNCHANGED <<owner, diagnosed, faults>>

\* The skip is noted in the copy that was loaded, which is written over
\* whatever was stored meanwhile; an open circuit without a retry time gets one.
Skip(p) ==
  LET k == poll[p].copy
  IN /\ poll[p].pc \in {"find", "skip"}
     /\ ka' = [k EXCEPT !.retry = @ \/ poll[p].open]
     /\ ahead' = (ahead \/ (poll[p].open /\ ~k.retry))
     /\ diagnosed' = IF ka.invalid /\ ~k.invalid THEN 0 ELSE diagnosed
     /\ Idle(p)
     /\ Outside /\ UNCHANGED <<device, owner, faults>>

\* The lock is seen held, maybe by another process that only tests it.
Busy(p) ==
  /\ poll[p].pc = "enter"
  /\ owner # "none" \/ \E q \in Pollers \ {p} : poll[q].pc = "enter"
  /\ Idle(p)
  /\ Outside /\ UNCHANGED <<device, ka, ahead, owner, diagnosed, faults>>

\* Under the lock the state is loaded again, with its retry time; the policy
\* is not asked again.
Enters(p) ==
  /\ poll[p].pc = "enter" /\ owner = "none"
  /\ \/ ka.retry /\ ahead /\ Idle(p) /\ UNCHANGED owner
     \/ ~(ka.retry /\ ahead) /\ Goes(p, "read", ka, FALSE) /\ owner' = p
  /\ Outside /\ UNCHANGED <<device, ka, ahead, diagnosed, faults>>

\* /now_playing and /volume are read.  The transition to INVALID_SOURCE is
\* diagnosed with further reads, whose failures are only noted.
Reads(p) ==
  /\ poll[p].pc = "read"
  /\ poll' = IF ~radio.online THEN [poll EXCEPT ![p].pc = "failed"]
             ELSE [poll EXCEPT ![p].pc = "save", ![p].saw = radio.report]
  /\ Outside /\ UNCHANGED <<device, ka, ahead, owner, diagnosed, faults>>

Transition(p) == poll[p].saw = "invalid" /\ ~poll[p].copy.invalid

\* Mutant: the source is forgotten.
ForgetsSource(p) ==
  [failures |-> 0, retry |-> FALSE, invalid |-> FALSE,
   manual |-> poll[p].saw # "play" /\ (poll[p].copy.manual \/ poll[p].saw = "stop")]

\* manual_stop stays until the radio is seen playing.
Observed(p) ==
  [failures |-> 0, retry |-> FALSE, invalid |-> poll[p].saw = "invalid",
   manual |-> poll[p].saw # "play" /\ (poll[p].copy.manual \/ poll[p].saw = "stop")]

Recovers(p) == Transition(p) /\ ~Observed(p).manual /\ ~poll[p].open

\* Runtime state, device row and diagnosis are one commit.  If it fails they are
\* rolled back and the runtime state alone is stored.  A stalled playback is
\* recovered, too.
Saves(p) ==
  /\ poll[p].pc = "save"
  /\ ka' = Observed(p)
  /\ \/ /\ device' = [failures |-> 0, reachable |-> TRUE]
        /\ diagnosed' = IF Transition(p) THEN diagnosed + 1
                        ELSE IF poll[p].saw = "invalid" THEN diagnosed ELSE 0
        /\ UNCHANGED faults
     \/ /\ faults < MaxFaults /\ faults' = faults + 1
        /\ diagnosed' = IF poll[p].saw = "invalid" THEN diagnosed ELSE 0
        /\ UNCHANGED device
  /\ \E stalled \in {FALSE, poll[p].saw = "play"} :
       IF Recovers(p) \/ stalled
       THEN Goes(p, "recover", Observed(p), FALSE) /\ UNCHANGED owner
       ELSE Idle(p) /\ owner' = "none"
  /\ Outside /\ UNCHANGED ahead

\* Safe recovery reads the radio and the provider and stores the copy with what
\* it saw, unless it failed before.
Recovery(p) ==
  /\ poll[p].pc = "recover"
  /\ ka' \in {ka, poll[p].copy}
  /\ Idle(p) /\ owner' = "none"
  /\ Outside /\ UNCHANGED <<device, ahead, diagnosed, faults>>

\* The transport failed: the radio is looked for and, once found, read again.
Refinds(p) ==
  /\ poll[p].pc = "failed" /\ poll[p].first
  /\ Found
  /\ poll' = [poll EXCEPT ![p] = [NoPoll EXCEPT !.pc = "read", !.copy = ka', !.first = FALSE, !.open = safe]]
  /\ Outside /\ UNCHANGED <<owner, diagnosed, faults>>

\* The failure is counted from the larger of both counters; the third marks the
\* radio offline.
Fails(p) ==
  LET n == Larger(poll[p].copy.failures, device.failures) + 1
      capped == IF n > Pause THEN Pause ELSE n
  IN /\ poll[p].pc = "failed"
     /\ ka' = [poll[p].copy EXCEPT !.failures = capped, !.retry = Backoff(n)]
     /\ ahead' = Backoff(n)
     /\ \/ /\ device' = [failures |-> capped, reachable |-> device.reachable /\ n < Offline]
           /\ UNCHANGED faults
        \/ /\ faults < MaxFaults /\ faults' = faults + 1
           /\ UNCHANGED device
     /\ Idle(p) /\ owner' = "none"
     /\ Outside /\ UNCHANGED diagnosed

-----------------------------------------------------------------------------
(***************************************************************************)
(* Others                                                                  *)
(***************************************************************************)

Elapses ==
  /\ ahead /\ ahead' = FALSE
  /\ Outside /\ UNCHANGED <<device, ka, poll, owner, diagnosed, faults>>

RadioChanges ==
  /\ changes < MaxChanges /\ changes' = changes + 1
  /\ radio' \in [online : BOOLEAN, report : Reports] \ {radio}
  /\ UNCHANGED <<device, safe, ka, ahead, poll, owner, diagnosed, calls, faults>>

Call == calls < MaxCalls /\ calls' = calls + 1 /\ UNCHANGED <<radio, ahead, poll, changes, faults>>

\* refresh_device reads /info and writes the device row, without the lock.
Refresh ==
  /\ Call
  /\ device' = IF radio.online THEN [failures |-> 0, reachable |-> TRUE]
               ELSE [failures |-> IF device.failures < Pause THEN device.failures + 1 ELSE Pause,
                     reachable |-> device.reachable /\ device.failures + 1 < 3]
  /\ UNCHANGED <<safe, ka, owner, diagnosed>>

\* reset_circuit_breaker (both rows) and reset_polling_state, without the lock.
QuickFix ==
  /\ Call
  /\ ka' = NoKeepalive /\ diagnosed' = 0
  /\ \/ device' = [failures |-> 0, reachable |-> TRUE]
     \/ UNCHANGED device
  /\ UNCHANGED <<safe, owner>>

\* read_device_state stores a fresh snapshot, which has no poll state, whether
\* the radio answers or not, without the lock.
ReadState ==
  /\ Call
  /\ ka' = NoKeepalive /\ diagnosed' = 0
  /\ UNCHANGED <<device, safe, owner>>

\* ALWAYS is set or taken back.
SetSafeMode ==
  /\ Call
  /\ safe' = ~safe
  /\ UNCHANGED <<device, ka, owner, diagnosed>>

\* A command owns the radio.
CommandStarts ==
  /\ Call
  /\ owner = "none" /\ owner' = "command"
  /\ UNCHANGED <<device, safe, ka, diagnosed>>

CommandEnds ==
  /\ owner = "command" /\ owner' = "none"
  /\ Outside /\ UNCHANGED <<device, ka, ahead, poll, diagnosed, faults>>

-----------------------------------------------------------------------------
Polls(p) ==
  \/ PollStarts(p) \/ Finds(p) \/ Skip(p) \/ Busy(p) \/ Enters(p)
  \/ Reads(p) \/ Saves(p) \/ Recovery(p) \/ Refinds(p) \/ Fails(p)

KeepaliveNext ==
  \/ \E p \in Pollers :
       \/ PollStarts(p) \/ Finds(p) \/ Skip(p) \/ Busy(p) \/ Enters(p)
       \/ Reads(p) \/ Saves(p) \/ Recovery(p) \/ Refinds(p) \/ Fails(p)
  \/ Elapses \/ RadioChanges
  \/ Refresh \/ QuickFix \/ ReadState \/ SetSafeMode \/ CommandStarts \/ CommandEnds

\* The loop goes on after every pass, a backoff ends, a command lets go.  A test of
\* the lock lasts no time: two processes do not meet in theirs for ever.
KeepaliveSpec ==
  /\ KeepaliveInit /\ [][KeepaliveNext]_keepaliveVars
  /\ \A p \in Pollers : WF_keepaliveVars(Polls(p)) /\ SF_keepaliveVars(Enters(p))
  /\ WF_keepaliveVars(Elapses) /\ WF_keepaliveVars(CommandEnds)

-----------------------------------------------------------------------------
(***************************************************************************)
(* Properties                                                              *)
(***************************************************************************)

\* A radio that answers again is not left marked offline: backoff and open
\* circuit end, whatever copies were written back meanwhile.  The setting that
\* puts the radio into safe mode for good is exempt, because no poll is made
\* under it (device_policy.py:225, 276, playback_keepalive.py:849).
ComesBack ==
  radio.online /\ ~device.reachable ~> device.reachable \/ ~radio.online \/ safe

\* An INVALID_SOURCE that lasts is diagnosed once, over failing polls, failing
\* commits, recoveries and polls of several processes.  Only a request that
\* discards the poll state, or another process that skips a poll and writes an
\* older copy back, brings another diagnosis (playback_keepalive.py:1059).
DiagnosedOnce == diagnosed <= 1

=============================================================================
