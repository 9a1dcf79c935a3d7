# BASSWIESN in TLA+

BASSWIESN is a local server for SoundTouch radios: a FastAPI application with a
SQLite database, background tasks in one or more worker processes, and a
privileged host helper that updates the installation. This directory holds a
formal model of the parts of it that are hard to test: who owns a radio, how
commands, zones and presets survive lost answers and crashes, how background
loops share rows with them, how an AirPlay session gives radios back, and how
setups, restarts and host updates fail. TLC checks the models on small instances
and TLAPS proves the most important properties for every instance.

    cd tla
    tlc -workers 2 -config Commands.cfg RadioCommands
    tlapm RadioRebootsProofs.tla

`PROJECT.json` lists the components, runs, mutants, the map from definitions to
source lines, the hazards, the finding and the theorems.

## 1. Inventory

Paths are relative to `src/basswiesn`.

| Component | State it keeps | Operations | Talks to | What is hard |
|---|---|---|---|---|
| Device ownership (`app/services/device_ownership.py`, `device_policy.device_lock`) | one lock object per radio and worker (`_fd`, `_owner`), the kernel's `flock` table, lock files | `acquire`, `release`, `locked` | every writer to a radio | several workers, polling, cancellation, replaced files |
| Device transactions (`device_transactions.py`) | a context variable, nested scopes | `device_transaction` | ownership | nesting, borrowing, inherited contexts, lock order |
| Update journal (`update_helper/journal.py`) | one JSON file of jobs and events | `begin`, `transition`, `recover_interrupted` | runner, daemon | crash between action and record, I/O errors, capacity |
| Update transaction (`transaction.py`, `host_executor.py`, `installation_cutover.py`, `installation_snapshot.py`, `auth_state.py`) | containers, live files, enrollment, the executor's fields | forward steps, exchange, restore, verify | docker, journal, the running application | every step fails before or after its effect; rollback of a rollback; credentials |
| Artifact staging, onboarding, protocol, service | files on disk | stage, onboard, parse, serve | runner | sequential |
| Setup lease (`setup_rebuild/lease.py`) | one database row | `acquire`, `renew`, `release`, `checkpoint` | coordinator, review, reboots | expiry of a stalled owner |
| Setup coordinator (`coordinator.py`, `states.py`, `repository.py`) | jobs, device rows, the executor | `start`, `execute`, cancel, `rollback`, startup review | lease, ownership, radio adapter | crashes, stalls, two processes, partial failure |
| Radio adapter, SSH, presentation files | the radio | identify, back up, route, restart, roll back | coordinator | device I/O |
| Radio reboots (`radio_reboots.py`) | active row, occurrence claims, job records, tasks | `start`, `tick`, `execute`, `shutdown` | lease, ownership | at most one command, children of a batch, expiry |
| Maintenance reboot, telnet jobs | job rows | request, run | ownership | a second path to a restart |
| Zone change and creation (`zone_changes.py`, `zone_creation.py`, `routers/multiroom.py`) | the zone each radio reports, intent records | clear, remove, create, remote start | ownership, action journal | lost answers, late adoption, readback of many radios, participants read before their locks |
| Key actions, power, station playback, settings | radio state, safety gate, audio lock, intents | press, power, play, set | ownership, provider, reconnect | remembered volumes, unknown outcome, crash inside a command |
| Presets (`preset_*.py`, callbacks in `routers/cloud.py`) | mutations, local rows, the six slots of the radio | store, clone, artwork, remove, download | ownership, the radio's callbacks | crash between radio and database, rows edited without a lock |
| Live reconnect (`live_radio_reconnect.py`) | preference, phase and generation of a row, waiting tasks | arm, report, claim, select | commands of another process | a session revoked between claim and selection |
| Keepalive, device policy (`playback_keepalive.py`, `device_policy.py`) | failure counts, backoff, copies of the runtime state | poll, rediscover, diagnose | refresh, state reads, quick fixes, commands | copies written back over newer rows, by several processes |
| Reporting scheduler and store | queue of 20, attempts, generation | enqueue, process, cancel, rearm | providers | a post in flight while cancelled |
| Alarm engine (`alarm_engine.py`) | marker of the last minute, schedules | claim, trigger, stop | commands, zones, routes that edit schedules | two workers, missed minutes, rows deleted during a pass |
| AirPlay bridge (`airplay_bridge/`) | journal of sessions, command and acknowledgement files, captured radio state | start, stop, hold, release, group, restore | relay worker in another process, radios | late files, two tasks on one control, restoration after any failure |
| Authentication and tokens | administrator, sessions, attempts | login, reset, logout | every router | login against reset |
| Database, migrations, backup | schema version, snapshots | migrate, restore | start-up | crash inside a migration |
| Task registry, life cycle | named tasks | start, stop | all loops | order of shutdown |
| Discovery, metadata, artwork, providers, routers, frontend, tools | caches, requests | read, parse, show | all | parsing and I/O |

The properties that make each modelled part correct are in section 4.

## 2. Modules

| Module | Models |
|---|---|
| `DeviceOwnership` | ownership, lock objects of the workers, nested transactions |
| `CommandLedger` | abstract specification: intents, writes and outcome of any command |
| `RadioState` | the radio as the command services see it, and its firmware |
| `LiveReconnect` | preference, row and tasks of the automatic reconnect; extends `RadioState` |
| `RadioCommands` | explicit commands with gate and provider; extends `LiveReconnect`, implements `CommandLedger` |
| `ZoneJobs` | zone changes and creations; each job implements `CommandLedger` |
| `PresetJobs` | preset transactions and callbacks |
| `ReportingScheduler` | queued reports, runner tasks, provider selection |
| `AlarmEngine` | passes of the workers over the schedules |
| `Keepalive` | background polls of a radio and the other writers of its rows |
| `AirPlayPilot` | AirPlay sessions: service, foreground, monitor, control files, relay gate |
| `UpdateJournal` | abstract specification: what the journal promises, whoever drives it |
| `UpdateTransaction` | runner, executor, exchange, daemon; implements `UpdateJournal` |
| `SetupLease` | abstract specification of the global lease and its operators |
| `SetupCoordinator` | jobs, rows, executors, rollback, review; uses and implements `SetupLease` |
| `RadioReboots` | reboot batches; composed with `SetupLease` and a competing setup |
| `DeviceOwnershipProofs`, `RadioCommandsProofs`, `PresetJobsProofs`, `ReportingProofs`, `AlarmEngineProofs`, `UpdateProofs`, `SetupProofs`, `RadioRebootsProofs` | theorems, section 5 |
| `MC*` | constants and symmetry for TLC |

The modules for commands, zones and presets take from `DeviceOwnership` that a
transaction on a radio is exclusive over all workers (`ExclusiveBody`): one
command, one preset transaction, or disjoint zone jobs hold it at a time.

### DeviceOwnership

`slot[w][d]` is the pair `(_fd, _owner)` of the lock object worker `w` keeps for
radio `d`; `flocks` is the kernel's table; `inode[d]` the file the lock path
leads to; `stack[t]` the scopes of task `t`, each with the targets it still
needs, has acquired itself or only borrows; `active[t]` the context variable.
Code between two awaits is one action: `EnterTransaction` (checks, sorted
order, borrowing), `OpenLock`, `TryLock` (one poll, the namespace check, the
assignment of the lock object), `GiveUp` (deadline or cancellation),
`Unavailable`, `Leave`. `EnterRaw` is a user of `device_lock().acquire()` such as
the reboot batch. `Spawn` copies the context of the creating task; `Crash` ends
a worker; `ReplaceFile` replaces a lock file from outside.

### UpdateJournal and UpdateTransaction

`jobs` is the journal: one record per request with its state, its events and
whether an artifact and a backup are recorded. `NEXT` is the table of accepted
transitions. In `UpdateTransaction` a journal state as `pc` is the write of that
state, and every other value of `pc` is a call of the executor. A host step may
succeed, fail without effect, or take effect and fail. `files[n]` is the
generation of each exchanged directory entry, so that the exchange is several
steps and can stop in the middle. `mem` holds the executor's fields, which die
with the process; the journal, containers, files and enrollment survive.
`ioFailed` is the latch of the journal after an I/O error: the save may have
reached the disk or not. `ChangeCredentials` is an administrator of the running
candidate. A restart runs `recover_interrupted()` and never replays.

### SetupLease and SetupCoordinator

The lease row is reduced to its holder, a pair of process and job, and to
`live`, whether its expiry is still in the future. `SetupCoordinator` keeps the
durable `job` and `row`, the volatile executor `ex[p][j]`, the radio locks, and
two histories: the operations begun for a radio and the radios routed and not
proven rolled back. `Sequence` is the list of operations `_run_device()` derives
from an approved plan. An operation is in flight between `BeginOperation` and
`OperationReturns`; a lease check, a cancellation check and a commit are where
the code has them. `RowFails`, `CommitFails`, `LeaseLost`, `HeartbeatLost` and
`Die` are the error paths. The startup review takes the lease as a holder of its
own. With `SlowReview` a review may outlast its lease, which the code does not
exclude; it is switched off in the runs that ask about everything else.

### RadioReboots

`active` is the row `ACTIVE_KEY`, `claim` the unique occurrence rows, `rec` the
durable records, `run` the task of a batch with its job in memory, `child` the
place of `one()` for each radio. `Start` is the transaction of `start()`: active
row, lease, claim and record together, for any selection of radios (`ids`), of
which `start()` looks at the locks of these only. `Attempt` saves before `Send`, with the
check of the active row in the same uninterrupted stretch. `ChildSaveFails` is a
failed save: `gather()` raises and the other children live on. `Conclude` is the
`finally`, `ConcludeFails` the same with a database that refuses. `Shutdown`,
`Crash`, `BatchExpires` and `LeaseExpires` come from outside.

### RadioState, LiveReconnect, RadioCommands and CommandLedger

`radio` is the selection, volume, mute and zone of a radio, with `pend` for a
start that its firmware will carry out late, always out of standby and possibly
from any other state; `Effect` says what a request does,
`FirmwareActivates` that a source coming up may restore its remembered volume
and drop the mute. `target` counts changes of the stored identity.

A command is a `job` whose `todo` is the sequence of steps its service performs
(`Program`, from the state read at the start). `Begin` refuses a radio in a zone
unless its caller, a group or an alarm, names the participants (`grouped`). Each write step is `Intend`
(commit of the intent), `Recheck` (comparison with a fresh snapshot), `Send`
with an answer that is received, lost or rejected, and `Readback`; a pressed key
is let go by a request of its own (`LetGo`), under the same intent and after
another look at the identity. `arm`,
`verify`, `match` and `clear` are the calls of the playback safety gate.
`ProviderServes` hands out the audio when the gate lets it,
`ProviderServesUnknown` to a request that could not be attributed to a radio, for
which the gate is not asked. `Fail` is any other
error, `Crash` the end of the process. `hist` is history only: who started the
audio, whether anybody outside touched it since, which reconnect tasks a command
has revoked. `CommandLedger` keeps three numbers of this: intents, writes and
outcome.

In `LiveReconnect` the generation of the row is the field `mine` of a task: a
new generation takes the row away from all of them. `cancel` is part of every
explicit command, where the client does it (`soundtouch_client.py:258`).

### ZoneJobs

`zone[d]` is what radio `d` reports, `late[d]` what its firmware has still to
adopt. A job peeks at the topology without locks to find its participants,
locks them, and makes the passes of the code over them: backup, first reading,
recheck, readback, final verification. A pass visits the radios in any order and
other steps come between. `dirty` is history: another controller, or the late
effect of an earlier write, regrouped radios while the job held its locks.

### PresetJobs

`ledger[s]` is the latest mutation row of a slot, `rows` the local mirror, `tx`
the one open transaction with what it read. `Post` may be lost or refused after
its effect; `Settle` is the error handler, whose own commits may fail. A callback
first looks for an active mutation and then commits in a step of its own,
because nothing locks the two together. `held` and `posts` are histories.
`Begin` chooses a kind and what it wants of each slot (`Wanted`) and starts where
that kind starts (`FirstPlace`).

### ReportingScheduler, AlarmEngine, Keepalive

`ReportingScheduler`: `sess` is a session with its stored row, `tasks` its
runners, of which a cancelled one still holds the lock until `Unwind`. A link
and a report carry the source binding they belong to. `Observe` is a provider's
answer, with the other provider's session left first: it drops what belongs to
an older binding, links the session and arms a runner in one step (`ObserveAt`,
made of `Bind`, `Linked` and `Scheduled`). A save that fails after the provider
accepted a report (`AcceptedUnsaved`) goes the way of a failed post, although the
report has left the queue: the head it retries or gives up is the next one. A
restart gives a degraded head one attempt (`Restored`).

`AlarmEngine`: a worker's pass loads the rows, reads a marker, claims it by
compare-and-set and dispatches. `expired` says that a commit made the session
reload rows, which a deletion then breaks. One day is modelled, in halves of a
minute; `wake` is the half in which the sleep of 30 seconds after a pass
(`Sleep`) ends, and a half does not begin before the workers that are due in the
last one have begun their pass. `rested` keeps who was outside a pass when a half
began.

`Keepalive`: the poll of each process copies the runtime state, decides by the
policy before it tests the lock, reads, and writes the whole copy back. A poll
that is denied writes its copy without the lock (`Skip`), and so do refreshes,
quick fixes and the state read of a page (`ReadState`), which stores a snapshot
without any poll state. `safe` is the setting ALWAYS of the safe mode, which
`SetSafeMode` sets and takes back; the other settings do not differ for a poll,
because an open circuit has a retry time.

### AirPlayPilot

`fg` and `mon` are the two tasks of a session, `audio` the `AudioControl` they
share, `file` and `ack` the two files, `worker` the relay and its gate, `limbo`
a request whose caller gave up while it was being written. A command's sequence,
epoch and time are reduced to whether it is the latest and whether it lapsed.
The foreground captures, lowers, selects, groups, corrects and restores; each
write may take effect and fail, and a selection may bring back the volume the
radio remembers. The volume of the start and the hearing volume are both the
session's. `entry` and `stored` are the session in memory
and in the journal, which may fail (`up = "broken"`).

## 3. Runs

| Run | Instance | Checks |
|---|---|---|
| `ownership` | 2 workers, 3 tasks, 2 radios, nesting 2, one file replaced once | `ExclusiveBody`, `OneOwner`, `NoCircularWait`, `GrantNewest` |
| `commands` | 11 kinds of command, 2 reconnect tasks, 1 command, 1 fault | `AudioSafe`, `QuietAfterLost`, `LedgerSpec`, `NoRevival` |
| `zones` | 2 concurrent requests, 3 radios, 1 outside change | `ScopeKept`, `VerifiedZone`, `ZoneLedger` |
| `presets` | 2 transactions, 2 slots, 2 stations, 1 outside change | `OneOpenWrite`, `CommitSeen`, `CommitFromKnown`, `ArtworkOnly` |
| `reporting` | 2 sessions, 2 selections, queue 2, 2 attempts, 2 faults | `BoundPost`, `OneSuccessor`, `Drained` |
| `alarms` | 2 workers, 1 schedule, 3 minutes, 1 edit, 1 crash | `AtMostOnce`, `Noticed` |
| `keepalive` | 2 processes, the code's thresholds 3 and 5, 2 changes, 1 request, 1 fault | `DiagnosedOnce`, `ComesBack` |
| `airplay` | master and member, any number of sessions, 1 outsider | `BoundedAudio`, `StartsClean`, `SessionEnds` |
| `update` | 3 requests, 2 jobs, 2 entries, 2 faults | `JournalTruthful`, `OneGeneration`, `CredentialsKept`, `JournalSpec`, `JobSettles` |
| `setup` | 2 processes, 1 radio, every approved plan, 1 fault | `CompletedMeansDone`, `RolledBackIsBack`, `BackupBeforeWrite`, `NoReplay`, `ActiveUntouched`, `LeaseSpec` |
| `reboots` | 2 processes, 2 batches of any of 2 radios, 1 occurrence, 1 fault | `StatusTruthful`, `OneCommand`, `LeaseTogether`, `SupersededQuiet` |
| `setup_rollback` | expected violation | `RollbackReportsScope`, section 6 |

Each property has a mutant of the code, such as a dropped check, a missing reset
or a swapped order, that TLC shows to violate it.

**Bounds.** Two workers or processes are what mutual exclusion and takeover
need; a third task in one worker separates sharing a lock object from sharing a
file. Two radios show lock order, partial failure and children; a zone needs a
third, one that the request does not name. Two requests, transactions or batches
show what one finds of another. One explicit command is enough in `commands`,
because a command starts from every state of the radio and gate a fault can
leave and the tasks it races are there from the start; the theorems of section 5
hold for any number of commands. Two members
without an outsider were run once for the safety of AirPlay (712,277 states);
sessions there are not counted. Three minutes show an overrun and a minute that the
sleep after it skips. A second schedule, which waits behind the overrun, was run
once without edits (4,852,999 states); the theorems hold for any schedules.
One request and two changes of the radio are what a discarded memory and a circuit
that opens and closes need; two requests and three changes were run once for
`DiagnosedOnce` (4,135,073 states). Queue and attempts of the reports are lowered to two,
at which the limits are met. `MaxFaults` counts crashes, shutdowns, expiries, missed
renewals, failed saves or outside changes, whichever the module says. A shutdown of
each process besides a fault was run once for the reboots (10,224,890 states).
`MaxPolls` and `MaxRounds` replace the 20 and 10 readings of a waiting loop by
one: the firmware and everyone else may move at any moment before it, and a loop
that reads again changes nothing. Interchangeable processes, tasks, slots and radios are reduced by
symmetry, except where a run checks liveness. All runs but `ownership` disable
the deadlock check: commands, jobs and faults are finite and the system may come
to rest.

**Fairness.** Only the runs with liveness assume any.
`JobSettles`: the steps of the runner return, because every docker call has a
timeout, and a dead helper is started again, because the next connection
activates it through its socket; a journal that latched an I/O error in a live
process is excepted. `Drained`: a runner that can go on does, since the clock
reaches its due time and the HTTP client bounds a post. `ComesBack`: the loop
goes on after each pass, a backoff elapses, and a command lets go of the radio;
the radio itself is under no fairness, and nobody has to take the safe mode back.
Entering is strongly fair: of two processes that always test the lock at the same
moment each would find it held by the other's test for ever
(`device_ownership.py:95`), but a test lasts microseconds in a loop of many
seconds. `SessionEnds`: the monitor, the run and
the end of a session and the expiry of its lifetime are weakly fair; the foreground is strongly fair,
because the lock of the audio control is free again and again while the monitor
sleeps, without being free continuously. Neither the relay worker nor the files
are fair: a worker that never answers must not hold a session up.

## 4. Properties

Ownership. A radio is in the body of one task of all workers (`ExclusiveBody`,
for lock files nobody replaces); a lock file has one owner (`OneOwner`) and a
lock is granted on the newest file only (`GrantNewest`), replaced or not; no set
of tasks waits in a circle (`NoCircularWait`).

Commands. Audio that a safe key or station started, and that the radio asked for
under its own address, is never playing loud and
unmuted, whatever the firmware restores and wherever the command stops
(`AudioSafe`; section 6 names what it leaves out). After a lost or refused answer a composite command writes nothing
more, the shutdown of a rejected safe selection excepted (`QuietAfterLost`).
Intents, writes and outcomes follow `CommandLedger` (`LedgerSpec`): no write
without its durable intent, no second write for it, no touched radio reported as
untouched. A reconnect never selects for a session that was durably revoked
(`NoRevival`).

Zones. A topology write regroups only radios the job selected and holds
(`ScopeKept`); `VERIFIED` means that every participant adopted the topology
(`VerifiedZone`); both unless somebody else regroups radios under the job's
locks, which no lock of this program prevents. Each job keeps the ledger
(`ZoneLedger`).

Presets. A slot is written once and not again before its write is committed
locally, and is not called untouched meanwhile (`OneOpenWrite`); only content
the radio held after the START is committed (`CommitSeen`), and only over a row
the transaction knew (`CommitFromKnown`); artwork never changes a selection
(`ArtworkOnly`).

Background loops. A report is posted under a link of its own binding
(`BoundPost`), a due session has exactly one live runner (`OneSuccessor`), and a
session that is served does not stay so for ever: its queue is accepted or given
up, also when saves fail after an answer (`Drained`). An occurrence of an alarm is
dispatched at most once (`AtMostOnce`), and by the end of its minute if some
worker is outside a pass then and was so at its beginning or in its middle
(`Noticed`), both for schedules whose times nobody edited. A lasting
`INVALID_SOURCE` is diagnosed once until it is seen valid or the memory of it is
discarded, by a quick fix, a state read or the older copy that another process
writes when it skips a poll (`DiagnosedOnce`). A radio that answers again is
marked reachable again, unless it is in safe mode for good (`ComesBack`).

AirPlay. A radio plays the relay with an open gate only at the session's volume
(`BoundedAudio`), a session starts only on radios as they were before the last
one (`StartsClean`), and every session ends (`SessionEnds`). Radios that
somebody else used are excepted.

Update. The journal never lies about what runs (`JournalTruthful`), the live
files are of one generation (`OneGeneration`), changed credentials are not
rolled back (`CredentialsKept`), the runner implements the journal
(`JournalSpec`), and every reserved job settles (`JobSettles`).

Setup. No operation after identification is started twice for a radio of a job
(`NoReplay`), a review leaves active jobs alone (`ActiveUntouched`), a completed
job ran everything (`CompletedMeansDone`), a backup path is durable before a
write (`BackupBeforeWrite`), `ROLLED_BACK` means that the routing is gone
(`RolledBackIsBack`), and the coordinator implements the lease (`LeaseSpec`).
The run assumes that a startup review does not outlast its lease of 90
seconds (`SlowReview = FALSE`), which the code does not enforce: a review that is
suspended between taking the lease and its commit may end a job that started
meanwhile (`coordinator.py:461`). The proofs show that of these properties only
`ActiveUntouched` depends on it.

Reboots. At most one command per batch, radio and occurrence (`OneCommand`),
statuses are true (`StatusTruthful`), and the active row is never valid without
the lease (`LeaseTogether`). A batch that was superseded after its row expired may
still command radios of its own; it never commands a radio it owns that the
active batch was started for (`SupersededQuiet`).

## 5. Proofs

All theorems hold for every value of the constants under the named assumptions
of the modules (`OwnershipAssumption`, `CommandAssumption`, `PresetAssumption`,
`ReportingAssumption`, `AlarmAssumption`, `JournalAssumption`,
`TransactionAssumption`, `LeaseAssumption`, `SetupAssumption`,
`RebootAssumption`, `ZoneAssumption`, `KeepaliveAssumption`, `PilotAssumption`),
which say that identities are distinct, bounds are natural
numbers and the order of radios is injective. Two theorems have a hypothesis of
their own, named below. Most of the properties are not inductive: each proof
first finds the invariant that is, TLC checks it on the run's instance, and one
lemma per action shows that the action keeps it. Three of the proof modules have
a second section, about a component with a state of its own: the zones are in
`DeviceOwnershipProofs`, the keepalive in `AlarmEngineProofs`, AirPlay in
`UpdateProofs`.

`DeviceOwnershipProofs`. `OwnershipInv` adds to the types that `flock` admits
one open file per inode, that inodes only grow, and that every owned lock object
has its descriptor in the kernel table. `OneOwner` alone is not inductive: it
speaks of lock objects, while exclusion comes from the table behind them. From
it follow `OwnershipTypeCorrect`, `OwnershipOneOwner` and
`OwnershipGrantNewest`. `BodiesInv` adds what a scope knows: only the innermost
one can still be acquiring, a body owns all its radios, and no inner scope has
acquired a radio of an outer body, so that leaving the inner one cannot release
it. With the kernel table this gives `OwnershipExclusiveBody`, the promise on
which the models of commands, zones and presets rest. `OrderInv` holds as long
as no lock file is replaced: the context variable is a task's own exactly inside
its transactions and then names only radios it owns (`ContextsInv`), so that an
inner scope always borrows and only the outermost one acquires, in order
(`LadderInv`), and the kernel locks of a task are those its outermost scope took
(`HeldInv`). Hence whoever holds what another task waits for waits itself for a
radio of higher rank, if it waits at all, and among finitely many radios there is
a highest one: `OwnershipNoCircularWait`, for `IsFiniteSet(Devices)`.

Its second section is about `ZoneJobs`. A job learns its participants from a
report it read without locks, and confirms radios one after the other while
others move; `ZoneInv` says why neither goes wrong. The radios of two jobs are
disjoint. Up to the write of the topology, a radio outside the job that follows
one of its radios is listed by it, one of its radios that is listed outside
follows whoever lists it (`Apart`), and what the job has checked is in scope
(`Guarded`), so that the reports it has read name everybody the write affects.
What the job itself still has late in a
radio it holds is what it wants there (`LateKnown`), while anything else that
comes late makes it dirty. A confirmed report is therefore still true when the
pass ends (`ReadTrue`). This gives `ZoneTypeCorrect`, `ScopeKeptHolds` and
`VerifiedZoneHolds`; `ZoneLedgerHolds` follows because a job's counters move only
as `CommandLedger` allows. They hold for any number of radios, jobs, readback
rounds and outside changes.

`RadioCommandsProofs`. A command carries the remainder of its program, so the
invariant is about remainders. `Shape` says what every remainder of every program
has in common, `Tallies` relates intents, writes and outcome to the place of the
command, `LostEnds` says that nothing but a shutdown follows a lost answer.
They give `CommandInvariant`, the refinement `LedgerHolds` of `CommandLedger`,
and `QuietAfterLostHolds`. `Revocation` (a revoked task has lost the row for
good) gives `NoRevivalHolds`. For `AudioSafeHolds`, `SafeProgram` says where in a
remainder the start, the mute and the arming stand, `GateOwned` whose gate it
is, `BeforeStart` and `AfterStart` what command, gate and radio know of each
other on either side of the start, and `Audio` what remains true when the
command is gone: until somebody else answers for the audio, a gate that lets it
through means that the volume is low, and what plays is low or muted.

`PresetJobsProofs`. `PresetInv` says that the mutations of the running
transaction are its own and carry its START before a write (`OwnMutations`), that
a slot it may still write was not written since the last commit (`Unwritten`),
that what an armed slot holds is in the history since the START (`SeenHeld`), and
that artwork is planned for what the slot holds (`ArtworkPlanned`). With it
`OneOpenWriteHolds`, `CommitSeenHolds`, `CommitFromKnownHolds` and
`ArtworkOnlyHolds`.

`ReportingProofs`. `ReportingInv` says of each session that memory and row hold
reports of the current binding only, that at most one runner is not cancelled,
that it runs under the link of that binding and has a report while it posts, and
that a session nobody selected is empty. The operations are composed of a few
changes of a session, each with its lemma. With it `BoundPostHolds` and
`OneSuccessorHolds`, for any number of sessions, bindings, attempts and faults.

`UpdateProofs`. `JournalInv` says that the file is always a valid list of jobs:
each job's events form a path of `NEXT` ending in its state, and only the last
job may be open. It gives `JournalHistoryKept`, `JournalManualBlocks` and
`JournalBackupBeforeStart`. `TransactionImplementsJournal` proves that every
step of the detailed update is a step of the journal or leaves it alone, so that
the same properties hold of the running helper. `TransactionInv` is about the
host: the durable state of the job bounds where the runner can be (`DurableAt`),
only the generations before and after the update exist, nothing runs while
entries are exchanged, a rollback knows what to restore, and a job that recovery
closes as FAILED never touched the host. It gives `JournalTruthfulHolds`,
`OneGenerationHolds` and `CredentialsKeptHolds` for any number of entries and
with a fault or crash at any step.

Its second section is about `AirPlayPilot`. `BoundedAudio` looks at the open gate,
but by then it is too late to check a volume: a release may be on its way in the
audio control, in the file or in a request nobody waits for. `PilotInv` speaks of
all of them (`Openable`): while anything can open the gate without another
decision of the foreground, whoever hears the relay has the session's volume
(`Bounded`). The foreground selects the relay or joins a radio, whose volume may then change,
only at places where nothing of this kind is left (`QuietPcs`), because an
acknowledged hold is the latest command and an owner that lost a request is
revoked (`AudioTrue`); it raises a volume only in standby outside the zone.
`PlaceTrue` says what each place knows of the radios: nothing was written before
the volumes, `attempted` is set from the first write on, and the restoration
leaves only what it has still to do. With it, `JournalTrue` (the journal frees
radios only when they are as before, memory agrees with the journal while it
works, and a running foreground means a LIVE session) is inductive. The results
are `PilotTypeCorrect`, `BoundedAudioHolds` and `StartsCleanHolds`, for any number of
members, sessions, outside uses, late commands, failures and crashes.

`SetupProofs`. `SetupImplementsLease` shows that whatever the coordinator does to
the lease row is a step of `SetupLease`. `ActiveUntouchedHolds` assumes
`~SlowReview`, because the code does not bound a review. The sequence of a plan
is a concatenation of optional parts; the operations of each part have a rank of
their own, and joining parts of growing rank (`PartsJoin`) shows for every plan
that no operation occurs twice, that the backup is saved before any write and
that `VERIFIED` is the last mark only (`SequenceFacts`). `SetupInv` is built on
that: only the owner of a started job runs it (`OwnerRuns`), a row says no more
of its radio than what was done (`RowsTruthful`), the radios ahead of an executor
are untouched (`AheadFresh`), an executor inside a radio has begun exactly the
operations of its place (`PlaceTruthful`), and a rollback has a backup to go back
to (`BackTruthful`). A rollback owns its radio, so no route is in flight when it
is proven. It gives `BackupBeforeWriteHolds`,
`RolledBackIsBackHolds`, `CompletedMeansDoneHolds` and `NoReplayHolds`, for any
number of processes, jobs, radios and faults.

`RadioRebootsProofs`. `RebootInv` adds to the types, which include that a batch
that backs up, checks or gathers owns all its radios, how far a batch has got
with its locks (`LockProgress`); without it the step from the last lock to the
backup could not be shown. `ChildrenOnce` (no child before the batch is armed,
no command before a child sends) and `ClaimKept` (the claim of an occurrence
names its batch) make `OneCommandHolds`. `AttemptsActive` (a child that is about to
command an owned radio belongs to the active batch, or the active batch was not
started for that radio) makes `SupersededQuietHolds`.
`LeaseTogether` is inductive with the types and gives `LeaseTogetherHolds`.
`StatusKnown` and `ResultKnown` compare the job in memory and the record with the
commands sent, and give `StatusTruthfulHolds`.

`AlarmEngineProofs`. `AtMostOnce` counts dispatches, but what prevents a second
one is the durable marker. `AlarmInv` adds to the types that the dispatch of an
unmoved schedule is still named by its marker (`FiredMarked`), that the copies a
pass loaded agree with the rows in the times of unmoved schedules
(`CopiesCurrent`), and that a worker about to claim has read a marker other than
its minute (`ClaimFresh`). For any number of workers, schedules, minutes, edits
and crashes this gives `AtMostOnceHolds`. `NoticeInv` follows a pass through its
minute: an occurrence that is owed was dispatched or still lies ahead of every
worker in that minute (`NothingMissed`), and a marker of an unmoved schedule is
the trace of a dispatch (`MarkerFired`), so that losing a claim means that another
worker made it. Time enters as `KeepsTime`: nobody sleeps beyond
the next half, and a worker that rested when a half of the minute began and is now
in a pass, or asleep again, began that pass in this minute. This
gives `NoticedHolds`. The exception for moved schedules is needed: TLC finds an
overrun worker whose late claim of the old minute makes the claim of the new one
fail.

Its second section is about `Keepalive`. `DiagnosedOnce` bounds a counter, but a poll
may diagnose from a copy of the row that is older than the diagnosis.
`DiagnosisRemembered` says that this does not happen: whoever does not remember
the invalid source, the row or the copy of a poll under the lock, has not
diagnosed it since. It is inductive with `OwnerWorks`, that only the owner of the
radio works with such a copy; the copies of polls that are about to be skipped may
be older, and need no such promise because writing one discards the memory. The
results are `KeepaliveTypeCorrect` and `DiagnosedOnceHolds`, for any number of
processes.

Only model-checked: liveness under fairness (`Drained`, `ComesBack`,
`SessionEnds`, `JobSettles`), which is out of the prover's reach. Every other
property of the passing runs is a theorem.

## 6. Finding and observations

Finding, shown by `setup_rollback`: a rollback skips rows in a non-terminal
state and then reports that none was required (`coordinator.py:861`).

Observations made while modelling. They concern no stated property; where the
models exclude a case because of one, the text says so.

* `radio_reboots.py:291`: `start()` looks at the locks of its own selection. A
  batch whose row expired is superseded by one of other radios while it holds its
  locks, and a child past the check at line 402 still sends at line 406, after it
  awaited `identity()`. `SupersededQuiet` therefore speaks of the radios of the
  active batch only.
* `radio_reboots.py:418`: `gather()` without `return_exceptions`. A save that
  fails in one child releases every radio and both leases while the other
  children still send and verify. `SupersededQuiet` speaks of radios a batch owns.
* `key_actions.py:421`: the fallback `/select` after a failed preset runs while
  the gate is still VERIFIED for the preset, so that the provider releases it
  without a reading after the selection (`playback_safety_gate.py:6`).
  `AudioSafe` leaves audio started by the fallback out.
* `cloud.py:961`: a request that no radio can be attributed to is served without
  asking any gate (`research_state_repository.py:135`). `AudioSafe` speaks of audio
  the radio asked for under its own address.
* `station_playback.py:305`, `key_actions.py`: outside standby nothing waits for a
  selection to become effective. A radio that acknowledges it and acts later may
  be verified, and its gate released, by readings of the old source. `AudioSafe`
  leaves such starts out; out of standby the activation is awaited.
* `key_actions.py:305`, `317`: the press and the release of a key are two requests
  under one intent. Nothing is sent after a lost press; a key may then stay pressed.
* `adapters/soundtouch_client.py:258`: every `/key` cancels the reconnect, also
  the trailing MUTE of a station command (`key_actions.py:434`,
  `station_playback.py:328`), after the provider armed it (`cloud.py:930`).
  Enabled reconnects are lost after such a start.
* `cloud.py:1473`: the callback of a removal looks only for active DELETE
  mutations, so that it may edit a row during a store. `CommitFromKnown` holds
  because the commit window compares the local version again.
* `playback_keepalive.py:784-820`, `1420-1487`: the stored rediscovery time is
  overwritten by the copy loaded before it, and a denied poll writes the copy it
  loaded before its awaits without the lock, over the result of another process,
  too.
* `device_state.py:406`: the state read of a page replaces the whole runtime state
  by a snapshot without poll state, without the lock, also when the radio does not
  answer. Failure count, retry time and the memory of `INVALID_SOURCE` are gone, and
  the next poll diagnoses the same source again. `DiagnosedOnce` counts from there.
* `device_policy.py:276`: with safe mode ALWAYS no poll is made, and a radio marked
  offline is marked reachable only by a rediscovery or a refresh. `ComesBack`
  excepts it.
* `reporting_scheduler.py:360-384`: a save that fails after HTTP 200 is handled as a
  failed post. The report it was about is gone, so that the last attempt discards
  the next report, which was never sent, or a due time is set for an empty queue,
  for which a timed report is invented; on an empty queue the last attempt raises
  and leaves the session without a runner.
* `alarm_engine.py:359`: the loop sleeps 30 seconds after the end of a pass. A pass
  that ends in the second half of a later minute is followed by one in the minute
  after that, so that a minute is skipped although no pass was running at its end.
  `Noticed` asks for a worker outside a pass at the beginning or in the middle, too.
* `alarm_engine.py`: a schedule deleted during a pass ends `alarm_engine_loop`;
  a schedule moved away from a minute and back may be dispatched twice in it,
  because the marker keeps the last minute only; and a worker that is still about
  to claim the old minute of a moved schedule spoils the claim of the new one
  (`alarm_engine.py:58`). `AtMostOnce` and `Noticed` therefore speak of schedules
  whose times were not edited.
* `research_runtime.py:702-710`: a reacquisition that is refused has already
  cancelled the other provider's session, and a kept queue is not armed again
  when the provider is selected again. `Drained` speaks of served sessions.
* `airplay_bridge/group_zone.py`: the latency mode that a zone change writes is
  not restored when the change fails and is not part of the captured state, yet
  the receipt says `CAPTURED_STATE_RESTORED`. The model has no latency mode.
* `device_ownership.py:136`: after a lock file was replaced, a second owner in
  the same worker overwrites the lock object of the first, whose `release()` then
  raises and leaves the remaining locks of its scope. `ExclusiveBody` and
  `NoCircularWait` are stated for lock files that are not replaced.

## 7. Not modelled, and limits

* Device I/O, XML, SSH and HTTP: an operation passes, fails, or takes effect and
  fails.
* A docker command takes effect at the latest when it fails. An effect after the
  timeout is not modelled; no code observes one.
* The lost update between the read and the write of the previous record in
  `start()` of the reboot manager: `start()` is one action.
* Wall-clock time: expiry happens at any moment after the last renewal, and the
  alarm clock is a counter of half minutes of one day.
* `execute()` that is refused the lease returns and leaves its job as it is, and
  the review gives up after about 100 seconds. Both are in the model; that such
  a job is eventually reviewed is no promise of the code.
* `Keepalive` reads the state of the radio in one step and leaves play history out,
  so that what a command leaves in the runtime state is not there either.
* AirPlay: metadata and display, volume forwarding within the ceiling, the
  latency mode, the encoder and HTTP relay, network namespaces.
* Most of the repository is parsing, rendering, providers, diagnostics, catalogs,
  installers and web pages: sequential code whose state does not outlive a call,
  or that only reads. It has no interleaving for a model checker to explore.
  `PROJECT.json` gives the reason for every part with status `not_modelled`.

## 8. Plan

Every safety property that a run checks is proved. What remains of the proofs is
liveness, which needs a prover for `ENABLED` and fairness.

Models that could follow: the telnet jobs beside `RadioReboots`, and the order of
snapshot and migration at start-up.
