------------------------------ MODULE ZoneJobs ------------------------------
(***************************************************************************)
(* Multiroom zones: clearing a zone or removing one member                 *)
(* (zone_changes.py), creating one (zone_creation.py) and the routes that  *)
(* start them (routers/multiroom.py), run by concurrent requests against   *)
(* radios whose firmware adopts a topology late, or never when the request *)
(* is lost.  Every radio is asked for its own view of the topology; a view *)
(* is read, checked, and may be stale when it is used.                     *)
(*                                                                         *)
(* A setting written around the topology (start volume, latency mode,      *)
(* common volume) is abstracted to whether it took effect.  Playback in    *)
(* the new zone is a command of its own (RadioCommands).                   *)
(***************************************************************************)
EXTENDS Naturals, Sequences, FiniteSets

CONSTANTS
  Radios,
  Jobs,        \* requests, each served once
  Kinds,       \* the routes: "clear", "remove", "create", "remote"
  Volumes,     \* how a creation treats volumes: "preserve", "start", "common"
  None,
  MaxRounds,   \* readback rounds: 10 of a change, 4 of a creation in the code
  MaxOutside   \* topology changes by other controllers

ASSUME ZoneAssumption ==
  /\ Kinds \subseteq {"clear", "remove", "create", "remote"}
  /\ Volumes \subseteq {"preserve", "start", "common"}
  /\ IsFiniteSet(Radios) /\ None \notin Radios \cup Jobs
  /\ MaxRounds \in Nat \ {0} /\ MaxOutside \in Nat

VARIABLES
  zone,        \* what each radio reports as its zone
  late,        \* what its firmware still has to adopt, and whose write it is
  job,         \* the jobs
  outside      \* outside changes so far

zoneVars == <<zone, late, job, outside>>

Zone == [master : Radios \cup {None}, members : SUBSET Radios]
Alone == [master |-> None, members |-> {}]
Settled == [zone |-> Alone, by |-> None]

Standalone(z, d) == z.master \in {None, d} /\ z.members \subseteq {d}

\* Jobs start "idle"; "open" is the outcome of one that runs.
NoJob ==
  [kind |-> "none", pc |-> "idle", master |-> None, target |-> None, set |-> {},
   desired |-> {}, expected |-> Alone, before |-> [d \in Radios |-> Alone],
   left |-> {}, todo |-> <<>>, volumes |-> "preserve", rounds |-> 0,
   allOk |-> TRUE, took |-> FALSE, rejected |-> FALSE, intents |-> 0, writes |-> 0, outcome |-> "LOST", dirty |-> FALSE]

-----------------------------------------------------------------------------
(***************************************************************************)
(* The firmware                                                            *)
(***************************************************************************)

\* The view of radio d once m leads exactly the members ms: a radio that led or
\* followed one of them is left by it.
Adopted(m, ms, d) ==
  LET gone == {m} \cup ms
      rest == zone[d].members \ gone
  IN CASE d = m -> IF ms = {} THEN Alone ELSE [master |-> m, members |-> ms]
       [] d # m /\ d \in ms -> [master |-> m, members |-> ms]
       [] d \notin gone /\ zone[d].master \in gone -> Alone
       [] d \notin gone /\ zone[d].master = d /\ rest # zone[d].members ->
            IF rest = {} THEN Alone ELSE [master |-> d, members |-> rest]
       [] OTHER -> zone[d]

Affected(m, ms) == {d \in Radios : Adopted(m, ms, d) # zone[d]}

Open(j) == job[j].outcome = "open"

\* device_transaction(): the radios job j holds.
Holds(j) == IF job[j].pc \in {"idle", "peek", "refuse", "alone", "lock", "end"} THEN {}
            ELSE job[j].set

\* An earlier write is not adopted by every radio yet, or a radio follows one
\* that does not list it, or the other way round: the reports are unreliable.
Unsettled ==
  \/ \E d \in Radios : late[d].by # None
  \/ \E d, m \in Radios :
       d # m /\ ~(zone[d].master = m <=> zone[m].master = m /\ d \in zone[m].members)

\* A radio adopts what it was told, at any later moment.
Adopt(d) ==
  /\ late[d].by # None
  /\ zone' = [zone EXCEPT ![d] = late[d].zone]
  /\ job' = [j \in Jobs |-> IF late[d].by = j THEN job[j]
                            ELSE [job[j] EXCEPT !.dirty = @ \/ Holds(j) # {}]]
  /\ late' = [late EXCEPT ![d] = Settled]
  /\ UNCHANGED outside

\* Another controller dissolves a zone or pairs two radios.
OutsideChange ==
  /\ outside < MaxOutside
  /\ \E m \in Radios : \E ms \in {{}} \cup {{d} : d \in Radios \ {m}} :
       zone' = [d \in Radios |-> Adopted(m, ms, d)]
  /\ zone' # zone
  /\ job' = [j \in Jobs |-> [job[j] EXCEPT !.dirty = @ \/ Holds(j) # {}]]
  /\ outside' = outside + 1
  /\ UNCHANGED late

-----------------------------------------------------------------------------
(***************************************************************************)
(* Requests                                                                *)
(***************************************************************************)

Set(j, r) == job' = [job EXCEPT ![j] = r]

\* Nothing of the job is left to do: its radios are released.
Ended(j, o) == [NoJob EXCEPT !.pc = "end", !.outcome = o]

\* A failure that takes a refused request for one that never happened.
RefusedIsBlocked(j) ==
  IF job[j].writes > 0 /\ ~job[j].rejected THEN "DIVERGED" ELSE "BLOCKED"

\* ZoneChangeError and ZoneCreationError: what a failure admits.
FailureOutcome(j) == IF job[j].writes > 0 THEN "DIVERGED" ELSE "BLOCKED"
Failed(j) == Ended(j, FailureOutcome(j))

\* _multiroom_set(): the requests of a creation.  Start volumes and latency modes
\* go to each of the n radios, the topology to the coordinator, and a common
\* volume again to each, once and then to readjust it.
Each(path, n) == [i \in 1 .. n |-> path]
Writes(n, volumes) ==
  LET when(v, s) == IF volumes = v THEN s ELSE <<>>
  IN when("start", Each("volume", n)) \o Each("latency", n) \o <<"setZone">>
     \o when("common", Each("volume", n) \o Each("volume", n))

\* multiroom_set() and remote_multiroom_start() name the radios of the zone; the
\* remote neither selects nor changes a volume.
RequestZone(j) ==
  \E m \in Radios : \E ms \in SUBSET (Radios \ {m}) \ {{}} :
    \E k \in Kinds \cap {"create", "remote"} :
    \E v \in IF k = "create" THEN Volumes ELSE {"preserve"} :
      /\ job[j].pc = "idle"
      /\ Set(j, [NoJob EXCEPT !.kind = k, !.pc = "lock", !.master = m, !.set = {m} \cup ms,
                   !.desired = ms, !.todo = Writes(Cardinality(ms) + 1, v), !.volumes = v,
                   !.outcome = "open"])
      /\ UNCHANGED <<zone, late, outside>>

\* multiroom_clear() and clear_all() name a coordinator.
RequestClear(j) ==
  \E m \in Radios :
    /\ job[j].pc = "idle" /\ "clear" \in Kinds
    /\ Set(j, [NoJob EXCEPT !.kind = "clear", !.pc = "peek", !.master = m, !.outcome = "open"])
    /\ UNCHANGED <<zone, late, outside>>

\* multiroom_remove_device() names a member and asks it for its coordinator,
\* then everyone else; a coordinator cannot be removed, and a radio that nobody
\* lists is alone already.
RequestRemove(j) ==
  \E t \in Radios :
    LET lists(d) == zone[d].master # None /\ t \in zone[d].members
        coordinators == IF zone[t].master # None THEN {zone[t].master}
                        ELSE {IF zone[d].master = None THEN d ELSE zone[d].master :
                                d \in {e \in Radios \ {t} : lists(e)}}
        asked == [NoJob EXCEPT !.kind = "remove", !.target = t, !.outcome = "open"]
    IN /\ job[j].pc = "idle" /\ "remove" \in Kinds
       /\ \/ \E m \in coordinators \ {t} : Set(j, [asked EXCEPT !.pc = "peek", !.master = m])
          \/ t \in coordinators /\ Set(j, [asked EXCEPT !.pc = "refuse"])
          \/ coordinators = {} /\ Set(j, [asked EXCEPT !.pc = "alone"])
       /\ UNCHANGED <<zone, late, outside>>

\* The routes that answer without a job.
Answer(j) ==
  /\ job[j].pc \in {"refuse", "alone"}
  /\ Set(j, Ended(j, IF job[j].pc = "alone" THEN "UNCHANGED" ELSE "BLOCKED"))
  /\ UNCHANGED <<zone, late, outside>>

\* _participants() accepts what the coordinator reports.
ParticipantsAccepted(j, z) ==
  /\ z.master \in {None, job[j].master}
  /\ job[j].kind = "remove" => job[j].target \in z.members \ {job[j].master}

\* The route reads the coordinator before anything is locked; change_zone()
\* derives the participants and the members to keep from that report.
Peek(j) ==
  LET z == zone[job[j].master]
      m == job[j].master
  IN /\ job[j].pc = "peek"
     /\ Set(j, IF ~ParticipantsAccepted(j, z) THEN Failed(j)
               ELSE [job[j] EXCEPT
                       !.pc = "lock", !.expected = z, !.set = {m} \cup z.members,
                       !.desired = IF job[j].kind = "remove"
                                   THEN z.members \ {m, job[j].target} ELSE {},
                       !.todo = <<"setZone">>])
     /\ UNCHANGED <<zone, late, outside>>

\* device_transaction() over all participants, and its refusal.
Free(j) == \A k \in Jobs \ {j} : Holds(k) \cap job[j].set = {}

\* The phases in which every participant is read in turn; what no later phase
\* needs is forgotten.
Passes == {"backup", "before", "recheck", "readback", "verify"}
Enter(r, pc) ==
  [r EXCEPT !.pc = pc, !.left = IF pc \in Passes THEN r.set ELSE {}, !.allOk = TRUE,
            !.expected = IF pc \in {"backup", "before"} THEN @ ELSE Alone,
            !.before = IF pc \in {"start", "recheck"} THEN @ ELSE NoJob.before]

Lock(j) ==
  /\ job[j].pc = "lock" /\ Free(j)
  /\ Set(j, Enter([job[j] EXCEPT !.dirty = Unsettled],
                  IF job[j].kind = "remote" THEN "backup" ELSE "before"))
  /\ UNCHANGED <<zone, late, outside>>

LockDenied(j) ==
  /\ job[j].pc = "lock" /\ ~Free(j)
  /\ Set(j, Failed(j))
  /\ UNCHANGED <<zone, late, outside>>

-----------------------------------------------------------------------------
(***************************************************************************)
(* Reading the participants before a write                                 *)
(***************************************************************************)

Change(j) == job[j].kind \in {"clear", "remove"}

\* Radio d was read and found as required; after the last one comes pc.
Seen(j, d, pc) ==
  IF job[j].left = {d} THEN Enter(job[j], pc) ELSE [job[j] EXCEPT !.left = @ \ {d}]

\* A scope check that only asks for the coordinator.
CoordinatorInScope(j, z) == z.master \in job[j].set \cup {None}

\* require_selected_scope(): the zone names no radio that was not selected.
SelectedScope(j, z) == z.master \in job[j].set \cup {None} /\ z.members \subseteq job[j].set

\* change_zone(): the coordinator still reports what the participants were
\* derived from, and nobody follows a third radio.
BeforeAccepted(j, d) ==
  /\ SelectedScope(j, zone[d])
  /\ Change(j) =>
       /\ d = job[j].master => zone[d] = job[j].expected
       /\ zone[d].master = job[j].master \/ Standalone(zone[d], d)

\* One read of a pass; a refusal ends the job.  The remote start refuses an
\* existing zone; prepare() and change_zone() keep what they read and read it
\* again after the commit.
Look(j) ==
  \E d \in job[j].left :
    LET look(pc, accepted, pc2) ==
          job[j].pc = pc /\ Set(j, IF accepted THEN Seen(j, d, pc2) ELSE Failed(j))
    IN
      /\ \/ look("backup", zone[d].master = None, "store")
         \/ /\ job[j].pc = "before"
            /\ Set(j, IF BeforeAccepted(j, d)
                      THEN [Seen(j, d, "start") EXCEPT !.before[d] = zone[d]] ELSE Failed(j))
         \/ look("recheck", zone[d] = job[j].before[d], IF Change(j) THEN "send" ELSE "scan")
      /\ UNCHANGED <<zone, late, outside>>

\* Creation.post() reads the topology of all participants before each write, the
\* route once more before the first; their locks are held, so the reads are one
\* step here.
Scan(j) ==
  /\ job[j].pc = "scan"
  /\ Set(j, IF \A d \in job[j].set : SelectedScope(j, zone[d])
            THEN Enter(job[j], "intend") ELSE Failed(j))
  /\ UNCHANGED <<zone, late, outside>>

\* The read fails, the answer is another radio's, or the guard finds the radio
\* protected or its record changed.  The master of a remote start must play.
LookFails(j) ==
  /\ job[j].pc \in {"backup", "before", "recheck", "scan", "send"}
  /\ Set(j, Failed(j))
  /\ UNCHANGED <<zone, late, outside>>

-----------------------------------------------------------------------------
(***************************************************************************)
(* The journal                                                             *)
(***************************************************************************)

Intended(j) == [job[j] EXCEPT !.intents = @ + 1]

\* STEP_VERIFIED: the next write, or the final verification.
AfterStep(j) ==
  LET r == [job[j] EXCEPT !.todo = Tail(@), !.rounds = 0, !.took = FALSE]
  IN Enter(r, IF r.todo = <<>> THEN "verify" ELSE "scan")

\* A final record that trusts any answer of the radio.
AnsweredVerified(j) == ~job[j].rejected

\* change_zone() and _multiroom_set(): what the final record says.
Verified(j) == job[j].allOk /\ ~job[j].rejected

\* Backups and intents are committed before the radio is touched, verified steps
\* and results after it.
Commit(j) ==
  /\ \/ job[j].pc = "store" /\ Set(j, Enter(job[j], "before"))
     \/ job[j].pc = "start" /\ Set(j, Enter(IF Change(j) THEN Intended(j) ELSE job[j], "recheck"))
     \/ job[j].pc = "intend" /\ Set(j, Enter(Intended(j), "send"))
     \/ job[j].pc = "record" /\ Set(j, AfterStep(j))
     \/ job[j].pc = "final" /\ Set(j, Ended(j, IF Verified(j) THEN "VERIFIED" ELSE "DIVERGED"))
  /\ UNCHANGED <<zone, late, outside>>

\* A failed commit writes nothing and repeats nothing.
CommitFails(j) ==
  /\ job[j].pc \in {"store", "start", "intend", "record", "final"}
  /\ Set(j, Failed(j))
  /\ UNCHANGED <<zone, late, outside>>

-----------------------------------------------------------------------------
(***************************************************************************)
(* Writing and reading back                                                *)
(***************************************************************************)

\* The coordinator takes the write or not, and the other radios follow late; the
\* answer arrives, is lost, or is an error.
Send(j) ==
  LET m == job[j].master
      told == [d \in Radios |->
                 IF d \in Affected(m, job[j].desired) \ {m}
                 THEN [zone |-> Adopted(m, job[j].desired, d), by |-> j] ELSE late[d]]
  IN /\ job[j].pc = "send"
     /\ \E took \in BOOLEAN, reply \in {"ok", "lost", "rejected"} :
          /\ reply = "ok" => took
          /\ IF took /\ Head(job[j].todo) = "setZone"
             THEN late' = told /\ zone' = [zone EXCEPT ![m] = Adopted(m, job[j].desired, m)]
             ELSE UNCHANGED <<late, zone>>
          /\ Set(j, Enter([job[j] EXCEPT !.writes = @ + 1, !.took = took, !.rounds = 0,
                             !.rejected = reply = "rejected"], "readback"))
     /\ UNCHANGED outside

\* change_zone(): the coordinator leads exactly the desired members, they follow
\* it, and everyone else is alone.
ChangeSeen(j, d) ==
  LET z == zone[d]
      m == job[j].master
      leads == z.master = m /\ z.members \ {m} = job[j].desired
      follows == z.master = m /\ z.members \subseteq job[j].desired \cup {m}
  IN /\ SelectedScope(j, z)
     /\ IF d = m THEN IF job[j].desired = {} THEN Standalone(z, d) ELSE leads
        ELSE IF d \in job[j].desired THEN follows ELSE Standalone(z, d)

\* zone_matches() and verify_zone_and_volumes().
CreationSeen(j, d) ==
  /\ zone[d].master = job[j].master
  /\ d = job[j].master => zone[d].members \ {d} = job[j].desired

Confirmed(j, d) == IF Change(j) THEN ChangeSeen(j, d) ELSE CreationSeen(j, d)

\* One radio of a readback round; a setting is read from its own radio only.
\* An unreadable radio counts as not confirmed.  The final verification of a
\* common volume also compares the volume, which the firmware may have changed.
ReadBack(j) ==
  LET topology == Head(job[j].todo) = "setZone"
      ok(d) == IF job[j].pc = "verify" THEN Confirmed(j, d)
               ELSE IF topology THEN Confirmed(j, d) /\ SelectedScope(j, zone[d])
               ELSE job[j].took
      mayDiffer == job[j].pc = "readback" \/ job[j].volumes = "common"
  IN /\ job[j].pc \in {"readback", "verify"}
     /\ \E d \in job[j].left : \E good \in {ok(d)} \cup (IF mayDiffer THEN {FALSE} ELSE {}) :
          Set(j, [job[j] EXCEPT !.left = IF job[j].pc = "verify" \/ topology THEN @ \ {d} ELSE {},
                                !.allOk = @ /\ good])
     /\ UNCHANGED <<zone, late, outside>>

\* Only reads are repeated, never the write.  A change records its result in
\* either case; a creation goes on only when the step was confirmed.
RoundEnds(j) ==
  LET again == ~job[j].allOk /\ job[j].rounds + 1 < MaxRounds
      settled(pc) == [job[j] EXCEPT !.pc = pc]
  IN /\ job[j].pc \in {"readback", "verify"} /\ job[j].left = {}
     /\ Set(j, CASE again -> Enter([job[j] EXCEPT !.rounds = @ + 1], job[j].pc)
                 [] ~again /\ (Change(j) \/ job[j].pc = "verify") -> settled("final")
                 [] OTHER -> IF Verified(j) THEN settled("record") ELSE Failed(j))
     /\ UNCHANGED <<zone, late, outside>>

\* The guard or another error that a creation does not read over.
CreationAborts(j) ==
  /\ ~Change(j) /\ job[j].pc \in {"readback", "verify"}
  /\ Set(j, Failed(j))
  /\ UNCHANGED <<zone, late, outside>>

\* The process dies: locks go, the journal stays.
ZoneCrash(j) ==
  /\ Open(j)
  /\ Set(j, Ended(j, "LOST"))
  /\ UNCHANGED <<zone, late, outside>>

-----------------------------------------------------------------------------
Grouped(m, ms) ==
  [d \in Radios |-> IF d \in {m} \cup ms THEN [master |-> m, members |-> ms] ELSE Alone]

ZoneInit ==
  /\ zone \in {[d \in Radios |-> Alone]}
       \cup {Grouped(m, ms) : m \in Radios, ms \in (SUBSET Radios) \ {{}}}
  /\ \A d \in Radios : zone[d].master \notin zone[d].members
  /\ late = [d \in Radios |-> Settled]
  /\ job = [j \in Jobs |-> NoJob]
  /\ outside = 0

ZoneNext ==
  \/ \E j \in Jobs :
       \/ RequestZone(j) \/ RequestClear(j) \/ RequestRemove(j) \/ Answer(j) \/ Peek(j)
       \/ Lock(j) \/ LockDenied(j) \/ Look(j) \/ Scan(j) \/ LookFails(j) \/ Commit(j) \/ CommitFails(j)
       \/ Send(j) \/ ReadBack(j) \/ RoundEnds(j) \/ CreationAborts(j) \/ ZoneCrash(j)
  \/ \E d \in Radios : Adopt(d)
  \/ OutsideChange

ZoneSpec == ZoneInit /\ [][ZoneNext]_zoneVars

-----------------------------------------------------------------------------
(***************************************************************************)
(* Properties                                                              *)
(***************************************************************************)

\* require_selected_scope(), "cannot silently detach an unowned former
\* coordinator/member": a topology write only regroups radios the job has
\* selected and holds, although its participants were derived from a report
\* read before the locks, unless another controller or the late effect of an
\* earlier write regrouped radios meanwhile.
ScopeKept ==
  [][\A j \in Jobs :
       job'[j].writes > job[j].writes /\ Head(job[j].todo) = "setZone" /\ ~job[j].dirty
       => Affected(job[j].master, job[j].desired) \subseteq job[j].set]_zoneVars

\* change_zone(), verified = all_ok and not rejected: when VERIFIED is recorded
\* every participant, and not only the one that was addressed, has adopted the
\* topology, whatever was lost, rejected or late.
VerifiedZone ==
  [][\A j \in Jobs :
       Open(j) /\ job'[j].outcome = "VERIFIED" /\ ~job[j].dirty
       => \A d \in job[j].set : Confirmed(j, d)]_zoneVars

\* zone_changes.py and zone_creation.py: each job implements the ledger, so an
\* intent is durable before each write, nothing is written twice for one intent,
\* and a failure after a write is never reported as BLOCKED.
JobLedger(j) == INSTANCE CommandLedger
  WITH intents <- job[j].intents, writes <- job[j].writes, outcome <- job[j].outcome

ZoneLedger ==
  /\ \A j \in Jobs : JobLedger(j)!LedgerInit
  /\ [][\A j \in Jobs : [JobLedger(j)!LedgerNext]_(JobLedger(j)!ledgerVars)]_zoneVars
=============================================================================
