----------------------------- MODULE PresetJobs -----------------------------
(***************************************************************************)
(* The six preset slots of a radio: storing one or several (preset_writer, *)
(* also for clones, profiles and artwork), removing one and downloading    *)
(* (preset_recovery), the durable mutation of each slot                    *)
(* (preset_transactions), the routes that start them (stations_presets,    *)
(* api) and the callbacks by which the radio edits the local rows itself   *)
(* (cloud), which take no device lock.                                     *)
(*                                                                         *)
(* One transaction runs at a time, since device_transaction() is exclusive *)
(* (DeviceOwnership); the local rows are only changed under it or by a     *)
(* callback, the mutations only under it.  So the version that             *)
(* local_version() hashes is the function rows here.  A ContentItem is its *)
(* selection and whether it carries artwork.                               *)
(***************************************************************************)
EXTENDS Naturals, FiniteSets

CONSTANTS
  Slots,        \* preset buttons
  Selections,   \* stations a preset can select
  Empty,        \* a slot without a preset
  Keep,         \* a slot the transaction does not name
  Kinds,        \* "write", "clone" (also a profile), "artwork", "delete", "download"
  MaxBegun,     \* transactions started
  MaxOutside    \* presets changed at the radio itself

ASSUME PresetAssumption ==
  /\ Kinds \subseteq {"write", "clone", "artwork", "delete", "download"}
  /\ IsFiniteSet(Slots) /\ MaxBegun \in Nat /\ MaxOutside \in Nat
  /\ Keep # Empty /\ {Keep, Empty} \cap [sel : Selections, art : BOOLEAN] = {}

VARIABLES
  radio,        \* what each slot of the radio holds
  rows,         \* the local Preset rows
  ledger,       \* the latest PresetMutation of each slot
  tx,           \* the transaction that owns the radio
  inbox,        \* callbacks of the radio that are under way
  callback,     \* the callback being handled
  begun, outside,
  held,         \* history: what each slot held since its mutation's START
  posts         \* history: writes of the slot not yet committed locally

radioVars == <<radio, outside>>
ghosts == <<held, posts>>
presetVars == <<radio, rows, ledger, tx, inbox, callback, begun, outside, held, posts>>

\* What a stored station looks like, with its artwork.
Station == {[sel |-> v, art |-> TRUE] : v \in Selections}
Item == [sel : Selections, art : BOOLEAN]
Content == Item \cup {Empty}
NoStart == [s \in Slots |-> Keep]

\* A slot that was never written by a transaction has no mutation.
NoMutation == [state |-> "NONE", op |-> "WRITE", want |-> Empty, previous |-> Empty,
               start |-> NoStart, diverged |-> FALSE]

Idle == [kind |-> "none", pc |-> "idle", want |-> NoStart, rows |-> NoStart, before |-> NoStart,
         seen |-> NoStart, todo |-> {}, reads |-> 0, attempted |-> FALSE, intact |-> TRUE,
         dirty |-> FALSE]
NoCallback == [op |-> "none", slot |-> Keep, content |-> Empty, active |-> FALSE]

Named == {s \in Slots : tx.want[s] # Keep}
\* The mutations this transaction has prepared.
Owned == IF tx.pc \in {"observe", "prepare"} THEN Named \ tx.todo ELSE Named

-----------------------------------------------------------------------------
(***************************************************************************)
(* The radio                                                               *)
(***************************************************************************)

\* A slot changes: the radio reports it by a callback that may come late, or never.
RadioSets(s, c) ==
  /\ radio' = [radio EXCEPT ![s] = c]
  /\ held' = [held EXCEPT ![s] = IF ledger[s].start = NoStart THEN {} ELSE @ \cup {c}]
  /\ inbox' = inbox \cup {[op |-> IF c = Empty THEN "delete" ELSE "put", slot |-> s, content |-> c]}

\* The front panel, another controller, or the firmware itself.
OutsideChange ==
  /\ outside < MaxOutside
  /\ \E s \in Slots, c \in {Empty} \cup {[sel |-> v, art |-> FALSE] : v \in Selections} :
       c # radio[s] /\ RadioSets(s, c)
  /\ tx' = [tx EXCEPT !.dirty = tx.kind = "artwork"]
  /\ outside' = outside + 1
  /\ UNCHANGED <<rows, ledger, callback, begun, posts>>

-----------------------------------------------------------------------------
(***************************************************************************)
(* Callbacks of the radio (cloud.py)                                       *)
(***************************************************************************)

ActiveStates == {"PREPARED", "RADIO_WRITE", "RADIO_READBACK", "VERIFIED", "RECONCILE"}

\* put_preset() and remove_preset() look for an active mutation; the removal only
\* for one that removes.
CallbackLooks ==
  /\ callback = NoCallback
  /\ \E m \in inbox :
       LET x == ledger[m.slot]
           active == x.state \in ActiveStates /\ (m.op = "delete" => x.op = "DELETE")
       IN /\ callback' = [op |-> m.op, slot |-> m.slot, content |-> m.content, active |-> active]
          /\ inbox' = inbox \ {m}
  /\ UNCHANGED <<radioVars, rows, ledger, tx, begun, ghosts>>

\* Its commit: the message is kept as evidence, or becomes the local row.
CallbackCommits ==
  /\ callback # NoCallback
  /\ rows' = IF callback.active THEN rows ELSE [rows EXCEPT ![callback.slot] = callback.content]
  /\ callback' = NoCallback
  /\ UNCHANGED <<radioVars, ledger, tx, inbox, begun, ghosts>>

-----------------------------------------------------------------------------
(***************************************************************************)
(* Starting a transaction                                                  *)
(***************************************************************************)

\* A guard that takes every failed mutation for one that never left.
FailedIsSettled(x) == x.state \in {"NONE", "LOCAL_COMMIT", "FAILED", "RECONCILE"}

\* apply_prepared_presets() and remove_preset(): the latest mutation of a slot
\* allows a new one.
Settled(x) == x.state \in {"NONE", "LOCAL_COMMIT"} \/ (x.state = "FAILED" /\ ~x.diverged)

SetTx(r) == tx' = r

\* set_preset() names what one slot shall hold, clone_presets() and
\* apply_preset_profile(), which has no source that can change, what several;
\* delete_preset() names an existing row, sync_local_presets() and
\* download_device_presets() nothing yet.
Wanted(k) ==
  CASE k = "write" -> {[NoStart EXCEPT ![s] = c] : s \in Slots, c \in Station}
    [] k = "clone" -> [Slots -> Station]
    [] k = "delete" -> {[NoStart EXCEPT ![s] = Empty] : s \in {t \in Slots : rows[t] # Empty}}
    [] OTHER -> {NoStart}

\* Stores prepare at once, artwork is planned first, removals and downloads observe.
FirstPlace(k) ==
  CASE k \in {"write", "clone"} -> "prepare"
    [] k = "artwork" -> "plan"
    [] OTHER -> "observe"

BeginWith(k, want) ==
  LET named == {s \in Slots : want[s] # Keep}
  IN /\ tx = Idle /\ begun < MaxBegun
     /\ \A s \in named : Settled(ledger[s])
     /\ begun' = begun + 1
     /\ SetTx([Idle EXCEPT !.kind = k, !.want = want, !.rows = rows, !.todo = named,
                           !.pc = FirstPlace(k)])
     /\ UNCHANGED <<radioVars, rows, ledger, inbox, callback, ghosts>>

Begin == \E k \in Kinds : \E want \in Wanted(k) : BeginWith(k, want)

\* _prepare_artwork_only_sync(): slots that hold a preset with a known station get
\* their artwork, and keep the rest of what the radio holds.
Artwork(mapped) ==
  [s \in Slots |->
     IF s \in mapped /\ rows[s] # Empty /\ radio[s] # Empty /\ ~radio[s].art
     THEN [radio[s] EXCEPT !.art = TRUE] ELSE Keep]

\* sync_local_presets() reads the radio and plans from it.  Nothing to change
\* still needs repeated reads.
Plan ==
  /\ tx.pc = "plan"
  /\ \E mapped \in SUBSET Slots :
       LET want == Artwork(mapped)
           named == {s \in Slots : want[s] # Keep}
       IN SetTx(IF ~(\A s \in named : Settled(ledger[s])) \/ rows # tx.rows THEN Idle
                ELSE [tx EXCEPT !.want = want, !.todo = named, !.before = radio, !.dirty = FALSE,
                                !.pc = IF named = {} THEN "noop" ELSE "prepare"])
  /\ UNCHANGED <<radioVars, rows, ledger, inbox, callback, begun, ghosts>>

\* The no-op reads twice and commits an observation, never a row.
Noop ==
  /\ tx.pc = "noop" /\ SetTx(Idle)
  /\ UNCHANGED <<radioVars, rows, ledger, inbox, callback, begun, ghosts>>

\* access.observe() before a removal or a download; a removal needs the slot as
\* the local row has it.
Observe ==
  /\ tx.pc = "observe"
  /\ SetTx(IF tx.kind = "delete" /\ \E s \in Named : radio[s] # rows[s] THEN Idle
           ELSE [tx EXCEPT !.before = radio, !.dirty = FALSE,
                           !.pc = IF tx.kind = "delete" THEN "prepare" ELSE "download"])
  /\ UNCHANGED <<radioVars, rows, ledger, inbox, callback, begun, ghosts>>

-----------------------------------------------------------------------------
(***************************************************************************)
(* Intent and START                                                        *)
(***************************************************************************)

\* The failure handlers visit the mutations this transaction owns.
Failed ==
  IF Owned = {} THEN Idle
  ELSE [Idle EXCEPT !.kind = tx.kind, !.pc = "settle", !.todo = Owned, !.attempted = tx.attempted]

\* Slot s is done; after the last one comes pc, for the named slots again.
After(s, pc) ==
  IF tx.todo = {s} THEN [tx EXCEPT !.pc = pc, !.todo = Named] ELSE [tx EXCEPT !.todo = @ \ {s}]

Move(s, state) == ledger' = [ledger EXCEPT ![s].state = state]

\* A local version that only the callers compare.
AlwaysKnown == TRUE

\* local_version() is what the transaction started from.
LocalKnown == rows = tx.rows

\* check() of the writers: the local state, and the source of a clone.
Check == LocalKnown /\ (tx.kind = "clone" => tx.intact)

\* prepare_preset_mutation(): one commit for each slot.  A removal holds the
\* write reservation of commit_window() until this commit.
Prepare ==
  /\ tx.pc = "prepare"
  /\ IF tx.kind = "delete" /\ ~LocalKnown
     THEN SetTx(Idle) /\ UNCHANGED ledger
     ELSE \E s \in tx.todo :
            /\ ledger' = [ledger EXCEPT ![s] =
                 [NoMutation EXCEPT !.state = "PREPARED", !.want = tx.want[s], !.previous = rows[s],
                                    !.op = IF tx.kind = "delete" THEN "DELETE" ELSE "WRITE"]]
            /\ SetTx(After(s, IF tx.kind = "delete" THEN "arm" ELSE "start"))
  /\ UNCHANGED <<radioVars, rows, inbox, callback, begun, ghosts>>

\* An artwork plan that is not compared with the radio again.
AnyPlan == TRUE

\* write_presets(): the radio is as the artwork was planned from.
PlanHolds == tx.kind = "artwork" => radio = tx.before

\* write_presets() reads the radio and keeps it as the START of all slots.
Start ==
  /\ tx.pc = "start"
  /\ SetTx(IF Check /\ PlanHolds
           THEN [tx EXCEPT !.before = radio, !.dirty = FALSE, !.pc = "arm"] ELSE Failed)
  /\ UNCHANGED <<radioVars, rows, ledger, inbox, callback, begun, ghosts>>

\* RADIO_WRITE, with a reference to START, is committed slot by slot.
Arm ==
  /\ tx.pc = "arm"
  /\ \E s \in tx.todo :
       /\ ledger' = [ledger EXCEPT ![s].state = "RADIO_WRITE", ![s].start = tx.before]
       /\ held' = [held EXCEPT ![s] = {radio[s]}]
       /\ SetTx(After(s, "confirm"))
  /\ UNCHANGED <<radioVars, rows, inbox, callback, begun, posts>>

\* The radio is read again now that START and intent are stored.
Confirm ==
  /\ tx.pc = "confirm"
  /\ SetTx(IF Check /\ radio = tx.before THEN [tx EXCEPT !.pc = "post", !.dirty = FALSE] ELSE Failed)
  /\ UNCHANGED <<radioVars, rows, ledger, inbox, callback, begun, ghosts>>

-----------------------------------------------------------------------------
(***************************************************************************)
(* Write and readback                                                      *)
(***************************************************************************)

\* The next slot, or the readback after the last one.
Posted(r) == IF r.todo = {} THEN [r EXCEPT !.pc = "mark", !.todo = Named] ELSE r
Gone(s) == [tx EXCEPT !.attempted = tx.kind = "delete", !.todo = @ \ {s}]

\* One write.  A lost answer ends the batch and the radio is read; a refusal fails
\* a store, and is no more than a lost answer to a removal.
Send(s) ==
  /\ \E took \in BOOLEAN, reply \in {"ok", "lost", "rejected"} :
       /\ reply = "ok" => took
       /\ IF took THEN RadioSets(s, tx.want[s]) ELSE UNCHANGED <<radio, inbox, held>>
       /\ SetTx(CASE reply = "ok" -> Posted(Gone(s))
                  [] reply = "rejected" /\ tx.kind # "delete" -> Failed
                  [] OTHER -> Posted([Gone(s) EXCEPT !.todo = {}]))
  /\ posts' = [posts EXCEPT ![s] = @ + 1]

\* /storePreset and /removePreset.  A slot that already holds the content is
\* skipped.
Post ==
  /\ tx.pc = "post"
  /\ \E s \in tx.todo :
       \/ ~Check /\ SetTx(Failed) /\ UNCHANGED <<radio, inbox, ghosts>>
       \/ /\ Check /\ tx.before[s] = tx.want[s]
          /\ SetTx(Posted([tx EXCEPT !.todo = @ \ {s}])) /\ UNCHANGED <<radio, inbox, ghosts>>
       \/ Check /\ tx.before[s] # tx.want[s] /\ Send(s)
  /\ UNCHANGED <<rows, ledger, callback, begun, outside>>

\* RADIO_READBACK; a removal checks first.
Mark ==
  /\ tx.pc = "mark"
  /\ IF tx.kind = "delete" /\ ~Check
     THEN SetTx(Failed) /\ UNCHANGED ledger
     ELSE \E s \in tx.todo : Move(s, "RADIO_READBACK") /\ SetTx(After(s, "readback"))
  /\ UNCHANGED <<radioVars, rows, inbox, callback, begun, ghosts>>

\* Reads that must agree: one and two stability reads, or two absences.
ReadsNeeded == IF tx.kind = "delete" THEN 2 ELSE 3

\* compare_preset_snapshots(): the slots nobody wrote.
OthersMatch == \A s \in Slots \ Named : radio[s] = tx.before[s]

\* A comparison that trusts the answer to the write.
TargetsAnswered == \A s \in Named : posts[s] = 1 \/ radio[s] = tx.want[s]

\* compare_preset_snapshots() and the loop of remove_preset(): the named slots.
TargetsMatch == \A s \in Named : radio[s] = tx.want[s]

\* One observation.  Only reads are repeated.  After a store has once been seen
\* a mismatch fails it; a removal starts counting again.
ReadBack ==
  LET matches == TargetsMatch /\ OthersMatch
      last == tx.reads + 1 = ReadsNeeded
      seen == [tx EXCEPT !.reads = @ + 1]
      done == [tx EXCEPT !.reads = 0, !.seen = radio, !.pc = IF tx.kind = "delete" THEN "commit" ELSE "verify"]
  IN /\ tx.pc = "readback"
     /\ \/ ~Check /\ SetTx(Failed)
        \/ Check /\ matches /\ SetTx(IF last THEN done ELSE seen)
        \/ Check /\ ~matches /\ tx.kind = "delete"
             /\ SetTx(IF OthersMatch THEN [tx EXCEPT !.reads = 0] ELSE Failed)
        \/ Check /\ ~matches /\ tx.kind # "delete" /\ tx.reads > 0 /\ SetTx(Failed)
     /\ UNCHANGED <<radioVars, rows, ledger, inbox, callback, begun, ghosts>>

\* VERIFIED, slot by slot, after a last check.
Verify ==
  /\ tx.pc = "verify"
  /\ IF tx.todo = Named /\ ~Check
     THEN SetTx(Failed) /\ UNCHANGED ledger
     ELSE \E s \in tx.todo :
            /\ ledger' = [ledger EXCEPT ![s].state = "VERIFIED", ![s].diverged = FALSE]
            /\ SetTx(After(s, "commit"))
  /\ UNCHANGED <<radioVars, rows, inbox, callback, begun, ghosts>>

\* Nothing reads the other columns of a committed mutation again.
Committed(S) ==
  ledger' = [s \in Slots |-> IF s \in S THEN [NoMutation EXCEPT !.state = "LOCAL_COMMIT"] ELSE ledger[s]]

Closed(S) ==
  /\ posts' = [s \in Slots |-> IF s \in S THEN 0 ELSE posts[s]]
  /\ held' = [s \in Slots |-> IF s \in S THEN {} ELSE held[s]]

\* commit_window() reserves the database, compares the local state again, and one
\* commit stores what the radio was seen to hold.
Commit ==
  /\ tx.pc = "commit"
  /\ IF Check
     THEN /\ rows' = [s \in Slots |-> IF s \in Named THEN tx.seen[s] ELSE rows[s]]
          /\ Committed(Named) /\ SetTx(Idle)
          /\ Closed(Named)
     ELSE SetTx(Failed) /\ UNCHANGED <<rows, ledger, ghosts>>
  /\ UNCHANGED <<radioVars, inbox, callback, begun>>

-----------------------------------------------------------------------------
(***************************************************************************)
(* Download and reconciliation                                             *)
(***************************************************************************)

\* _confirmed(): the original intent, the original START, the untouched slots and
\* the local row all agree with the radio.
Confirmed(s) ==
  /\ ledger[s].state \in {"FAILED", "RECONCILE", "RADIO_WRITE", "RADIO_READBACK", "VERIFIED"}
  /\ ledger[s].start # NoStart
  /\ rows[s] = ledger[s].previous
  /\ \A t \in Slots \ {s} : ledger[s].start[t] = radio[t]
  /\ radio[s] = ledger[s].want

\* download_presets(): a second, equal observation; mutations it confirms are
\* closed, slots of the others keep their row, the rest follow the radio.
Download ==
  LET open == {s \in Slots : ledger[s].state \notin {"NONE", "LOCAL_COMMIT"}}
      closed == {s \in open : Confirmed(s)}
  IN /\ tx.pc = "download" /\ SetTx(Idle)
     /\ IF radio = tx.before /\ LocalKnown
        THEN /\ Committed(closed)
             /\ rows' = [s \in Slots |-> IF s \in open \ closed THEN rows[s] ELSE radio[s]]
             /\ Closed(closed)
        ELSE UNCHANGED <<ledger, rows, ghosts>>
     /\ UNCHANGED <<radioVars, inbox, callback, begun>>

-----------------------------------------------------------------------------
(***************************************************************************)
(* Failures                                                                *)
(***************************************************************************)

\* An unreadable or replaced radio, a protected target, a changed backup or
\* intent, a commit that fails, readback that never matches, cancellation.
TxFails ==
  /\ tx.pc \notin {"idle", "settle"}
  /\ SetTx(Failed)
  /\ UNCHANGED <<radioVars, rows, ledger, inbox, callback, begun, ghosts>>

\* The handlers of apply_prepared_presets() and remove_preset(): only a mutation
\* that cannot have reached the radio is FAILED without divergence.
NeverLeft(s) == IF tx.kind = "delete" THEN ~tx.attempted ELSE ledger[s].state = "PREPARED"

\* Its commit may fail too; the mutation then stays as it is.
Settle ==
  /\ tx.pc = "settle"
  /\ \E s \in tx.todo :
       /\ \/ ledger' = [ledger EXCEPT ![s].state = IF NeverLeft(s) THEN "FAILED" ELSE "RECONCILE",
                                      ![s].diverged = ~NeverLeft(s)]
          \/ UNCHANGED ledger
       /\ SetTx(IF tx.todo = {s} THEN Idle ELSE [tx EXCEPT !.todo = @ \ {s}])
  /\ UNCHANGED <<radioVars, rows, inbox, callback, begun, ghosts>>

\* The presets of a clone's source change; its precondition notices.
SourceChanges ==
  /\ tx.kind = "clone" /\ tx.intact
  /\ SetTx([tx EXCEPT !.intact = FALSE])
  /\ UNCHANGED <<radioVars, rows, ledger, inbox, callback, begun, ghosts>>

\* The process dies: the lock goes, mutations and backups stay.
Crash ==
  /\ tx # Idle /\ SetTx(Idle)
  /\ UNCHANGED <<radioVars, rows, ledger, inbox, callback, begun, ghosts>>

-----------------------------------------------------------------------------
Init ==
  /\ \E v \in Selections : \E filled \in SUBSET Slots :
       radio = [s \in Slots |-> IF s \in filled THEN [sel |-> v, art |-> FALSE] ELSE Empty]
  /\ rows = radio
  /\ ledger = [s \in Slots |-> NoMutation]
  /\ tx = Idle /\ inbox = {} /\ callback = NoCallback
  /\ begun = 0 /\ outside = 0
  /\ held = [s \in Slots |-> {}] /\ posts = [s \in Slots |-> 0]

Next ==
  \/ Begin \/ Plan \/ Noop \/ Observe \/ Prepare \/ Start \/ Arm \/ Confirm \/ Post \/ Mark
  \/ ReadBack \/ Verify \/ Commit \/ Download \/ TxFails \/ Settle \/ SourceChanges \/ Crash
  \/ OutsideChange \/ CallbackLooks \/ CallbackCommits

Spec == Init /\ [][Next]_presetVars

-----------------------------------------------------------------------------
(***************************************************************************)
(* Properties                                                              *)
(***************************************************************************)

Commits(s) == ledger[s].state # "LOCAL_COMMIT" /\ ledger'[s].state = "LOCAL_COMMIT"

\* "A lost response is not permission to replay", "unresolved preset intent
\* requires reconciliation": across failures, crashes and later transactions a
\* slot is written once, and then not again before the write was committed
\* locally; and a slot that may have been written is never recorded as a
\* failure that left the radio alone.
OneOpenWrite ==
  \A s \in Slots :
    /\ posts[s] <= 1
    /\ posts[s] = 1 => ~Settled(ledger[s]) /\ ledger[s].start # NoStart

\* write_presets() and download_presets(): a mutation is committed locally only
\* if the radio held the requested content after its START, whatever answers
\* were lost, refused or late.
CommitSeen == [][\A s \in Slots : Commits(s) => ledger[s].want \in held[s]]_presetVars

\* commit_window(), "local preset state/revision changed": no commit replaces a
\* row other than the one its mutation was prepared from, or its transaction
\* began with, although callbacks edit rows without the device lock at any
\* moment.
CommitFromKnown ==
  [][\A s \in Slots : Commits(s) => rows[s] \in {ledger[s].previous, tx.rows[s]}]_presetVars

\* "radio changed after artwork plan": an artwork write never changes what a slot
\* selects, unless the radio was changed after the last read before the write.
ArtworkOnly ==
  [][\A s \in Slots :
       tx.kind = "artwork" /\ posts'[s] > posts[s] /\ ~tx.dirty
       => radio[s] # Empty /\ tx.want[s].sel = radio[s].sel]_presetVars

=============================================================================
