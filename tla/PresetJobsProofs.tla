-------------------------- MODULE PresetJobsProofs --------------------------
(***************************************************************************)
(* Proofs about PresetJobs, for any number of slots, stations,             *)
(* transactions and outside changes: the write of a slot is never          *)
(* repeated, and what is committed locally was seen at the radio.          *)
(***************************************************************************)
EXTENDS PresetJobs, TLAPS

States == ActiveStates \cup {"NONE", "LOCAL_COMMIT", "FAILED"}
Places == {"idle", "plan", "noop", "observe", "prepare", "start", "arm", "confirm", "post", "mark",
           "readback", "verify", "commit", "download", "settle"}
Snapshot == [Slots -> Content \cup {Keep}]
Mutation == [state : States, op : {"WRITE", "DELETE"}, want : Content, previous : Content,
             start : Snapshot, diverged : BOOLEAN]
Transaction == [kind : Kinds \cup {"none"}, pc : Places, want : Snapshot, rows : Snapshot,
                before : Snapshot, seen : Snapshot, todo : SUBSET Slots, reads : Nat,
                attempted : BOOLEAN, intact : BOOLEAN, dirty : BOOLEAN]
Message == [op : {"put", "delete"}, slot : Slots, content : Content]

\* Type invariant.
PresetTypeOK ==
  /\ radio \in [Slots -> Content] /\ rows \in [Slots -> Content]
  /\ ledger \in [Slots -> Mutation]
  /\ tx \in Transaction
  /\ inbox \in SUBSET Message
  /\ callback # NoCallback => callback.slot \in Slots /\ callback.content \in Content
  /\ begun \in Nat /\ outside \in Nat
  /\ held \in [Slots -> SUBSET Content] /\ posts \in [Slots -> {0, 1}]

\* What is still to do concerns slots the transaction names, all of them before
\* anything is prepared.
TodoNamed ==
  /\ tx.pc # "settle" => tx.todo \subseteq Named
  /\ tx.pc = "settle" => Named = {}
  /\ tx.pc \in {"observe", "start"} => tx.todo = Named
  /\ tx.pc = "observe" /\ tx.kind # "delete" => Named = {}

\* The mutations of the running transaction are its own, and armed with its START
\* before a write can follow.
OwnMutations ==
  /\ \A s \in Owned :
       /\ ledger[s].want = tx.want[s]
       /\ ledger[s].state \in {"PREPARED", "RADIO_WRITE", "RADIO_READBACK", "VERIFIED"}
  /\ (tx.pc = "arm" \/ (tx.pc = "prepare" /\ tx.kind = "delete")) => tx.before \in [Slots -> Content]
  /\ tx.pc = "arm" => \A s \in Named \ tx.todo :
       ledger[s].state # "PREPARED" /\ ledger[s].start # NoStart
  /\ tx.pc \in {"confirm", "post", "mark", "readback", "verify", "commit"} =>
       \A s \in Named : ledger[s].state # "PREPARED" /\ ledger[s].start # NoStart

\* A slot that the transaction may still write was not written since its last
\* commit, and a removal that was not attempted wrote nothing.
Unwritten ==
  /\ tx.pc \in {"observe", "prepare", "start", "arm", "confirm"} => \A s \in Named : posts[s] = 0
  /\ tx.pc = "post" => \A s \in tx.todo : posts[s] = 0
  /\ tx.kind = "delete" /\ ~tx.attempted => \A s \in Named \cup tx.todo : posts[s] = 0

\* An armed slot, whose mutation is no longer only prepared, holds something it
\* held since its START, and what the readback
\* found is the intended content.
SeenHeld ==
  /\ \A s \in Slots : ledger[s].start # NoStart =>
       radio[s] \in held[s] /\ ledger[s].state # "PREPARED"
  /\ tx.pc \in {"verify", "commit"} =>
       \A s \in Named : tx.seen[s] = tx.want[s] /\ tx.seen[s] \in held[s]

\* Artwork is planned for what the slot holds, and the START still shows it.
ArtworkPlanned ==
  tx.kind = "artwork" =>
    /\ tx.pc \in {"prepare", "start", "arm", "confirm", "post"} =>
         \A s \in Named : tx.before[s] # Empty /\ tx.want[s].sel = tx.before[s].sel
    /\ tx.pc = "post" /\ ~tx.dirty => \A s \in tx.todo : radio[s] = tx.before[s]

PresetInv ==
  /\ PresetTypeOK /\ TodoNamed /\ OwnMutations /\ Unwritten /\ OneOpenWrite /\ SeenHeld
  /\ ArtworkPlanned

-----------------------------------------------------------------------------
(***************************************************************************)
(* The ends of a transaction                                               *)
(***************************************************************************)

USE PresetAssumption DEF SetTx

\* A transaction that is over, or only settles its mutations, names nothing.
Over == tx.pc \in {"idle", "settle"} /\ Named = {}

\* Nothing but the mutations matters to it.
LEMMA OverKeeps ==
  ASSUME Over', tx'.todo = {} \/ tx'.pc = "settle"
  PROVE  TodoNamed' /\ OwnMutations' /\ ArtworkPlanned'
<1>1. Named' = {} /\ Owned' = {}
  BY DEF Over, Owned
<1>2. TodoNamed'
  BY <1>1 DEF Over, TodoNamed
<1>3. OwnMutations'
  BY <1>1 DEF Over, OwnMutations
<1>4. ArtworkPlanned'
  BY DEF Over, ArtworkPlanned
<1>. QED
  BY <1>2, <1>3, <1>4

\* A snapshot not taken yet names no slot.
LEMMA NoStartNames == NoStart \in Snapshot /\ \A s \in Slots : NoStart[s] = Keep
  BY DEF NoStart, Snapshot

\* The lock is released.
LEMMA IdleOver ==
  ASSUME tx' = Idle
  PROVE  /\ tx' \in Transaction /\ Over' /\ tx'.todo = {} /\ tx'.kind = "none"
         /\ TodoNamed' /\ OwnMutations' /\ ArtworkPlanned' /\ Unwritten'
         /\ tx'.pc = "idle"
<1>1. tx' \in Transaction /\ tx'.pc = "idle" /\ tx'.todo = {} /\ tx'.kind = "none" /\ tx'.want = NoStart
  BY NoStartNames DEF Idle, Transaction, Places
<1>2. Named' = {}
  BY <1>1, NoStartNames DEF Named
<1>3. Over'
  BY <1>1, <1>2 DEF Over
<1>. QED
  BY <1>1, <1>2, <1>3, OverKeeps DEF Unwritten

\* A handler takes over the mutations of the transaction.
LEMMA FailedOver ==
  ASSUME PresetTypeOK, tx' = Failed
  PROVE  /\ tx' \in Transaction /\ Over' /\ tx'.todo \subseteq Owned
         /\ TodoNamed' /\ OwnMutations' /\ ArtworkPlanned'
         /\ tx'.pc \in {"idle", "settle"}
         /\ tx'.kind = "delete" => tx.kind = "delete" /\ tx'.attempted = tx.attempted
<1>1. CASE Owned = {}
  <2>1. tx' = Idle
    BY <1>1 DEF Failed
  <2>. QED
    BY <2>1, IdleOver
<1>2. CASE Owned # {}
  <2> DEFINE r == [Idle EXCEPT !.kind = tx.kind, !.pc = "settle", !.todo = Owned, !.attempted = tx.attempted]
  <2>1. tx' = r
    BY <1>2 DEF Failed
  <2>2. Owned \in SUBSET Slots
    BY DEF Owned, Named
  <2>3. /\ r.kind = tx.kind /\ r.pc = "settle" /\ r.todo = Owned /\ r.attempted = tx.attempted
        /\ r.want = NoStart /\ r \in Transaction
    BY <2>2, NoStartNames DEF Idle, Transaction, Places, PresetTypeOK
  <2>. HIDE DEF r
  <2>4. Named' = {}
    BY <2>1, <2>3, NoStartNames DEF Named
  <2>5. Over'
    BY <2>1, <2>3, <2>4 DEF Over
  <2>. QED
    BY <2>1, <2>3, <2>5, OverKeeps
<1>. QED
  BY <1>1, <1>2

\* It knows of no write that the mutations do not show.
LEMMA FailedUnwritten ==
  ASSUME PresetInv, tx' = Failed, UNCHANGED posts
  PROVE  Unwritten'
<1>1. tx'.todo \subseteq Named /\ Over' /\ (tx'.kind = "delete" => tx.kind = "delete" /\ tx'.attempted = tx.attempted)
  BY FailedOver DEF PresetInv, Owned
<1>. QED
  BY <1>1 DEF Over, Unwritten, PresetInv

\* A transaction that ends without touching anything else.
LEMMA FailedInv ==
  ASSUME PresetInv, tx' \in {Failed, Idle},
         UNCHANGED <<radio, rows, ledger, inbox, callback, begun, outside, held, posts>>
  PROVE  PresetInv'
<1>1. /\ tx' \in Transaction /\ TodoNamed' /\ OwnMutations' /\ ArtworkPlanned' /\ Unwritten'
      /\ tx'.pc \in {"idle", "settle"}
  BY FailedOver, IdleOver, FailedUnwritten DEF PresetInv
<1>2. PresetTypeOK' /\ OneOpenWrite' /\ SeenHeld'
  BY <1>1 DEF PresetInv, PresetTypeOK, OneOpenWrite, Settled, SeenHeld
<1>. QED
  BY <1>1, <1>2 DEF PresetInv

-----------------------------------------------------------------------------
(***************************************************************************)
(* Steps of the transaction                                                *)
(***************************************************************************)

\* What After() changes.
LEMMA AfterTx ==
  ASSUME PresetTypeOK, NEW s \in tx.todo, NEW pc \in Places, tx' = After(s, pc)
  PROVE  /\ tx' \in Transaction /\ Named' = Named
         /\ tx'.kind = tx.kind /\ tx'.want = tx.want /\ tx'.rows = tx.rows /\ tx'.before = tx.before
         /\ tx'.seen = tx.seen /\ tx'.attempted = tx.attempted /\ tx'.dirty = tx.dirty
         /\ \/ tx.todo = {s} /\ tx'.pc = pc /\ tx'.todo = Named
            \/ tx'.pc = tx.pc /\ tx'.todo = tx.todo \ {s}
<1> USE DEF PresetTypeOK, After, Transaction
<1>1. Named \in SUBSET Slots
  BY DEF Named
<1>2. CASE tx.todo = {s}
  BY <1>1, <1>2 DEF Named
<1>3. CASE tx.todo # {s}
  BY <1>3 DEF Named
<1>. QED
  BY <1>2, <1>3

\* Begin: every named slot is settled, so nothing is open for it.
LEMMA BeginInv == ASSUME PresetInv, Begin PROVE PresetInv'
<1> USE DEF PresetInv
<1>0. PICK k \in Kinds : \E want \in Wanted(k) : BeginWith(k, want)
  BY DEF Begin
<1>1. PICK want \in Wanted(k) : BeginWith(k, want)
  BY <1>0
<1> DEFINE named == {s \in Slots : want[s] # Keep}
           pc == FirstPlace(k)
<1>2. Station \subseteq Content
  <2>1. ASSUME NEW v \in Selections PROVE [sel |-> v, art |-> TRUE] \in [sel : Selections, art : BOOLEAN]
    OBVIOUS
  <2>. QED BY <2>1 DEF Station, Content, Item
<1>3. want \in Snapshot /\ (k \notin {"write", "clone", "delete"} => want = NoStart)
  <2>1. CASE k = "write"
    <3>1. PICK s \in Slots, c \in Station : want = [NoStart EXCEPT ![s] = c]
      BY <2>1 DEF Wanted
    <3>. QED BY <2>1, <3>1, <1>2, NoStartNames DEF Snapshot
  <2>2. CASE k = "clone"
    <3>1. want \in [Slots -> Station]
      BY <2>2 DEF Wanted
    <3>. QED BY <2>2, <3>1, <1>2 DEF Snapshot
  <2>3. CASE k = "delete"
    <3>1. PICK s \in Slots : want = [NoStart EXCEPT ![s] = Empty]
      BY <2>3 DEF Wanted
    <3>. QED BY <2>3, <3>1, NoStartNames DEF Snapshot, Content
  <2>4. CASE k \notin {"write", "clone", "delete"}
    BY <2>4, NoStartNames DEF Wanted
  <2>. QED BY <2>1, <2>2, <2>3, <2>4
<1>4. /\ pc \in {"prepare", "plan", "observe"} /\ (k = "artwork" => pc = "plan") /\ (pc = "plan" => k = "artwork")
      /\ (pc = "observe" => k \notin {"write", "clone"}) /\ (pc = "prepare" => k # "delete")
  BY DEF FirstPlace
<1>5. tx' = [Idle EXCEPT !.kind = k, !.want = want, !.rows = rows, !.todo = named, !.pc = pc]
  BY <1>1 DEF BeginWith
<1>. HIDE DEF pc
<1>. HIDE DEF named
<1>6. rows \in Snapshot /\ named \in SUBSET Slots
  BY DEF PresetTypeOK, Snapshot, named
<1>7. /\ tx' \in Transaction /\ tx'.kind = k /\ tx'.want = want /\ tx'.todo = named /\ tx'.pc = pc
  BY <1>3, <1>4, <1>5, <1>6, NoStartNames DEF Idle, Transaction, Places
<1>8. Named' = named /\ (pc = "plan" => named = {}) /\ (pc = "observe" /\ k # "delete" => named = {})
  BY <1>3, <1>4, <1>7, NoStartNames DEF Named, named
<1>9. UNCHANGED <<radio, rows, ledger, inbox, callback, outside, held, posts>> /\ begun' \in Nat
  BY <1>1 DEF BeginWith, radioVars, ghosts, PresetTypeOK
<1>10. Owned' = {}
  BY <1>4, <1>7, <1>8 DEF Owned
<1>11. \A s \in named : posts[s] = 0
  BY <1>1 DEF BeginWith, OneOpenWrite, PresetTypeOK, named
<1>12. PresetTypeOK'
  BY <1>7, <1>9 DEF PresetTypeOK
<1>13. TodoNamed' /\ Unwritten'
  BY <1>4, <1>7, <1>8, <1>9, <1>11 DEF TodoNamed, Unwritten
<1>14. OwnMutations'
  BY <1>4, <1>7, <1>10 DEF OwnMutations
<1>15. OneOpenWrite' /\ SeenHeld'
  BY <1>4, <1>7, <1>9 DEF OneOpenWrite, Settled, SeenHeld
<1>16. ArtworkPlanned'
  BY <1>4, <1>7 DEF ArtworkPlanned
<1>. QED
  BY <1>12, <1>13, <1>14, <1>15, <1>16

\* Plan: artwork for what the slots hold now.
LEMMA PlanInv == ASSUME PresetInv, Plan PROVE PresetInv'
<1> USE DEF PresetInv
<1>1. PICK mapped \in SUBSET Slots :
        LET want == Artwork(mapped)
            named == {s \in Slots : want[s] # Keep}
        IN tx' = IF ~(\A s \in named : Settled(ledger[s])) \/ rows # tx.rows THEN Idle
                 ELSE [tx EXCEPT !.want = want, !.todo = named, !.before = radio, !.dirty = FALSE,
                                 !.pc = IF named = {} THEN "noop" ELSE "prepare"]
  BY DEF Plan
<1>2. UNCHANGED <<radio, rows, ledger, inbox, callback, begun, outside, held, posts>>
  BY DEF Plan, radioVars, ghosts
<1> DEFINE want == Artwork(mapped)
           named == {s \in Slots : want[s] # Keep}
           pc == IF named = {} THEN "noop" ELSE "prepare"
<1>3. want \in Snapshot /\ \A s \in named : radio[s] # Empty /\ want[s].sel = radio[s].sel
  <2>1. ASSUME NEW s \in Slots
        PROVE  /\ want[s] \in Content \cup {Keep}
               /\ want[s] # Keep => radio[s] # Empty /\ want[s].sel = radio[s].sel
    <3>1. want[s] = IF s \in mapped /\ rows[s] # Empty /\ radio[s] # Empty /\ ~radio[s].art
                    THEN [radio[s] EXCEPT !.art = TRUE] ELSE Keep
      BY DEF Artwork
    <3>2. radio[s] # Empty => /\ [radio[s] EXCEPT !.art = TRUE] \in Item
                              /\ [radio[s] EXCEPT !.art = TRUE].sel = radio[s].sel
      BY DEF PresetTypeOK, Content, Item
    <3> HIDE DEF want
    <3> QED BY <3>1, <3>2 DEF Content
  <2>2. want = [s \in Slots |-> want[s]]
    BY DEF Artwork
  <2> HIDE DEF want
  <2> QED BY <2>1, <2>2 DEF Snapshot
<1>4. CASE tx' = Idle
  BY <1>2, <1>4, FailedInv
<1>5. CASE tx' # Idle
  <2>1. /\ \A s \in named : Settled(ledger[s])
        /\ tx' = [tx EXCEPT !.want = want, !.todo = named, !.before = radio, !.dirty = FALSE, !.pc = pc]
    BY <1>1, <1>5
  <2>2. pc \in {"noop", "prepare"} /\ (pc = "noop" => named = {}) /\ named \in SUBSET Slots /\ radio \in Snapshot
    BY DEF PresetTypeOK, Snapshot
  <2>. HIDE DEF want, pc
  <2>3. /\ tx' \in Transaction /\ tx'.kind = tx.kind /\ tx'.want = want /\ tx'.todo = named /\ tx'.pc = pc
        /\ tx'.before = radio
    BY <1>3, <2>1, <2>2 DEF Transaction, PresetTypeOK, Places
  <2>4. Named' = named
    BY <2>3 DEF Named
  <2>5. Owned' = {}
    BY <2>2, <2>3, <2>4 DEF Owned
  <2>6. \A s \in named : posts[s] = 0
    BY <2>1 DEF OneOpenWrite, PresetTypeOK
  <2>. HIDE DEF named
  <2>7. PresetTypeOK'
    BY <1>2, <2>3 DEF PresetTypeOK
  <2>8. TodoNamed' /\ Unwritten'
    BY <1>2, <2>2, <2>3, <2>4, <2>6 DEF TodoNamed, Unwritten
  <2>9. OwnMutations'
    BY <2>2, <2>3, <2>5 DEF OwnMutations, PresetTypeOK
  <2>10. OneOpenWrite' /\ SeenHeld'
    BY <1>2, <2>2, <2>3 DEF OneOpenWrite, Settled, SeenHeld
  <2>11. ArtworkPlanned'
    BY <1>3, <2>2, <2>3, <2>4 DEF ArtworkPlanned
  <2>. QED
    BY <2>7, <2>8, <2>9, <2>10, <2>11
<1>. QED
  BY <1>4, <1>5

\* Observe: a removal keeps what the radio holds as its START.
LEMMA ObserveInv == ASSUME PresetInv, Observe PROVE PresetInv'
<1> USE DEF PresetInv
<1> DEFINE pc == IF tx.kind = "delete" THEN "prepare" ELSE "download"
<1>1. /\ UNCHANGED <<radio, rows, ledger, inbox, callback, begun, outside, held, posts>>
      /\ tx.pc = "observe"
      /\ tx' = Idle \/ tx' = [tx EXCEPT !.before = radio, !.dirty = FALSE, !.pc = pc]
  BY DEF Observe, radioVars, ghosts
<1>2. CASE tx' = Idle
  BY <1>1, <1>2, FailedInv
<1>3. CASE tx' = [tx EXCEPT !.before = radio, !.dirty = FALSE, !.pc = pc]
  <2>1. pc \in {"prepare", "download"} /\ radio \in Snapshot /\ (pc = "prepare" => tx.kind # "artwork")
    BY DEF PresetTypeOK, Snapshot
  <2>. HIDE DEF pc
  <2>2. /\ tx' \in Transaction /\ tx'.kind = tx.kind /\ tx'.want = tx.want /\ tx'.todo = tx.todo
        /\ tx'.pc = pc /\ tx'.before = radio /\ tx'.attempted = tx.attempted
    BY <1>3, <2>1 DEF Transaction, PresetTypeOK, Places
  <2>3. Named' = Named /\ tx.todo = Named
    BY <1>1, <2>2 DEF Named, TodoNamed
  <2>4. Owned' = {}
    BY <1>1, <2>1, <2>2, <2>3 DEF Owned, TodoNamed, pc
  <2>5. PresetTypeOK'
    BY <1>1, <2>2 DEF PresetTypeOK
  <2>6. TodoNamed' /\ Unwritten'
    BY <1>1, <2>1, <2>2, <2>3 DEF TodoNamed, Unwritten
  <2>7. OwnMutations'
    BY <2>1, <2>2, <2>4 DEF OwnMutations, PresetTypeOK
  <2>8. OneOpenWrite' /\ SeenHeld'
    BY <1>1, <2>1, <2>2 DEF OneOpenWrite, Settled, SeenHeld
  <2>9. ArtworkPlanned'
    BY <1>1, <2>1, <2>2 DEF ArtworkPlanned
  <2>. QED
    BY <2>5, <2>6, <2>7, <2>8, <2>9
<1>. QED
  BY <1>1, <1>2, <1>3

\* Prepare: a new mutation replaces a settled one.
LEMMA PrepareInv == ASSUME PresetInv, Prepare PROVE PresetInv'
<1> USE DEF PresetInv
<1>1. tx.pc = "prepare" /\ UNCHANGED <<radio, rows, inbox, callback, begun, outside, held, posts>>
  BY DEF Prepare, radioVars, ghosts
<1>2. CASE tx' = Idle /\ UNCHANGED ledger
  BY <1>1, <1>2, FailedInv
<1>3. CASE ~(tx' = Idle /\ UNCHANGED ledger)
  <2> DEFINE pc == IF tx.kind = "delete" THEN "arm" ELSE "start"
             op == IF tx.kind = "delete" THEN "DELETE" ELSE "WRITE"
  <2>1. PICK s \in tx.todo :
          /\ ledger' = [ledger EXCEPT ![s] =
               [NoMutation EXCEPT !.state = "PREPARED", !.want = tx.want[s], !.previous = rows[s], !.op = op]]
          /\ tx' = After(s, pc)
    BY <1>3 DEF Prepare
  <2> DEFINE m == [NoMutation EXCEPT !.state = "PREPARED", !.want = tx.want[s], !.previous = rows[s], !.op = op]
  <2>2. s \in Named /\ s \in Slots /\ tx.want[s] \in Content /\ rows[s] \in Content /\ op \in {"WRITE", "DELETE"}
    BY <1>1 DEF TodoNamed, Named, PresetTypeOK, Transaction, Snapshot
  <2>. HIDE DEF op
  <2>3. m \in Mutation /\ m.want = tx.want[s] /\ m.state = "PREPARED" /\ m.start = NoStart
    BY <2>2, NoStartNames DEF NoMutation, Mutation, States, ActiveStates
  <2>4. ledger' = [ledger EXCEPT ![s] = m]
    BY <2>1
  <2>. HIDE DEF m
  <2>5. pc \in {"arm", "start"} /\ pc \in Places
    BY DEF Places
  <2>6. /\ tx' \in Transaction /\ Named' = Named
        /\ tx'.kind = tx.kind /\ tx'.want = tx.want /\ tx'.before = tx.before
        /\ tx'.attempted = tx.attempted /\ tx'.dirty = tx.dirty
        /\ \/ tx.todo = {s} /\ tx'.pc = pc /\ tx'.todo = Named
           \/ tx'.pc = "prepare" /\ tx'.todo = tx.todo \ {s}
    BY <1>1, <2>1, <2>5, AfterTx
  <2>. HIDE DEF pc
  <2>7. PresetTypeOK'
    BY <1>1, <2>2, <2>3, <2>4, <2>6 DEF PresetTypeOK
  <2>8. TodoNamed' /\ Unwritten'
    BY <1>1, <2>5, <2>6 DEF TodoNamed, Unwritten
  <2>9. Owned' \subseteq Owned \cup {s}
    BY <1>1, <2>5, <2>6 DEF Owned
  <2>10. ~(tx'.pc \in {"confirm", "post", "mark", "readback", "verify", "commit"})
    BY <2>5, <2>6
  <2>11. OwnMutations'
    <3>1. \A t \in Owned' : ledger'[t].want = tx'.want[t] /\
            ledger'[t].state \in {"PREPARED", "RADIO_WRITE", "RADIO_READBACK", "VERIFIED"}
      <4> SUFFICES ASSUME NEW t \in Owned'
                   PROVE ledger'[t].want = tx'.want[t] /\
                         ledger'[t].state \in {"PREPARED", "RADIO_WRITE", "RADIO_READBACK", "VERIFIED"}
        OBVIOUS
      <4>1. t \in Slots
        BY DEF Owned, Named
      <4>2. CASE t = s
        BY <4>2, <2>2, <2>3, <2>4, <2>6 DEF PresetTypeOK
      <4>3. CASE t # s
        BY <4>1, <4>3, <2>4, <2>6, <2>9 DEF PresetTypeOK, OwnMutations
      <4>. QED BY <4>2, <4>3
    <3>2. (tx'.pc = "arm" \/ (tx'.pc = "prepare" /\ tx'.kind = "delete")) => tx'.before \in [Slots -> Content]
      BY <1>1, <2>6, <2>5 DEF OwnMutations, pc
    <3>3. tx'.pc = "arm" => tx'.todo = Named'
      BY <2>6
    <3>. QED BY <3>1, <3>2, <3>3, <2>10 DEF OwnMutations
  <2>12. OneOpenWrite'
    <3>1. posts[s] = 0
      BY <1>1, <2>2 DEF Unwritten
    <3>. QED BY <1>1, <2>2, <2>4, <3>1 DEF PresetTypeOK, OneOpenWrite, Settled
  <2>13. SeenHeld'
    BY <1>1, <2>2, <2>3, <2>4, <2>10 DEF PresetTypeOK, SeenHeld
  <2>14. ArtworkPlanned'
    BY <1>1, <2>6, <2>10 DEF ArtworkPlanned
  <2>. QED
    BY <2>7, <2>8, <2>11, <2>12, <2>13, <2>14
<1>. QED
  BY <1>2, <1>3

\* Start: what the radio holds now becomes the START.
LEMMA StartInv == ASSUME PresetInv, Start PROVE PresetInv'
<1> USE DEF PresetInv
<1>1. /\ tx.pc = "start" /\ UNCHANGED <<radio, rows, ledger, inbox, callback, begun, outside, held, posts>>
      /\ \/ PlanHolds /\ tx' = [tx EXCEPT !.before = radio, !.dirty = FALSE, !.pc = "arm"]
         \/ tx' = Failed
  BY DEF Start, radioVars, ghosts
<1>2. CASE tx' = Failed
  BY <1>1, <1>2, FailedInv
<1>3. CASE PlanHolds /\ tx' = [tx EXCEPT !.before = radio, !.dirty = FALSE, !.pc = "arm"]
  <2>1. /\ tx' \in Transaction /\ tx'.kind = tx.kind /\ tx'.want = tx.want /\ tx'.todo = tx.todo
        /\ tx'.pc = "arm" /\ tx'.before = radio /\ tx'.attempted = tx.attempted
    BY <1>3 DEF Transaction, PresetTypeOK, Places, Snapshot
  <2>2. Named' = Named /\ Owned' = Owned /\ tx.todo = Named
    BY <1>1, <2>1 DEF Named, Owned, TodoNamed
  <2>3. PresetTypeOK'
    BY <1>1, <2>1 DEF PresetTypeOK
  <2>4. TodoNamed' /\ Unwritten'
    BY <1>1, <2>1, <2>2 DEF TodoNamed, Unwritten
  <2>5. OwnMutations'
    BY <1>1, <2>1, <2>2 DEF OwnMutations, PresetTypeOK
  <2>6. OneOpenWrite' /\ SeenHeld'
    BY <1>1, <2>1 DEF OneOpenWrite, Settled, SeenHeld
  <2>7. ArtworkPlanned'
    BY <1>1, <1>3, <2>1, <2>2 DEF ArtworkPlanned, PlanHolds
  <2>. QED
    BY <2>3, <2>4, <2>5, <2>6, <2>7
<1>. QED
  BY <1>1, <1>2, <1>3

\* Arm: the START is stored with the intent before anything is written.
LEMMA ArmInv == ASSUME PresetInv, Arm PROVE PresetInv'
<1> USE DEF PresetInv
<1>1. tx.pc = "arm" /\ UNCHANGED <<radio, rows, inbox, callback, begun, outside, posts>>
  BY DEF Arm, radioVars
<1>2. PICK s \in tx.todo :
        /\ ledger' = [ledger EXCEPT ![s].state = "RADIO_WRITE", ![s].start = tx.before]
        /\ held' = [held EXCEPT ![s] = {radio[s]}]
        /\ tx' = After(s, "confirm")
  BY DEF Arm
<1>3. s \in Named /\ s \in Slots /\ s \in Owned
  BY <1>1 DEF TodoNamed, Named, Owned
<1>4. tx.before \in Snapshot /\ tx.before # NoStart
  BY <1>1, <1>3, NoStartNames DEF OwnMutations, Snapshot, Content, Item
<1>5. /\ tx' \in Transaction /\ Named' = Named
      /\ tx'.kind = tx.kind /\ tx'.want = tx.want /\ tx'.before = tx.before
      /\ tx'.attempted = tx.attempted /\ tx'.dirty = tx.dirty
      /\ \/ tx.todo = {s} /\ tx'.pc = "confirm" /\ tx'.todo = Named
         \/ tx'.pc = "arm" /\ tx'.todo = tx.todo \ {s}
  BY <1>1, <1>2, AfterTx DEF Places
<1>6. /\ ledger'[s].state = "RADIO_WRITE" /\ ledger'[s].start = tx.before /\ ledger'[s].want = ledger[s].want
      /\ ledger'[s] \in Mutation
      /\ \A t \in Slots \ {s} : ledger'[t] = ledger[t]
  <2> DEFINE m == [ledger[s] EXCEPT !.state = "RADIO_WRITE", !.start = tx.before]
  <2>1. ledger' = [ledger EXCEPT ![s] = m]
    BY <1>2, <1>3 DEF PresetTypeOK
  <2>0. ledger[s] \in Mutation
    BY <1>3 DEF PresetTypeOK
  <2>2. m \in Mutation /\ m.state = "RADIO_WRITE" /\ m.start = tx.before /\ m.want = ledger[s].want
    <3> HIDE DEF PresetInv
    <3>. QED BY <2>0, <1>4 DEF Mutation, States, ActiveStates
  <2>. HIDE DEF m
  <2>. QED BY <1>3, <2>1, <2>2 DEF PresetTypeOK
<1>7. ledger' \in [Slots -> Mutation]
  <2>1. ledger' = [ledger EXCEPT ![s] = ledger'[s]]
    BY <1>2, <1>3 DEF PresetTypeOK
  <2>. QED BY <2>1, <1>6 DEF PresetTypeOK
<1>8. PresetTypeOK'
  BY <1>1, <1>2, <1>3, <1>5, <1>7 DEF PresetTypeOK
<1>9. TodoNamed' /\ Unwritten'
  BY <1>1, <1>5 DEF TodoNamed, Unwritten
<1>10. Owned' = Owned /\ Owned = Named /\ Named \subseteq Slots
  BY <1>1, <1>5 DEF Owned, Named
<1>11. OwnMutations'
  <2>1. \A t \in Owned' :
          ledger'[t].want = tx'.want[t] /\ ledger'[t].state \in {"PREPARED", "RADIO_WRITE", "RADIO_READBACK", "VERIFIED"}
    BY <1>3, <1>5, <1>6, <1>10 DEF OwnMutations
  <2>2. \A t \in Named \ (tx.todo \ {s}) : ledger'[t].state # "PREPARED" /\ ledger'[t].start # NoStart
    <3> SUFFICES ASSUME NEW t \in Named \ (tx.todo \ {s})
                 PROVE ledger'[t].state # "PREPARED" /\ ledger'[t].start # NoStart
      OBVIOUS
    <3>1. CASE t = s
      BY <3>1, <1>4, <1>6
    <3>2. CASE t # s
      BY <3>2, <1>1, <1>6, <1>10 DEF OwnMutations
    <3>. QED BY <3>1, <3>2
  <2>. QED BY <1>1, <1>5, <2>1, <2>2 DEF OwnMutations
<1>12. OneOpenWrite'
  BY <1>1, <1>3, <1>4, <1>6 DEF OneOpenWrite, Settled
<1>13. SeenHeld'
  BY <1>1, <1>2, <1>3, <1>5, <1>6 DEF SeenHeld, PresetTypeOK
<1>14. ArtworkPlanned'
  BY <1>1, <1>5 DEF ArtworkPlanned
<1>. QED
  BY <1>8, <1>9, <1>11, <1>12, <1>13, <1>14

\* Confirm: the radio still holds the START.
LEMMA ConfirmInv == ASSUME PresetInv, Confirm PROVE PresetInv'
<1> USE DEF PresetInv
<1>1. /\ tx.pc = "confirm" /\ UNCHANGED <<radio, rows, ledger, inbox, callback, begun, outside, held, posts>>
      /\ \/ radio = tx.before /\ tx' = [tx EXCEPT !.pc = "post", !.dirty = FALSE]
         \/ tx' = Failed
  BY DEF Confirm, radioVars, ghosts
<1>2. CASE tx' = Failed
  BY <1>1, <1>2, FailedInv
<1>3. CASE radio = tx.before /\ tx' = [tx EXCEPT !.pc = "post", !.dirty = FALSE]
  <2>1. /\ tx' \in Transaction /\ tx'.kind = tx.kind /\ tx'.want = tx.want /\ tx'.todo = tx.todo
        /\ tx'.pc = "post" /\ tx'.before = tx.before /\ tx'.attempted = tx.attempted
    BY <1>3 DEF Transaction, PresetTypeOK, Places
  <2>2. Named' = Named /\ Owned' = Owned /\ tx.todo \subseteq Named
    BY <1>1, <2>1 DEF Named, Owned, TodoNamed
  <2>3. PresetTypeOK'
    BY <1>1, <2>1 DEF PresetTypeOK
  <2>4. TodoNamed' /\ Unwritten'
    BY <1>1, <2>1, <2>2 DEF TodoNamed, Unwritten
  <2>5. OwnMutations'
    BY <1>1, <2>1, <2>2 DEF OwnMutations
  <2>6. OneOpenWrite' /\ SeenHeld'
    BY <1>1, <2>1 DEF OneOpenWrite, Settled, SeenHeld
  <2>7. ArtworkPlanned'
    BY <1>1, <1>3, <2>1, <2>2 DEF ArtworkPlanned
  <2>. QED
    BY <2>3, <2>4, <2>5, <2>6, <2>7
<1>. QED
  BY <1>1, <1>2, <1>3

\* A slot of the radio changes: an armed slot keeps what it held.
LEMMA RadioSetsKeeps ==
  ASSUME PresetInv, NEW s \in Slots, NEW c \in Content, RadioSets(s, c)
  PROVE  /\ radio' \in [Slots -> Content] /\ held' \in [Slots -> SUBSET Content] /\ inbox' \in SUBSET Message
         /\ \A t \in Slots \ {s} : radio'[t] = radio[t]
         /\ \A t \in Slots : ledger[t].start # NoStart => radio'[t] \in held'[t] /\ held[t] \subseteq held'[t]
<1> USE DEF PresetInv, PresetTypeOK
<1>1. radio' \in [Slots -> Content] /\ radio'[s] = c /\ \A t \in Slots \ {s} : radio'[t] = radio[t]
  BY DEF RadioSets
<1>2. /\ held' = [held EXCEPT ![s] = IF ledger[s].start = NoStart THEN {} ELSE held[s] \cup {c}]
  BY DEF RadioSets
<1>3. held' \in [Slots -> SUBSET Content]
  BY <1>2
<1>4. [op |-> IF c = Empty THEN "delete" ELSE "put", slot |-> s, content |-> c] \in Message
  BY DEF Message
<1>5. inbox' \in SUBSET Message
  BY <1>4 DEF RadioSets
<1>6. ASSUME NEW t \in Slots, ledger[t].start # NoStart
      PROVE radio'[t] \in held'[t] /\ held[t] \subseteq held'[t]
  <2>1. CASE t = s
    BY <1>1, <1>2, <1>6, <2>1
  <2>2. CASE t # s
    BY <1>1, <1>2, <1>6, <2>2 DEF SeenHeld
  <2>. QED BY <2>1, <2>2
<1>. QED
  BY <1>1, <1>3, <1>5, <1>6

\* Where the transaction goes after slot s was posted or skipped.
LEMMA PostedTx ==
  ASSUME PresetTypeOK, tx.pc = "post", NEW attempted \in BOOLEAN, NEW todo \in SUBSET tx.todo,
         tx' = Posted([tx EXCEPT !.attempted = attempted, !.todo = todo])
  PROVE  /\ tx' \in Transaction /\ Named' = Named
         /\ tx'.kind = tx.kind /\ tx'.want = tx.want /\ tx'.before = tx.before /\ tx'.dirty = tx.dirty
         /\ tx'.attempted = attempted
         /\ ((tx'.pc = "mark" /\ tx'.todo = Named) \/ (tx'.pc = "post" /\ tx'.todo = todo))
<1> DEFINE r == [tx EXCEPT !.attempted = attempted, !.todo = todo]
<1>1. /\ r \in Transaction /\ r.kind = tx.kind /\ r.want = tx.want /\ r.before = tx.before
      /\ r.dirty = tx.dirty /\ r.attempted = attempted /\ r.pc = "post" /\ r.todo = todo
  BY DEF PresetTypeOK, Transaction
<1>2. tx' = Posted(r)
  OBVIOUS
<1>. HIDE DEF r
<1>3. Named \in SUBSET Slots
  BY DEF Named
<1>4. CASE r.todo = {}
  <2>1. tx' = [r EXCEPT !.pc = "mark", !.todo = Named]
    BY <1>2, <1>4 DEF Posted
  <2>2. /\ tx' \in Transaction /\ tx'.kind = r.kind /\ tx'.want = r.want /\ tx'.before = r.before
        /\ tx'.dirty = r.dirty /\ tx'.attempted = r.attempted /\ tx'.pc = "mark" /\ tx'.todo = Named
    BY <1>1, <1>3, <2>1 DEF Transaction, Places
  <2>. QED BY <1>1, <2>2 DEF Named
<1>5. CASE r.todo # {}
  <2>1. tx' = r
    BY <1>2, <1>5 DEF Posted
  <2>. QED BY <1>1, <2>1 DEF Named
<1>. QED
  BY <1>4, <1>5

\* The slots that remain keep what the invariant says of them.
LEMMA PostedKeeps ==
  ASSUME PresetInv, tx.pc = "post", NEW s \in tx.todo,
         tx' \in Transaction, Named' = Named,
         tx'.kind = tx.kind, tx'.want = tx.want, tx'.before = tx.before, tx'.dirty = tx.dirty,
         (tx'.pc = "mark" /\ tx'.todo = Named) \/ (tx'.pc = "post" /\ tx'.todo \subseteq tx.todo \ {s}),
         tx'.kind = "delete" /\ ~tx'.attempted => tx.kind = "delete" /\ ~tx.attempted /\ posts' = posts,
         UNCHANGED ledger, posts' \in [Slots -> {0, 1}],
         \A t \in Slots \ {s} : posts'[t] = posts[t] /\ radio'[t] = radio[t]
  PROVE  TodoNamed' /\ OwnMutations' /\ Unwritten' /\ OneOpenWrite' /\ ArtworkPlanned'
<1> USE DEF PresetInv
<1>1. tx.todo \subseteq Named /\ Named \subseteq Slots /\ s \in Named
  BY DEF TodoNamed, Named
<1>2. TodoNamed'
  BY <1>1 DEF TodoNamed
<1>3. Owned' = Owned /\ Owned = Named
  BY DEF Owned
<1>4. OwnMutations'
  BY <1>3 DEF OwnMutations
<1>5. \A t \in Slots : posts'[t] = 1 => posts[t] = 1 \/ t = s
  OBVIOUS
<1>6. Unwritten'
  <2>1. tx'.pc = "post" => \A t \in tx'.todo : posts'[t] = 0
    BY <1>1 DEF Unwritten
  <2>2. tx'.kind = "delete" /\ ~tx'.attempted => \A t \in Named' \cup tx'.todo : posts'[t] = 0
    BY <1>1 DEF Unwritten
  <2>. QED BY <2>1, <2>2 DEF Unwritten
<1>7. ~Settled(ledger[s]) /\ ledger[s].start # NoStart
  BY <1>1, <1>3 DEF OwnMutations, Settled
<1>8. OneOpenWrite'
  BY <1>5, <1>7 DEF OneOpenWrite, Settled, PresetTypeOK
<1>9. ArtworkPlanned'
  BY <1>1 DEF ArtworkPlanned
<1>. QED
  BY <1>2, <1>4, <1>6, <1>8, <1>9

\* Send: at most one write for each slot, and only for an armed one.
LEMMA SendInv ==
  ASSUME PresetInv, tx.pc = "post", NEW s \in tx.todo, Send(s),
         UNCHANGED <<rows, ledger, callback, begun, outside>>
  PROVE  PresetInv'
<1> USE DEF PresetInv
<1>1. s \in Named /\ s \in Slots /\ tx.want[s] \in Content
  BY DEF TodoNamed, Named, PresetTypeOK, Transaction, Snapshot
<1>2. PICK took \in BOOLEAN, reply \in {"ok", "lost", "rejected"} :
        /\ IF took THEN RadioSets(s, tx.want[s]) ELSE UNCHANGED <<radio, inbox, held>>
        /\ tx' = CASE reply = "ok" -> Posted(Gone(s))
                   [] reply = "rejected" /\ tx.kind # "delete" -> Failed
                   [] OTHER -> Posted([Gone(s) EXCEPT !.todo = {}])
  BY DEF Send
<1>3. posts[s] = 0 /\ posts' = [posts EXCEPT ![s] = 1]
  <2>1. posts[s] = 0 /\ posts' = [posts EXCEPT ![s] = posts[s] + 1]
    BY DEF Send, Unwritten
  <2>. QED BY <2>1
<1>4. /\ radio' \in [Slots -> Content] /\ held' \in [Slots -> SUBSET Content] /\ inbox' \in SUBSET Message
      /\ \A t \in Slots \ {s} : radio'[t] = radio[t]
      /\ \A t \in Slots : ledger[t].start # NoStart => radio'[t] \in held'[t] /\ held[t] \subseteq held'[t]
  <2>1. CASE took
    BY <1>1, <1>2, <2>1, RadioSetsKeeps
  <2>2. CASE ~took
    BY <1>2, <2>2 DEF PresetTypeOK, SeenHeld
  <2>. QED BY <2>1, <2>2
<1>5. posts' \in [Slots -> {0, 1}] /\ \A t \in Slots \ {s} : posts'[t] = posts[t]
  BY <1>1, <1>3 DEF PresetTypeOK
<1>6. ~Settled(ledger[s]) /\ ledger[s].start # NoStart
  BY <1>1 DEF OwnMutations, Settled, Owned
<1>7. OneOpenWrite'
  BY <1>5, <1>6 DEF OneOpenWrite, Settled, PresetTypeOK
<1>8. CASE tx' = Failed /\ tx.kind # "delete"
  <2>1. /\ tx' \in Transaction /\ Over' /\ TodoNamed' /\ OwnMutations' /\ ArtworkPlanned'
        /\ tx'.pc \in {"idle", "settle"} /\ tx'.kind # "delete"
    BY <1>8, FailedOver
  <2>2. PresetTypeOK'
    BY <1>4, <1>5, <2>1 DEF PresetTypeOK
  <2>3. Unwritten' /\ SeenHeld'
    BY <1>4, <2>1 DEF Unwritten, SeenHeld
  <2>. QED
    BY <1>7, <2>1, <2>2, <2>3
<1>9. CASE tx' \in {Posted(Gone(s)), Posted([Gone(s) EXCEPT !.todo = {}])}
  <2>1. PICK todo \in {tx.todo \ {s}, {}} :
          tx' = Posted([tx EXCEPT !.attempted = (tx.kind = "delete"), !.todo = todo])
    <3>1. /\ Gone(s) = [tx EXCEPT !.attempted = (tx.kind = "delete"), !.todo = tx.todo \ {s}]
          /\ [Gone(s) EXCEPT !.todo = {}] = [tx EXCEPT !.attempted = (tx.kind = "delete"), !.todo = {}]
      BY DEF Gone, PresetTypeOK, Transaction
    <3> QED BY <1>9, <3>1
  <2>2. /\ todo \in SUBSET tx.todo /\ (tx.kind = "delete") \in BOOLEAN
        /\ todo \subseteq tx.todo \ {s}
    BY <2>1
  <2>3. /\ tx' \in Transaction /\ Named' = Named
        /\ tx'.kind = tx.kind /\ tx'.want = tx.want /\ tx'.before = tx.before /\ tx'.dirty = tx.dirty
        /\ tx'.attempted = (tx.kind = "delete")
        /\ (tx'.pc = "mark" /\ tx'.todo = Named) \/ (tx'.pc = "post" /\ tx'.todo = todo)
    BY <2>1, <2>2, PostedTx
  <2>4. TodoNamed' /\ OwnMutations' /\ Unwritten' /\ OneOpenWrite' /\ ArtworkPlanned'
    <3>1. (tx'.pc = "mark" /\ tx'.todo = Named) \/ (tx'.pc = "post" /\ tx'.todo \subseteq tx.todo \ {s})
      BY <2>2, <2>3
    <3>2. ~(tx'.kind = "delete" /\ ~tx'.attempted)
      BY <2>3
    <3>3. \A t \in Slots \ {s} : posts'[t] = posts[t] /\ radio'[t] = radio[t]
      BY <1>4, <1>5
    <3> QED BY <1>5, <2>3, <3>1, <3>2, <3>3, PostedKeeps
  <2>5. PresetTypeOK'
    BY <1>4, <1>5, <2>3 DEF PresetTypeOK
  <2>6. SeenHeld'
    BY <1>4, <2>3 DEF SeenHeld
  <2>. QED
    BY <2>4, <2>5, <2>6
<1>. QED
  BY <1>2, <1>8, <1>9

\* Post: a failed check, a slot that already holds the content, or a write.
LEMMA PostInv == ASSUME PresetInv, Post PROVE PresetInv'
<1>1. tx.pc = "post" /\ UNCHANGED <<rows, ledger, callback, begun, outside>>
  BY DEF Post
<1>2. PICK s \in tx.todo :
        \/ tx' = Failed /\ UNCHANGED <<radio, inbox, ghosts>>
        \/ tx' = Posted([tx EXCEPT !.todo = tx.todo \ {s}]) /\ UNCHANGED <<radio, inbox, ghosts>>
        \/ Send(s)
  BY DEF Post
<1>3. CASE tx' = Failed /\ UNCHANGED <<radio, inbox, ghosts>>
  BY <1>1, <1>3, FailedInv DEF ghosts
<1>4. CASE tx' = Posted([tx EXCEPT !.todo = tx.todo \ {s}]) /\ UNCHANGED <<radio, inbox, ghosts>>
  <2>1. tx.attempted \in BOOLEAN /\ tx.todo \ {s} \in SUBSET tx.todo
    BY DEF PresetInv, PresetTypeOK, Transaction
  <2>2. tx' = Posted([tx EXCEPT !.attempted = tx.attempted, !.todo = tx.todo \ {s}])
    BY <1>4 DEF PresetInv, PresetTypeOK, Transaction
  <2>3. /\ tx' \in Transaction /\ Named' = Named
        /\ tx'.kind = tx.kind /\ tx'.want = tx.want /\ tx'.before = tx.before /\ tx'.dirty = tx.dirty
        /\ tx'.attempted = tx.attempted
        /\ (tx'.pc = "mark" /\ tx'.todo = Named) \/ (tx'.pc = "post" /\ tx'.todo = tx.todo \ {s})
    BY <1>1, <2>1, <2>2, PostedTx DEF PresetInv
  <2>4. UNCHANGED <<radio, inbox, held, posts>> /\ posts' \in [Slots -> {0, 1}]
    BY <1>4 DEF ghosts, PresetInv, PresetTypeOK
  <2>5. TodoNamed' /\ OwnMutations' /\ Unwritten' /\ OneOpenWrite' /\ ArtworkPlanned'
    BY <1>1, <2>3, <2>4, PostedKeeps
  <2>6. PresetTypeOK'
    BY <1>1, <2>3, <2>4 DEF PresetInv, PresetTypeOK
  <2>7. SeenHeld'
    BY <1>1, <2>3, <2>4 DEF PresetInv, SeenHeld
  <2>. QED
    BY <2>5, <2>6, <2>7 DEF PresetInv
<1>5. CASE Send(s)
  BY <1>1, <1>5, SendInv
<1>. QED
  BY <1>2, <1>3, <1>4, <1>5

\* A mutation moves to another state, possibly with its mark of divergence.
LEMMA MovedLedger ==
  ASSUME PresetTypeOK, NEW s \in Slots, NEW state \in States, NEW d \in BOOLEAN,
         ledger' = [ledger EXCEPT ![s] = [ledger[s] EXCEPT !.state = state, !.diverged = d]]
  PROVE  /\ ledger' \in [Slots -> Mutation]
         /\ ledger'[s].state = state /\ ledger'[s].diverged = d
         /\ ledger'[s].start = ledger[s].start /\ ledger'[s].want = ledger[s].want
         /\ \A t \in Slots \ {s} : ledger'[t] = ledger[t]
<1> DEFINE m == [ledger[s] EXCEPT !.state = state, !.diverged = d]
<1>1. ledger[s] \in Mutation
  BY DEF PresetTypeOK
<1>2. m \in Mutation /\ m.state = state /\ m.diverged = d /\ m.start = ledger[s].start /\ m.want = ledger[s].want
  BY <1>1 DEF Mutation
<1>. HIDE DEF m
<1>3. ledger' = [ledger EXCEPT ![s] = m]
  BY DEF m
<1>. QED
  BY <1>2, <1>3 DEF PresetTypeOK

\* A written slot moves on with its START.
LEMMA MovesOn ==
  ASSUME PresetInv, NEW s \in tx.todo, NEW pc \in {"readback", "commit"},
         NEW state \in {"RADIO_READBACK", "VERIFIED"}, NEW d \in BOOLEAN,
         (tx.pc = "mark" /\ pc = "readback") \/ (tx.pc = "verify" /\ pc = "commit"),
         ledger' = [ledger EXCEPT ![s] = [ledger[s] EXCEPT !.state = state, !.diverged = d]],
         tx' = After(s, pc),
         UNCHANGED <<radio, rows, inbox, callback, begun, outside, held, posts>>
  PROVE  PresetInv'
<1> USE DEF PresetInv
<1>1. s \in Named /\ s \in Slots /\ Named \subseteq Slots
  BY DEF TodoNamed, Named
<1>2. /\ ledger' \in [Slots -> Mutation]
      /\ ledger'[s].state = state
      /\ ledger'[s].start = ledger[s].start /\ ledger'[s].want = ledger[s].want
      /\ \A t \in Slots \ {s} : ledger'[t] = ledger[t]
  BY <1>1, MovedLedger DEF States, ActiveStates
<1>3. /\ tx' \in Transaction /\ Named' = Named
      /\ tx'.kind = tx.kind /\ tx'.want = tx.want /\ tx'.seen = tx.seen
      /\ tx'.attempted = tx.attempted
      /\ (tx'.pc = pc /\ tx'.todo = Named) \/ (tx'.pc = tx.pc /\ tx'.todo = tx.todo \ {s})
  BY AfterTx DEF Places
<1>4. tx'.pc \in {"mark", "readback", "verify", "commit"} /\ (tx'.pc = "commit" => tx.pc = "verify") /\ (tx'.pc = "verify" => tx.pc = "verify")
  BY <1>3
<1>5. Owned = Named /\ Owned' = Named
  BY <1>3, <1>4 DEF Owned
<1>6. PresetTypeOK'
  BY <1>2, <1>3 DEF PresetTypeOK
<1>7. TodoNamed' /\ Unwritten' /\ ArtworkPlanned'
  BY <1>3, <1>4 DEF TodoNamed, Unwritten, ArtworkPlanned
<1>8. \A t \in Named : /\ ledger'[t].want = tx'.want[t] /\ ledger'[t].start # NoStart
                       /\ ledger'[t].state \in {"RADIO_WRITE", "RADIO_READBACK", "VERIFIED"}
  <2> SUFFICES ASSUME NEW t \in Named
               PROVE /\ ledger'[t].want = tx'.want[t] /\ ledger'[t].start # NoStart
                     /\ ledger'[t].state \in {"RADIO_WRITE", "RADIO_READBACK", "VERIFIED"}
    OBVIOUS
  <2>1. /\ ledger[t].want = tx.want[t] /\ ledger[t].start # NoStart
        /\ ledger[t].state \in {"RADIO_WRITE", "RADIO_READBACK", "VERIFIED"}
    BY <1>5 DEF OwnMutations
  <2>. QED BY <1>1, <1>2, <1>3, <2>1
<1>9. OwnMutations'
  BY <1>3, <1>4, <1>5, <1>8 DEF OwnMutations
<1>10. OneOpenWrite'
  <2> SUFFICES ASSUME NEW t \in Slots
               PROVE posts[t] <= 1 /\ (posts[t] = 1 => ~Settled(ledger'[t]) /\ ledger'[t].start # NoStart)
    BY DEF OneOpenWrite, Settled
  <2>1. CASE t = s
    BY <1>1, <1>2, <1>8, <2>1 DEF OneOpenWrite, Settled
  <2>2. CASE t # s
    BY <1>2, <2>2 DEF OneOpenWrite
  <2>. QED BY <2>1, <2>2
<1>11. SeenHeld'
  BY <1>1, <1>2, <1>3, <1>4 DEF SeenHeld
<1>. QED
  BY <1>6, <1>7, <1>9, <1>10, <1>11

\* Mark and Verify: RADIO_READBACK and VERIFIED keep the START and the intent.
LEMMA MarkInv == ASSUME PresetInv, Mark PROVE PresetInv'
<1>1. tx.pc = "mark" /\ UNCHANGED <<radio, rows, inbox, callback, begun, outside, held, posts>>
  BY DEF Mark, radioVars, ghosts
<1>2. CASE tx' = Failed /\ UNCHANGED ledger
  BY <1>1, <1>2, FailedInv
<1>3. CASE \E s \in tx.todo : Move(s, "RADIO_READBACK") /\ tx' = After(s, "readback")
  <2>1. PICK s \in tx.todo : Move(s, "RADIO_READBACK") /\ tx' = After(s, "readback")
    BY <1>3
  <2>2. s \in Slots /\ ledger[s].diverged \in BOOLEAN
    BY <1>1 DEF PresetInv, TodoNamed, Named, PresetTypeOK, Mutation
  <2>3. ledger' = [ledger EXCEPT ![s] = [ledger[s] EXCEPT !.state = "RADIO_READBACK", !.diverged = ledger[s].diverged]]
    BY <2>1, <2>2 DEF Move, PresetInv, PresetTypeOK, Mutation
  <2>. QED
    BY <1>1, <2>1, <2>2, <2>3, MovesOn
<1>. QED
  BY <1>2, <1>3 DEF Mark

\* The readback verified.
LEMMA VerifyInv == ASSUME PresetInv, Verify PROVE PresetInv'
<1>1. tx.pc = "verify" /\ UNCHANGED <<radio, rows, inbox, callback, begun, outside, held, posts>>
  BY DEF Verify, radioVars, ghosts
<1>2. CASE tx' = Failed /\ UNCHANGED ledger
  BY <1>1, <1>2, FailedInv
<1>3. CASE \E s \in tx.todo : /\ ledger' = [ledger EXCEPT ![s].state = "VERIFIED", ![s].diverged = FALSE]
                              /\ tx' = After(s, "commit")
  <2>1. PICK s \in tx.todo : /\ ledger' = [ledger EXCEPT ![s].state = "VERIFIED", ![s].diverged = FALSE]
                             /\ tx' = After(s, "commit")
    BY <1>3
  <2>2. s \in Slots
    BY <1>1 DEF PresetInv, TodoNamed, Named
  <2>3. ledger' = [ledger EXCEPT ![s] = [ledger[s] EXCEPT !.state = "VERIFIED", !.diverged = FALSE]]
    BY <2>1, <2>2 DEF PresetInv, PresetTypeOK, Mutation
  <2>. QED
    BY <1>1, <2>1, <2>3, MovesOn
<1>. QED
  BY <1>2, <1>3 DEF Verify

\* ReadBack: the last read found the intended content.
LEMMA ReadBackInv == ASSUME PresetInv, ReadBack PROVE PresetInv'
<1> USE DEF PresetInv
<1> DEFINE pc == IF tx.kind = "delete" THEN "commit" ELSE "verify"
<1>1. tx.pc = "readback" /\ UNCHANGED <<radio, rows, ledger, inbox, callback, begun, outside, held, posts>>
  BY DEF ReadBack, radioVars, ghosts
<1>2. \/ tx' = Failed
      \/ tx' = [tx EXCEPT !.reads = tx.reads + 1]
      \/ tx' = [tx EXCEPT !.reads = 0]
      \/ TargetsMatch /\ tx' = [tx EXCEPT !.reads = 0, !.seen = radio, !.pc = pc]
  BY DEF ReadBack
<1>3. CASE tx' = Failed
  BY <1>1, <1>3, FailedInv
<1>4. CASE \E n \in Nat : tx' = [tx EXCEPT !.reads = n]
  <2>1. /\ tx' \in Transaction /\ tx'.kind = tx.kind /\ tx'.want = tx.want /\ tx'.todo = tx.todo
        /\ tx'.pc = tx.pc /\ tx'.attempted = tx.attempted
    BY <1>4 DEF Transaction, PresetTypeOK
  <2>2. Named' = Named /\ Owned' = Owned
    BY <2>1 DEF Named, Owned
  <2>3. PresetTypeOK'
    BY <1>1, <2>1 DEF PresetTypeOK
  <2>4. TodoNamed' /\ Unwritten' /\ ArtworkPlanned'
    BY <1>1, <2>1, <2>2 DEF TodoNamed, Unwritten, ArtworkPlanned
  <2>5. OwnMutations'
    BY <1>1, <2>1, <2>2 DEF OwnMutations
  <2>6. OneOpenWrite' /\ SeenHeld'
    BY <1>1, <2>1 DEF OneOpenWrite, Settled, SeenHeld
  <2>. QED
    BY <2>3, <2>4, <2>5, <2>6
<1>5. CASE TargetsMatch /\ tx' = [tx EXCEPT !.reads = 0, !.seen = radio, !.pc = pc]
  <2>1. pc \in {"commit", "verify"} /\ radio \in Snapshot
    BY DEF PresetTypeOK, Snapshot
  <2>. HIDE DEF pc
  <2>2. /\ tx' \in Transaction /\ tx'.kind = tx.kind /\ tx'.want = tx.want /\ tx'.todo = tx.todo
        /\ tx'.pc = pc /\ tx'.attempted = tx.attempted /\ tx'.seen = radio
    BY <1>5, <2>1 DEF Transaction, PresetTypeOK, Places
  <2>3. Named' = Named /\ Owned' = Owned /\ Owned = Named /\ Named \subseteq Slots
    BY <1>1, <2>1, <2>2 DEF Named, Owned
  <2>4. PresetTypeOK'
    BY <1>1, <2>2 DEF PresetTypeOK
  <2>5. TodoNamed' /\ Unwritten' /\ ArtworkPlanned'
    BY <1>1, <2>1, <2>2, <2>3 DEF TodoNamed, Unwritten, ArtworkPlanned
  <2>6. OwnMutations'
    BY <1>1, <2>1, <2>2, <2>3 DEF OwnMutations
  <2>7. OneOpenWrite'
    BY <1>1 DEF OneOpenWrite, Settled
  <2>8. \A s \in Named : radio[s] = tx.want[s] /\ radio[s] \in held[s]
    BY <1>1, <1>5, <2>3 DEF TargetsMatch, OwnMutations, SeenHeld
  <2>9. SeenHeld'
    BY <1>1, <2>2, <2>3, <2>8 DEF SeenHeld
  <2>. QED
    BY <2>4, <2>5, <2>6, <2>7, <2>9
<1>6. tx.reads + 1 \in Nat
  BY DEF PresetTypeOK, Transaction
<1>. QED
  BY <1>2, <1>3, <1>4, <1>5, <1>6

\* A local commit closes the slots it names and no others.
LEMMA ClosedInv ==
  ASSUME PresetInv, NEW S \in SUBSET Slots, Committed(S), Closed(S), tx' = Idle,
         rows' \in [Slots -> Content], UNCHANGED <<radio, inbox, callback, begun, outside>>
  PROVE  PresetInv'
<1> USE DEF PresetInv
<1> DEFINE m == [NoMutation EXCEPT !.state = "LOCAL_COMMIT"]
<1>1. m \in Mutation /\ m.start = NoStart
  BY NoStartNames DEF NoMutation, Mutation, States, ActiveStates, Content
<1>2. ledger' = [s \in Slots |-> IF s \in S THEN m ELSE ledger[s]]
  BY DEF Committed
<1>. HIDE DEF m
<1>3. ledger' \in [Slots -> Mutation]
  BY <1>1, <1>2 DEF PresetTypeOK
<1>4. posts' \in [Slots -> {0, 1}] /\ held' \in [Slots -> SUBSET Content]
  BY DEF Closed, PresetTypeOK
<1>5. tx' \in Transaction /\ TodoNamed' /\ OwnMutations' /\ ArtworkPlanned' /\ Unwritten' /\ tx'.pc = "idle"
  BY IdleOver
<1>6. PresetTypeOK'
  BY <1>3, <1>4, <1>5 DEF PresetTypeOK
<1>7. OneOpenWrite'
  <2> SUFFICES ASSUME NEW t \in Slots
               PROVE posts'[t] <= 1 /\ (posts'[t] = 1 => ~Settled(ledger'[t]) /\ ledger'[t].start # NoStart)
    BY DEF OneOpenWrite, Settled
  <2>1. CASE t \in S
    BY <2>1 DEF Closed
  <2>2. CASE t \notin S
    BY <1>2, <2>2 DEF Closed, OneOpenWrite
  <2>. QED BY <2>1, <2>2
<1>8. SeenHeld'
  BY <1>1, <1>2, <1>5 DEF Closed, SeenHeld
<1>. QED
  BY <1>5, <1>6, <1>7, <1>8

\* The local commit.
LEMMA CommitInv == ASSUME PresetInv, Commit PROVE PresetInv'
<1>1. tx.pc = "commit" /\ UNCHANGED <<radio, inbox, callback, begun, outside>>
  BY DEF Commit, radioVars
<1>2. CASE tx' = Failed /\ UNCHANGED <<rows, ledger, ghosts>>
  BY <1>1, <1>2, FailedInv DEF ghosts
<1>3. CASE /\ rows' = [s \in Slots |-> IF s \in Named THEN tx.seen[s] ELSE rows[s]]
           /\ Committed(Named) /\ tx' = Idle /\ Closed(Named)
  <2>1. Named \in SUBSET Slots
    BY DEF Named
  <2>2. \A s \in Named : tx.seen[s] \in Content
    BY <1>1, <2>1 DEF PresetInv, SeenHeld, PresetTypeOK
  <2>3. rows' \in [Slots -> Content]
    BY <1>3, <2>2 DEF PresetInv, PresetTypeOK
  <2>. QED
    BY <1>1, <1>3, <2>1, <2>3, ClosedInv
<1>. QED
  BY <1>2, <1>3 DEF Commit

\* download_presets() commits what it read.
LEMMA DownloadInv == ASSUME PresetInv, Download PROVE PresetInv'
<1> DEFINE open == {s \in Slots : ledger[s].state \notin {"NONE", "LOCAL_COMMIT"}}
           closed == {s \in open : Confirmed(s)}
<1>1. tx' = Idle /\ UNCHANGED <<radio, inbox, callback, begun, outside>>
  BY DEF Download, radioVars
<1>2. CASE UNCHANGED <<ledger, rows, ghosts>>
  BY <1>1, <1>2, FailedInv DEF ghosts
<1>3. CASE /\ Committed(closed) /\ Closed(closed)
           /\ rows' = [s \in Slots |-> IF s \in open \ closed THEN rows[s] ELSE radio[s]]
  <2>1. rows' \in [Slots -> Content] /\ closed \in SUBSET Slots
    BY <1>3 DEF PresetInv, PresetTypeOK
  <2>. QED
    BY <1>1, <1>3, <2>1, ClosedInv
<1>. QED
  BY <1>2, <1>3 DEF Download

\* Settle: only a mutation that cannot have reached the radio fails undiverged.
LEMMA SettleInv == ASSUME PresetInv, Settle PROVE PresetInv'
<1> USE DEF PresetInv
<1>1. tx.pc = "settle" /\ UNCHANGED <<radio, rows, inbox, callback, begun, outside, held, posts>>
  BY DEF Settle, radioVars, ghosts
<1>2. PICK s \in tx.todo :
        /\ \/ ledger' = [ledger EXCEPT ![s].state = IF NeverLeft(s) THEN "FAILED" ELSE "RECONCILE",
                                       ![s].diverged = ~NeverLeft(s)]
           \/ UNCHANGED ledger
        /\ tx' = IF tx.todo = {s} THEN Idle ELSE [tx EXCEPT !.todo = tx.todo \ {s}]
  BY DEF Settle
<1>3. s \in Slots
  BY DEF PresetTypeOK, Transaction
<1>5. /\ tx' \in Transaction /\ TodoNamed' /\ ArtworkPlanned' /\ Unwritten' /\ OwnMutations'
      /\ tx'.pc \in {"idle", "settle"}
  <2>1. CASE tx.todo = {s}
    <3>1. tx' = Idle
      BY <1>2, <2>1
    <3>. QED BY <3>1, IdleOver
  <2>2. CASE tx.todo # {s}
    <3>1. tx' = [tx EXCEPT !.todo = tx.todo \ {s}]
      BY <1>2, <2>2
    <3>2. /\ tx' \in Transaction /\ tx'.pc = "settle" /\ tx'.want = tx.want /\ tx'.kind = tx.kind
          /\ tx'.attempted = tx.attempted /\ tx'.todo = tx.todo \ {s}
      BY <1>1, <3>1 DEF PresetTypeOK, Transaction
    <3>3. Named' = {} /\ Named = {}
      BY <1>1, <3>2 DEF Named, TodoNamed
    <3>4. Over'
      BY <3>2, <3>3 DEF Over
    <3>5. Unwritten'
      BY <1>1, <3>2, <3>3 DEF Unwritten
    <3>. QED
      BY <3>2, <3>4, <3>5, OverKeeps
  <2>. QED BY <2>1, <2>2
<1>6. CASE UNCHANGED ledger
  <2>1. PresetTypeOK' /\ OneOpenWrite' /\ SeenHeld'
    BY <1>1, <1>5, <1>6 DEF PresetTypeOK, OneOpenWrite, Settled, SeenHeld
  <2>. QED BY <1>5, <2>1
<1>7. CASE ledger' = [ledger EXCEPT ![s].state = IF NeverLeft(s) THEN "FAILED" ELSE "RECONCILE",
                                    ![s].diverged = ~NeverLeft(s)]
  <2> DEFINE state == IF NeverLeft(s) THEN "FAILED" ELSE "RECONCILE"
             d == ~NeverLeft(s)
  <2>1. ledger' = [ledger EXCEPT ![s] = [ledger[s] EXCEPT !.state = state, !.diverged = d]]
    BY <1>3, <1>7 DEF PresetTypeOK, Mutation
  <2>2. state \in States /\ d \in BOOLEAN
    BY DEF States, ActiveStates, NeverLeft
  <2>3. state \in {"FAILED", "RECONCILE"} /\ (~d => NeverLeft(s))
    OBVIOUS
  <2>. HIDE DEF state, d
  <2>4. /\ ledger' \in [Slots -> Mutation]
        /\ ledger'[s].state = state /\ ledger'[s].diverged = d
        /\ ledger'[s].start = ledger[s].start
        /\ \A t \in Slots \ {s} : ledger'[t] = ledger[t]
    BY <1>3, <2>1, <2>2, MovedLedger
  <2>5. posts[s] = 1 => ~NeverLeft(s)
    BY <1>3 DEF NeverLeft, OneOpenWrite, Unwritten, SeenHeld
  <2>6. OneOpenWrite'
    <3> SUFFICES ASSUME NEW t \in Slots
                 PROVE posts[t] <= 1 /\ (posts[t] = 1 => ~Settled(ledger'[t]) /\ ledger'[t].start # NoStart)
      BY <1>1 DEF OneOpenWrite, Settled
    <3>1. CASE t = s
      BY <2>3, <2>4, <2>5, <3>1 DEF OneOpenWrite, Settled
    <3>2. CASE t # s
      BY <2>4, <3>2 DEF OneOpenWrite
    <3>. QED BY <3>1, <3>2
  <2>7. PresetTypeOK' /\ SeenHeld'
    BY <1>1, <1>3, <1>5, <2>3, <2>4 DEF PresetTypeOK, SeenHeld
  <2>. QED BY <1>5, <2>6, <2>7
<1>. QED
  BY <1>2, <1>6, <1>7

\* Only the radio, and the mark of an outside change, are different.
LEMMA OutsideInv == ASSUME PresetInv, OutsideChange PROVE PresetInv'
<1> USE DEF PresetInv
<1>1. PICK s \in Slots, c \in {Empty} \cup {[sel |-> v, art |-> FALSE] : v \in Selections} : RadioSets(s, c)
  BY DEF OutsideChange
<1>2. /\ UNCHANGED <<rows, ledger, callback, begun, posts>> /\ outside' = outside + 1
      /\ tx' = [tx EXCEPT !.dirty = (tx.kind = "artwork")]
  BY DEF OutsideChange
<1>3. c \in Content
  <2>1. ASSUME NEW v \in Selections PROVE [sel |-> v, art |-> FALSE] \in [sel : Selections, art : BOOLEAN]
    OBVIOUS
  <2>. QED BY <1>1, <2>1 DEF Content, Item
<1>4. /\ radio' \in [Slots -> Content] /\ held' \in [Slots -> SUBSET Content] /\ inbox' \in SUBSET Message
      /\ \A t \in Slots : ledger[t].start # NoStart => radio'[t] \in held'[t] /\ held[t] \subseteq held'[t]
  BY <1>1, <1>3, RadioSetsKeeps
<1>5. /\ tx' \in Transaction /\ tx'.kind = tx.kind /\ tx'.want = tx.want /\ tx'.todo = tx.todo
      /\ tx'.pc = tx.pc /\ tx'.attempted = tx.attempted /\ tx'.before = tx.before /\ tx'.seen = tx.seen
      /\ (tx.kind = "artwork" => tx'.dirty)
  BY <1>2 DEF PresetTypeOK, Transaction
<1>6. Named' = Named /\ Owned' = Owned /\ Named \subseteq Slots
  BY <1>5 DEF Named, Owned
<1>7. PresetTypeOK'
  BY <1>2, <1>4, <1>5 DEF PresetTypeOK
<1>8. TodoNamed' /\ Unwritten' /\ ArtworkPlanned'
  BY <1>2, <1>5, <1>6 DEF TodoNamed, Unwritten, ArtworkPlanned
<1>9. OwnMutations'
  BY <1>2, <1>5, <1>6 DEF OwnMutations
<1>10. OneOpenWrite'
  BY <1>2 DEF OneOpenWrite, Settled
<1>11. SeenHeld'
  <2>1. \A t \in Slots : ledger'[t].start # NoStart =>
          radio'[t] \in held'[t] /\ ledger'[t].state # "PREPARED"
    BY <1>2, <1>4 DEF SeenHeld
  <2>2. tx'.pc \in {"verify", "commit"} =>
          \A t \in Named' : tx'.seen[t] = tx'.want[t] /\ tx'.seen[t] \in held'[t]
    BY <1>4, <1>5, <1>6 DEF SeenHeld, OwnMutations
  <2>. QED BY <2>1, <2>2 DEF SeenHeld
<1>. QED
  BY <1>7, <1>8, <1>9, <1>10, <1>11

\* The source of a clone is no slot of this radio.
LEMMA SourceInv == ASSUME PresetInv, SourceChanges PROVE PresetInv'
<1> USE DEF PresetInv
<1>1. /\ UNCHANGED <<radio, rows, ledger, inbox, callback, begun, outside, held, posts>>
      /\ tx' = [tx EXCEPT !.intact = FALSE]
  BY DEF SourceChanges, radioVars, ghosts
<1>2. /\ tx' \in Transaction /\ tx'.kind = tx.kind /\ tx'.want = tx.want /\ tx'.todo = tx.todo
      /\ tx'.pc = tx.pc /\ tx'.attempted = tx.attempted /\ tx'.before = tx.before /\ tx'.seen = tx.seen
      /\ tx'.dirty = tx.dirty
  BY <1>1 DEF PresetTypeOK, Transaction
<1>3. Named' = Named /\ Owned' = Owned
  BY <1>2 DEF Named, Owned
<1>4. PresetTypeOK' /\ OneOpenWrite' /\ SeenHeld'
  BY <1>1, <1>2, <1>3 DEF PresetTypeOK, OneOpenWrite, Settled, SeenHeld
<1>5. TodoNamed' /\ Unwritten' /\ ArtworkPlanned'
  BY <1>1, <1>2, <1>3 DEF TodoNamed, Unwritten, ArtworkPlanned
<1>6. OwnMutations'
  BY <1>1, <1>2, <1>3 DEF OwnMutations
<1>. QED
  BY <1>4, <1>5, <1>6

\* A callback changes rows, and no mutation and no transaction.
LEMMA CallbackInv == ASSUME PresetInv, CallbackLooks \/ CallbackCommits PROVE PresetInv'
<1> USE DEF PresetInv
<1>1. UNCHANGED <<radio, ledger, tx, begun, outside, held, posts>>
  BY DEF CallbackLooks, CallbackCommits, radioVars, ghosts
<1>2. /\ rows' \in [Slots -> Content] /\ inbox' \in SUBSET Message
      /\ callback' # NoCallback => callback'.slot \in Slots /\ callback'.content \in Content
  <2>1. CASE CallbackLooks
    <3>1. PICK m \in inbox : \E active \in BOOLEAN :
            /\ callback' = [op |-> m.op, slot |-> m.slot, content |-> m.content, active |-> active]
            /\ inbox' = inbox \ {m}
      BY <2>1 DEF CallbackLooks
    <3>. QED BY <2>1, <3>1 DEF CallbackLooks, PresetTypeOK, Message
  <2>2. CASE CallbackCommits
    BY <2>2 DEF CallbackCommits, PresetTypeOK
  <2>. QED BY <2>1, <2>2
<1>3. Named' = Named /\ Owned' = Owned
  BY <1>1 DEF Named, Owned
<1>4. PresetTypeOK'
  BY <1>1, <1>2 DEF PresetTypeOK
<1>5. TodoNamed' /\ Unwritten' /\ ArtworkPlanned'
  BY <1>1, <1>3 DEF TodoNamed, Unwritten, ArtworkPlanned
<1>6. OwnMutations'
  BY <1>1, <1>3 DEF OwnMutations
<1>7. OneOpenWrite' /\ SeenHeld'
  BY <1>1, <1>3 DEF OneOpenWrite, Settled, SeenHeld
<1>. QED
  BY <1>4, <1>5, <1>6, <1>7

-----------------------------------------------------------------------------
(***************************************************************************)
(* The theorems                                                            *)
(***************************************************************************)

\* No transaction is open at first.
LEMMA PresetInitInv == Init => PresetInv
<1> SUFFICES ASSUME Init PROVE PresetInv
  OBVIOUS
<1>1. PICK v \in Selections, filled \in SUBSET Slots :
        radio = [s \in Slots |-> IF s \in filled THEN [sel |-> v, art |-> FALSE] ELSE Empty]
  BY DEF Init
<1>2. [sel |-> v, art |-> FALSE] \in Item /\ Empty \in Content /\ Item \subseteq Content
  BY DEF Item, Content
<1>3. radio \in [Slots -> Content]
  BY <1>1, <1>2
<1>4. NoMutation \in Mutation /\ NoMutation.start = NoStart
  BY <1>2, NoStartNames DEF NoMutation, Mutation, States, ActiveStates
<1>5. tx \in Transaction /\ tx.pc = "idle" /\ tx.todo = {} /\ tx.kind = "none" /\ tx.want = NoStart
  BY NoStartNames DEF Init, Idle, Transaction, Places
<1>6. Named = {} /\ Owned = {}
  BY <1>5, NoStartNames DEF Named, Owned
<1>7. PresetTypeOK
  BY <1>3, <1>4, <1>5 DEF Init, PresetTypeOK
<1>. QED
  BY <1>4, <1>5, <1>6, <1>7
  DEF Init, PresetInv, TodoNamed, OwnMutations, Unwritten, OneOpenWrite, SeenHeld, ArtworkPlanned

\* Every step keeps the invariant.
LEMMA PresetNextInv == PresetInv /\ [Next]_presetVars => PresetInv'
<1> SUFFICES ASSUME PresetInv, [Next]_presetVars PROVE PresetInv'
  OBVIOUS
<1>1. CASE Noop \/ TxFails \/ Crash
  BY <1>1, FailedInv DEF Noop, TxFails, Crash, radioVars, ghosts
<1>2. CASE UNCHANGED presetVars
  <2>1. UNCHANGED <<radio, rows, ledger, tx, inbox, callback, begun, outside, held, posts>>
    BY <1>2 DEF presetVars
  <2>2. Named' = Named /\ Owned' = Owned
    BY <2>1 DEF Named, Owned
  <2>. QED
    BY <2>1, <2>2 DEF PresetInv, PresetTypeOK, TodoNamed, OwnMutations, Unwritten, OneOpenWrite, Settled,
       SeenHeld, ArtworkPlanned
<1>. QED
  BY <1>1, <1>2, BeginInv, PlanInv, ObserveInv, PrepareInv, StartInv, ArmInv, ConfirmInv, PostInv,
     MarkInv, ReadBackInv, VerifyInv, CommitInv, DownloadInv, SettleInv, SourceInv, OutsideInv, CallbackInv
  DEF Next

\* OneOpenWrite: across failures, crashes and later transactions a slot is written
\* at most once before its write is committed locally, and is never recorded as
\* untouched meanwhile.
THEOREM OneOpenWriteHolds == Spec => []OneOpenWrite
<1>1. PresetInv => OneOpenWrite
  BY DEF PresetInv
<1>. QED
  BY PresetInitInv, PresetNextInv, <1>1, PTL DEF Spec

\* A commit comes from Commit, for the slots of the transaction, or from Download.
LEMMA CommitsFrom ==
  ASSUME PresetInv, [Next]_presetVars, NEW s \in Slots, Commits(s)
  PROVE  \/ Commit /\ Check /\ s \in Named
         \/ Download /\ Confirmed(s)
<1> USE DEF PresetInv
<1>1. ledger' # ledger /\ ledger'[s].state = "LOCAL_COMMIT" /\ ledger[s].state # "LOCAL_COMMIT"
  BY DEF Commits
<1>2. CASE Prepare
  <2>1. PICK t \in tx.todo : ledger' = [ledger EXCEPT ![t] =
          [NoMutation EXCEPT !.state = "PREPARED", !.want = tx.want[t], !.previous = rows[t],
                             !.op = IF tx.kind = "delete" THEN "DELETE" ELSE "WRITE"]]
    BY <1>1, <1>2 DEF Prepare
  <2>. QED
    BY <1>1, <2>1 DEF PresetTypeOK, NoMutation
<1>3. CASE Arm
  <2>1. PICK t \in tx.todo : ledger' = [ledger EXCEPT ![t].state = "RADIO_WRITE", ![t].start = tx.before]
    BY <1>3 DEF Arm
  <2>. QED
    BY <1>1, <2>1 DEF PresetTypeOK, Mutation
<1>4. CASE Mark
  BY <1>1, <1>4 DEF Mark, Move, PresetTypeOK, Mutation
<1>5. CASE Verify
  <2>1. PICK t \in tx.todo : ledger' = [ledger EXCEPT ![t].state = "VERIFIED", ![t].diverged = FALSE]
    BY <1>1, <1>5 DEF Verify
  <2>. QED
    BY <1>1, <2>1 DEF PresetTypeOK, Mutation
<1>6. CASE Settle
  <2>1. PICK t \in tx.todo : \E x \in {"FAILED", "RECONCILE"}, d \in BOOLEAN :
          ledger' = [ledger EXCEPT ![t].state = x, ![t].diverged = d]
    BY <1>1, <1>6 DEF Settle, NeverLeft
  <2>. QED
    BY <1>1, <2>1 DEF PresetTypeOK, Mutation
<1>7. CASE Commit
  <2>1. Check /\ Committed(Named)
    BY <1>1, <1>7 DEF Commit
  <2>. QED
    BY <1>1, <1>7, <2>1 DEF Committed
<1>8. CASE Download
  <2> DEFINE open == {t \in Slots : ledger[t].state \notin {"NONE", "LOCAL_COMMIT"}}
             closed == {t \in open : Confirmed(t)}
  <2>1. Committed(closed)
    BY <1>1, <1>8 DEF Download
  <2>2. s \in closed
    BY <1>1, <2>1 DEF Committed
  <2>. QED
    BY <1>8, <2>2
<1>. QED
  BY <1>1, <1>2, <1>3, <1>4, <1>5, <1>6, <1>7, <1>8
  DEF Next, Begin, BeginWith, Plan, Noop, Observe, Start, Confirm, Post, ReadBack, TxFails, SourceChanges,
      Crash, OutsideChange, CallbackLooks, CallbackCommits, presetVars

\* CommitSeen: whatever is committed locally, the radio held it after the START of
\* its mutation.
THEOREM CommitSeenHolds == Spec => CommitSeen
<1>1. PresetInv /\ [Next]_presetVars => [\A s \in Slots : Commits(s) => ledger[s].want \in held[s]]_presetVars
  <2> SUFFICES ASSUME PresetInv, [Next]_presetVars, NEW s \in Slots, Commits(s) PROVE ledger[s].want \in held[s]
    OBVIOUS
  <2>1. CASE Commit /\ Check /\ s \in Named
    <3>1. tx.pc = "commit" /\ s \in Owned
      BY <2>1 DEF Commit, Owned
    <3>. QED
      BY <2>1, <3>1 DEF PresetInv, SeenHeld, OwnMutations
  <2>2. CASE Download /\ Confirmed(s)
    BY <2>2 DEF Confirmed, PresetInv, SeenHeld
  <2>. QED
    BY <2>1, <2>2, CommitsFrom
<1>. QED
  BY PresetInitInv, PresetNextInv, <1>1, PTL DEF Spec, CommitSeen

\* CommitFromKnown: no commit replaces a row that its mutation or its transaction
\* did not know.
THEOREM CommitFromKnownHolds == Spec => CommitFromKnown
<1>1. PresetInv /\ [Next]_presetVars =>
        [\A s \in Slots : Commits(s) => rows[s] \in {ledger[s].previous, tx.rows[s]}]_presetVars
  <2> SUFFICES ASSUME PresetInv, [Next]_presetVars, NEW s \in Slots, Commits(s)
               PROVE rows[s] \in {ledger[s].previous, tx.rows[s]}
    OBVIOUS
  <2>. QED
    BY CommitsFrom DEF Check, LocalKnown, Confirmed
<1>. QED
  BY PresetInitInv, PresetNextInv, <1>1, PTL DEF Spec, CommitFromKnown

\* ArtworkOnly: an artwork write keeps what the slot selects, unless somebody
\* changed the radio after the last read before the write.
THEOREM ArtworkOnlyHolds == Spec => ArtworkOnly
<1>1. PresetInv /\ [Next]_presetVars =>
        [\A s \in Slots : tx.kind = "artwork" /\ posts'[s] > posts[s] /\ ~tx.dirty
           => radio[s] # Empty /\ tx.want[s].sel = radio[s].sel]_presetVars
  <2> SUFFICES ASSUME PresetInv, [Next]_presetVars, NEW s \in Slots, tx.kind = "artwork", posts'[s] > posts[s], ~tx.dirty
               PROVE radio[s] # Empty /\ tx.want[s].sel = radio[s].sel
    OBVIOUS
  <2>1. posts' # posts /\ posts \in [Slots -> {0, 1}]
    BY DEF PresetInv, PresetTypeOK
  <2>2. CASE Post
    <3>1. PICK t \in tx.todo : Send(t)
      BY <2>1, <2>2 DEF Post, ghosts
    <3>2. s = t
      BY <2>1, <3>1 DEF Send
    <3>. QED
      BY <2>2, <3>2 DEF Post, PresetInv, ArtworkPlanned, TodoNamed
  <2>3. CASE Commit \/ Download
    <3>1. PICK S : Closed(S)
      BY <2>1, <2>3 DEF Commit, Download, ghosts
    <3>. QED
      BY <2>1, <3>1 DEF Closed
  <2>. QED
    BY <2>1, <2>2, <2>3
    DEF Next, Begin, BeginWith, Plan, Noop, Observe, Prepare, Start, Arm, Confirm, Mark, ReadBack, Verify,
        TxFails, Settle, SourceChanges, Crash, OutsideChange, CallbackLooks, CallbackCommits, presetVars, ghosts
<1>. QED
  BY PresetInitInv, PresetNextInv, <1>1, PTL DEF Spec, ArtworkOnly

=============================================================================
