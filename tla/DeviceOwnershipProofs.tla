----------------------- MODULE DeviceOwnershipProofs -----------------------
(***************************************************************************)
(* Theorems about DeviceOwnership, for any number of workers, tasks and    *)
(* radios and any number of lock-file replacements, and about ZoneJobs,    *)
(* whose jobs hold several radios at once, for any number of radios, jobs, *)
(* readback rounds and outside changes.                                    *)
(***************************************************************************)
EXTENDS DeviceOwnership, ZoneJobs, FiniteSetTheorems, WellFoundedInduction, TLAPS

\* flock(): one open file at a time holds the lock of an inode.
FlockUnique ==
  \A r, q \in flocks : r.dev = q.dev /\ r.ino = q.ino => r = q

\* The path never leads back to a file that was replaced.
FlockKnown == \A r \in flocks : r.ino <= inode[r.dev]

\* An owned lock object has its descriptor in the kernel table.
SlotBacked ==
  \A w \in Workers, d \in Devices :
    slot[w][d].ino # 0 =>
      /\ WorkerOf[slot[w][d].owner] = w
      /\ [dev |-> d, ino |-> slot[w][d].ino, task |-> slot[w][d].owner] \in flocks

\* The inductive invariant: the lock objects are only as good as the kernel
\* table behind them, so OneOwner needs SlotBacked and FlockUnique beside it.
OwnershipInv == TypeOK /\ FlockUnique /\ FlockKnown /\ SlotBacked

\* The context a body sets is a value of the context variable.
LEMMA ActiveInBodyType ==
  ASSUME TypeOK, NEW t \in Tasks, NEW f \in Frame
  PROVE  ActiveInBody(t, f) \in Active
BY DEF ActiveInBody, TypeOK, Active, Frame

\* A task with a scope has an innermost one.
LEMMA TopType ==
  ASSUME TypeOK, NEW t \in Tasks, stack[t] # <<>>
  PROVE  /\ Len(stack[t]) \in Nat \ {0}
         /\ Top(t) \in Frame
<1>1. stack[t] \in Seq(Frame)
  BY DEF TypeOK
<1>2. QED
  BY <1>1 DEF Top

\* release() of the targets of the innermost scope keeps the invariant: an
\* owner whose record goes is an owner whose lock object is cleared.
LEMMA PopScopeInv ==
  ASSUME OwnershipInv, NEW t \in Tasks, stack[t] # <<>>, PopScope(t)
  PROVE  OwnershipInv'
<1> DEFINE w == WorkerOf[t]
           rel == Released(t)
<1> USE DEF OwnershipInv
<1>1. w \in Workers /\ Top(t) \in Frame /\ Len(stack[t]) \in Nat \ {0}
  BY OwnershipAssumption, TopType
<1>2. rel \subseteq Devices
  BY <1>1 DEF Released, Frame
<1>3. flocks' \subseteq flocks /\ inode' = inode
  BY DEF PopScope
<1>4. slot' = [slot EXCEPT ![w] = [d \in Devices |->
                 IF d \in rel THEN FreeSlot ELSE slot[w][d]]]
  BY DEF PopScope, Cleared
<1>5. slot' \in [Workers -> [Devices -> Slot]]
  <2>1. FreeSlot \in Slot
    BY OwnershipAssumption DEF FreeSlot, Slot
  <2>2. QED
    BY <1>1, <1>4, <2>1 DEF TypeOK
<1>6. \A v \in Workers, d \in Devices :
        slot'[v][d] = IF v = w /\ d \in rel THEN FreeSlot ELSE slot[v][d]
  BY <1>1, <1>4 DEF TypeOK
<1>7. TypeOK'
  <2>1. RestoredContext(t) \in Active
    BY <1>1 DEF RestoredContext, Frame, TypeOK
  <2>2. active' \in [Tasks -> Active]
    BY <2>1 DEF PopScope, TypeOK
  <2>3. SubSeq(stack[t], 1, Len(stack[t]) - 1) \in Seq(Frame)
    BY <1>1 DEF TypeOK
  <2>4. stack' \in [Tasks -> Seq(Frame)]
    BY <2>3 DEF PopScope, TypeOK
  <2>5. fd' \in [Tasks -> 0 .. MaxInode]
    BY OwnershipAssumption DEF PopScope, TypeOK
  <2>6. \A v \in Workers, d \in Devices :
          slot'[v][d].ino = 0 <=> slot'[v][d].owner = NoTask
    BY <1>6 DEF TypeOK, FreeSlot
  <2>7. QED
    BY <1>3, <1>5, <2>2, <2>4, <2>5, <2>6 DEF TypeOK
<1>8. FlockUnique' /\ FlockKnown'
  BY <1>3 DEF FlockUnique, FlockKnown
<1>9. SlotBacked'
  <2> SUFFICES ASSUME NEW v \in Workers, NEW d \in Devices, slot'[v][d].ino # 0
               PROVE  /\ WorkerOf[slot'[v][d].owner] = v
                      /\ [dev |-> d, ino |-> slot'[v][d].ino,
                          task |-> slot'[v][d].owner] \in flocks'
    BY DEF SlotBacked
  <2>1. ~(v = w /\ d \in rel) /\ slot'[v][d] = slot[v][d]
    BY <1>6 DEF FreeSlot
  <2>2. /\ WorkerOf[slot[v][d].owner] = v
        /\ [dev |-> d, ino |-> slot[v][d].ino, task |-> slot[v][d].owner] \in flocks
    BY <2>1 DEF SlotBacked
  <2>3. ~(slot[v][d].owner = t /\ d \in rel)
    BY <2>1, <2>2
  <2>4. flocks' = {r \in flocks : ~(r.task = t /\ r.dev \in rel
                                    /\ r.ino = slot[w][r.dev].ino)}
    BY DEF PopScope
  <2>5. QED
    BY <2>1, <2>2, <2>3, <2>4
<1>10. QED
  BY <1>7, <1>8, <1>9

\* Entering a scope and opening a lock file change no owner.
LEMMA EnterTransactionInv ==
  ASSUME OwnershipInv, NEW t \in Tasks, NEW ids \in SUBSET Devices,
         EnterTransaction(t, ids)
  PROVE  OwnershipInv'
<1> USE DEF OwnershipInv
<1> DEFINE borrowed == {d \in ids : OwnedByCurrentTask(t, d)}
           f == [kind |-> "txn", ids |-> ids, need |-> ids \ borrowed, got |-> {},
                 prev |-> active[t], body |-> borrowed = ids]
<1>1. f \in Frame
  BY DEF TypeOK, Frame
<1>2. active' \in [Tasks -> Active]
  BY <1>1, ActiveInBodyType DEF EnterTransaction, TypeOK
<1>3. stack' \in [Tasks -> Seq(Frame)]
  BY <1>1 DEF EnterTransaction, Push, TypeOK
<1>4. UNCHANGED <<inode, flocks, slot, fd>>
  BY DEF EnterTransaction
<1>5. QED
  BY <1>2, <1>3, <1>4 DEF TypeOK, FlockUnique, FlockKnown, SlotBacked

\* acquire() outside any transaction starts a scope of its own.
LEMMA EnterRawInv ==
  ASSUME OwnershipInv, NEW t \in Tasks, NEW ids \in SUBSET Devices, EnterRaw(t, ids)
  PROVE  OwnershipInv'
<1> USE DEF OwnershipInv
<1> DEFINE f == [kind |-> "raw", ids |-> ids, need |-> ids, got |-> {},
                 prev |-> NoActive, body |-> FALSE]
<1>1. f \in Frame
  BY DEF Frame, NoActive, Active
<1>2. stack' \in [Tasks -> Seq(Frame)]
  BY <1>1 DEF EnterRaw, Push, TypeOK
<1>3. UNCHANGED <<inode, flocks, slot, fd, active>>
  BY DEF EnterRaw
<1>4. QED
  BY <1>2, <1>3 DEF TypeOK, FlockUnique, FlockKnown, SlotBacked

\* acquire() adds a record where the kernel table had none for that file.
LEMMA TryLockInv ==
  ASSUME OwnershipInv, NEW t \in Tasks, NEW d \in Devices, TryLock(t, d)
  PROVE  OwnershipInv'
<1> USE DEF OwnershipInv
<1> DEFINE w == WorkerOf[t]
           new == [dev |-> d, ino |-> fd[t], task |-> t]
           own == [ino |-> fd[t], owner |-> t]
           f == [Top(t) EXCEPT !.need = @ \ {d}, !.got = @ \cup {d},
                   !.body = (Top(t).need = {d})]
<1>1. w \in Workers /\ t # NoTask
  BY OwnershipAssumption
<1>2. fd[t] \in Inodes /\ fd[t] = inode[d] /\ fd[t] # 0
  BY DEF TryLock, SameNamespace, TypeOK, Inodes
<1>3. new \in Flock /\ own \in Slot
  BY <1>2 DEF Flock, Slot, Inodes
<1>4. Top(t) \in Frame /\ Len(stack[t]) \in Nat \ {0}
  BY TopType DEF TryLock, Acquiring
<1>5. f \in Frame
  BY <1>4 DEF Frame
<1>6. flocks' = flocks \cup {new} /\ inode' = inode
  BY DEF TryLock
<1>7. slot' = [slot EXCEPT ![w][d] = own]
  BY DEF TryLock
<1>8. \A v \in Workers, e \in Devices :
        slot'[v][e] = IF v = w /\ e = d THEN own ELSE slot[v][e]
  BY <1>1, <1>7 DEF TypeOK
<1>9. TypeOK'
  <2>1. slot' \in [Workers -> [Devices -> Slot]]
    BY <1>1, <1>3, <1>7 DEF TypeOK
  <2>2. active' \in [Tasks -> Active]
    BY <1>5, ActiveInBodyType DEF TryLock, TypeOK
  <2>3. stack' \in [Tasks -> Seq(Frame)]
    BY <1>4, <1>5 DEF TryLock, ReplaceTop, TypeOK
  <2>4. fd' \in [Tasks -> 0 .. MaxInode]
    BY OwnershipAssumption DEF TryLock, TypeOK
  <2>5. \A v \in Workers, e \in Devices :
          slot'[v][e].ino = 0 <=> slot'[v][e].owner = NoTask
    <3>1. own.ino # 0 /\ own.owner # NoTask
      BY <1>1, <1>2
    <3>2. \A v \in Workers, e \in Devices :
            slot[v][e].ino = 0 <=> slot[v][e].owner = NoTask
      BY DEF TypeOK
    <3> HIDE DEF own
    <3>. QED BY <1>8, <3>1, <3>2
  <2>6. QED
    BY <1>3, <1>6, <2>1, <2>2, <2>3, <2>4, <2>5 DEF TypeOK
<1>10. FlockUnique'
  <2>1. \A r \in flocks : ~(r.dev = new.dev /\ r.ino = new.ino)
    BY DEF TryLock, FlockHeld
  <2>2. QED
    BY <1>6, <2>1 DEF FlockUnique
<1>11. FlockKnown'
  BY <1>2, <1>6 DEF FlockKnown, TypeOK, Inodes
<1>12. SlotBacked'
  BY <1>1, <1>6, <1>8 DEF SlotBacked
<1>13. QED
  BY <1>9, <1>10, <1>11, <1>12

\* A dying worker loses its lock objects together with their descriptors.
LEMMA CrashInv ==
  ASSUME OwnershipInv, NEW w \in Workers, Crash(w)
  PROVE  OwnershipInv'
<1> USE DEF OwnershipInv
<1>1. FreeSlot \in Slot /\ NoActive \in Active
  BY OwnershipAssumption DEF FreeSlot, Slot, NoActive, Active
<1>2. slot' = [slot EXCEPT ![w] = [d \in Devices |-> FreeSlot]]
  BY DEF Crash
<1>3. \A v \in Workers, d \in Devices :
        slot'[v][d] = IF v = w THEN FreeSlot ELSE slot[v][d]
  BY <1>2 DEF TypeOK
<1>4. TypeOK'
  <2>1. slot' \in [Workers -> [Devices -> Slot]]
    BY <1>1, <1>2 DEF TypeOK
  <2>2. flocks' \in SUBSET Flock /\ inode' = inode
    BY DEF Crash, TypeOK
  <2>3. active' \in [Tasks -> Active]
    BY <1>1 DEF Crash, TypeOK
  <2>4. stack' \in [Tasks -> Seq(Frame)]
    BY DEF Crash, TypeOK
  <2>5. fd' \in [Tasks -> 0 .. MaxInode]
    BY OwnershipAssumption DEF Crash, TypeOK
  <2>6. \A v \in Workers, d \in Devices :
          slot'[v][d].ino = 0 <=> slot'[v][d].owner = NoTask
    BY <1>3 DEF TypeOK, FreeSlot
  <2>7. QED
    BY <2>1, <2>2, <2>3, <2>4, <2>5, <2>6 DEF TypeOK
<1>5. FlockUnique' /\ FlockKnown'
  BY DEF Crash, FlockUnique, FlockKnown
<1>6. SlotBacked'
  BY <1>3 DEF Crash, SlotBacked, FreeSlot
<1>7. QED
  BY <1>4, <1>5, <1>6

\* Every step of the workers, the file system and the tasks keeps the invariant.
LEMMA OwnershipStep ==
  ASSUME OwnershipInv, [Next]_vars
  PROVE  OwnershipInv'
<1> USE DEF OwnershipInv
<1>1. ASSUME NEW t \in Tasks, NEW ids \in SUBSET Devices, EnterTransaction(t, ids)
      PROVE  OwnershipInv'
  BY <1>1, EnterTransactionInv
<1>2. ASSUME NEW t \in Tasks, NEW ids \in SUBSET Devices, EnterRaw(t, ids)
      PROVE  OwnershipInv'
  BY <1>2, EnterRawInv
<1>3. ASSUME NEW t \in Tasks, NEW d \in Devices, OpenLock(t, d)
      PROVE  OwnershipInv'
  BY <1>3, OwnershipAssumption
     DEF OpenLock, TypeOK, Inodes, FlockUnique, FlockKnown, SlotBacked
<1>4. ASSUME NEW t \in Tasks, NEW d \in Devices, TryLock(t, d)
      PROVE  OwnershipInv'
  BY <1>4, TryLockInv
<1>5. ASSUME NEW t \in Tasks, NEW d \in Devices, GiveUp(t, d) \/ Unavailable(t, d)
      PROVE  OwnershipInv'
  BY <1>5, PopScopeInv DEF GiveUp, Unavailable, Acquiring
<1>6. ASSUME NEW t \in Tasks, Leave(t)
      PROVE  OwnershipInv'
  BY <1>6, PopScopeInv DEF Leave
<1>7. ASSUME NEW t \in Tasks, NEW u \in Tasks, Spawn(t, u)
      PROVE  OwnershipInv'
  BY <1>7 DEF Spawn, TypeOK, FlockUnique, FlockKnown, SlotBacked
<1>8. ASSUME NEW w \in Workers, Crash(w)
      PROVE  OwnershipInv'
  BY <1>8, CrashInv
<1>9. ASSUME NEW d \in Devices, ReplaceFile(d)
      PROVE  OwnershipInv'
  <2>1. inode' \in [Devices -> Inodes] /\ \A e \in Devices : inode[e] <= inode'[e]
    BY <1>9, OwnershipAssumption DEF ReplaceFile, TypeOK, Inodes
  <2>2. UNCHANGED <<flocks, slot, fd, active, stack>>
    BY <1>9 DEF ReplaceFile
  <2>3. FlockKnown'
    BY <2>1, <2>2, OwnershipAssumption DEF FlockKnown, TypeOK, Inodes, Flock
  <2>4. QED
    BY <2>1, <2>2, <2>3 DEF TypeOK, FlockUnique, SlotBacked
<1>10. CASE UNCHANGED vars
  BY <1>10 DEF vars, TypeOK, FlockUnique, FlockKnown, SlotBacked
<1>11. QED
  BY <1>1, <1>2, <1>3, <1>4, <1>5, <1>6, <1>7, <1>8, <1>9, <1>10
     DEF Next, AcquireStep

\* The lock objects, the kernel table and the scopes always agree as acquire(),
\* release() and a dying process keep them.
THEOREM OwnershipInvariant == Spec => []OwnershipInv
<1>1. Init => OwnershipInv
  <2> SUFFICES ASSUME Init PROVE OwnershipInv
    OBVIOUS
  <2>1. FreeSlot \in Slot /\ NoActive \in Active /\ 1 \in Inodes
    BY OwnershipAssumption DEF FreeSlot, Slot, NoActive, Active, Inodes
  <2>2. <<>> \in Seq(Frame) /\ 0 \in 0 .. MaxInode
    BY OwnershipAssumption
  <2>3. TypeOK
    BY <2>1, <2>2 DEF Init, TypeOK, FreeSlot
  <2>4. QED
    BY <2>3 DEF Init, OwnershipInv, FlockUnique, FlockKnown, SlotBacked, FreeSlot
<1>2. OwnershipInv /\ [Next]_vars => OwnershipInv'
  BY OwnershipStep
<1>3. QED
  BY <1>1, <1>2, PTL DEF Spec

\* TypeOK holds of every reachable state of device_ownership.py.
THEOREM OwnershipTypeCorrect == Spec => []TypeOK
<1>1. OwnershipInv => TypeOK
  BY DEF OwnershipInv
<1>2. QED
  BY <1>1, OwnershipInvariant, PTL

\* acquire(): however many workers, tasks, crashes and replacements, two lock
\* objects never own a radio through the same lock file.
THEOREM OwnershipOneOwner == Spec => []OneOwner
<1>1. OwnershipInv => OneOwner
  <2> SUFFICES ASSUME OwnershipInv, NEW t \in Tasks, NEW u \in Tasks, NEW d \in Devices,
                      OwnedByCurrentTask(t, d), OwnedByCurrentTask(u, d),
                      SlotOf(t, d).ino = SlotOf(u, d).ino
               PROVE  t = u
    BY DEF OneOwner
  <2>1. WorkerOf[t] \in Workers /\ WorkerOf[u] \in Workers
    BY OwnershipAssumption
  <2> DEFINE i == SlotOf(t, d).ino
  <2>2. /\ [dev |-> d, ino |-> i, task |-> t] \in flocks
        /\ [dev |-> d, ino |-> i, task |-> u] \in flocks
    BY <2>1 DEF OwnershipInv, SlotBacked, OwnedByCurrentTask, SlotOf
  <2>3. [dev |-> d, ino |-> i, task |-> t] = [dev |-> d, ino |-> i, task |-> u]
    BY <2>2 DEF OwnershipInv, FlockUnique
  <2>4. QED
    BY <2>3
<1>2. QED
  BY <1>1, OwnershipInvariant, PTL

\* acquire() with _same_namespace(): ownership is never granted on an older
\* lock file than one that is already held.
THEOREM OwnershipGrantNewest == Spec => GrantNewest
<1> DEFINE A == \A r \in flocks' \ flocks : \A q \in flocks :
                 q.dev = r.dev => q.ino < r.ino
<1>1. OwnershipInv /\ [Next]_vars => [A]_vars
  <2> SUFFICES ASSUME OwnershipInv, Next, NEW r \in flocks' \ flocks,
                      NEW q \in flocks, q.dev = r.dev
               PROVE  q.ino < r.ino
    OBVIOUS
  <2>1. PICK t \in Tasks, d \in Devices : TryLock(t, d)
    BY DEF Next, EnterTransaction, EnterRaw, AcquireStep, OpenLock, GiveUp,
           Unavailable, PopScope, Leave, Spawn, Crash, ReplaceFile
  <2>2. r = [dev |-> d, ino |-> inode[d], task |-> t] /\ ~FlockHeld(d, inode[d])
    BY <2>1 DEF TryLock, SameNamespace
  <2>3. q \in Flock /\ q.ino <= inode[d] /\ q.ino # inode[d]
    BY <2>2 DEF OwnershipInv, FlockKnown, FlockHeld, TypeOK
  <2>4. QED
    BY <2>2, <2>3, OwnershipAssumption DEF OwnershipInv, TypeOK, Flock, Inodes
<1>2. QED
  BY <1>1, OwnershipInvariant, PTL DEF Spec, GrantNewest

-----------------------------------------------------------------------------
(***************************************************************************)
(* Exclusive bodies                                                        *)
(***************************************************************************)

\* Scope k of task t.  Only the innermost scope can still be acquiring; until its
\* body it owns what it has and needs the rest.  A scope in its body owns all its
\* radios, and no inner scope has acquired, and so will release, one of them.
ScopeInv(t, k) ==
  LET f == stack[t][k]
  IN /\ k < Len(stack[t]) => f.body
     /\ ~f.body => f.ids \subseteq f.need \cup f.got
     /\ \A d \in Devices : inode[d] = 1 =>
          /\ ~f.body /\ d \in f.got => OwnedByCurrentTask(t, d)
          /\ f.body /\ d \in f.ids =>
               /\ OwnedByCurrentTask(t, d)
               /\ \A j \in DOMAIN stack[t] : j > k => d \notin stack[t][j].got

ScopesInv(t) == \A k \in DOMAIN stack[t] : ScopeInv(t, k)

BodiesInv == \A t \in Tasks : ScopesInv(t)

\* What a task owns through a file that was never replaced is locked by it.
LEMMA OwnedLocked ==
  ASSUME OwnershipInv, NEW t \in Tasks, NEW d \in Devices, OwnedByCurrentTask(t, d),
         inode[d] = 1
  PROVE  [dev |-> d, ino |-> 1, task |-> t] \in flocks
<1>1. WorkerOf[t] \in Workers
  BY OwnershipAssumption
<1>2. [dev |-> d, ino |-> SlotOf(t, d).ino, task |-> t] \in flocks
  BY <1>1 DEF OwnershipInv, SlotBacked, OwnedByCurrentTask, SlotOf
<1>3. SlotOf(t, d).ino <= 1 /\ SlotOf(t, d).ino \in Inodes
  BY <1>2 DEF OwnershipInv, FlockKnown, TypeOK, Flock
<1>4. SlotOf(t, d).ino = 1
  BY <1>3, OwnershipAssumption DEF Inodes
<1> QED BY <1>2, <1>4

\* A task whose scopes and lock objects are left alone keeps what it knows.
LEMMA ScopesKept ==
  ASSUME NEW u \in Tasks, ScopesInv(u), stack'[u] = stack[u],
         \A d \in Devices : inode'[d] = 1 =>
           inode[d] = 1 /\ (OwnedByCurrentTask(u, d) => OwnedByCurrentTask(u, d)')
  PROVE  ScopesInv(u)'
  BY DEF ScopesInv, ScopeInv

\* Releasing the innermost scope of t takes no lock of an outer scope and none of
\* another task.
LEMMA PopScopeBodies ==
  ASSUME OwnershipInv, BodiesInv, NEW t \in Tasks, stack[t] # <<>>, PopScope(t)
  PROVE  BodiesInv'
<1> DEFINE w == WorkerOf[t]
           n == Len(stack[t])
<1>1. w \in Workers /\ Top(t) \in Frame /\ n \in Nat \ {0} /\ stack[t] \in Seq(Frame)
  BY OwnershipAssumption, TopType DEF OwnershipInv, TypeOK
<1>2. Released(t) \subseteq Top(t).got /\ \A d \in Released(t) : OwnedByCurrentTask(t, d)
  BY <1>1, OwnershipAssumption DEF Released, Frame
<1>3. \A v \in Workers, d \in Devices :
        slot'[v][d] = IF v = w /\ d \in Released(t) THEN FreeSlot ELSE slot[v][d]
  BY <1>1 DEF PopScope, Cleared, OwnershipInv, TypeOK
<1>4. inode' = inode
  BY DEF PopScope
<1>5. ASSUME NEW u \in Tasks, u # t PROVE ScopesInv(u)'
  <2>1. stack'[u] = stack[u]
    BY <1>5 DEF PopScope, OwnershipInv, TypeOK
  <2>2. \A d \in Devices : OwnedByCurrentTask(u, d) => OwnedByCurrentTask(u, d)'
    <3> SUFFICES ASSUME NEW d \in Devices, OwnedByCurrentTask(u, d)
                 PROVE  slot'[WorkerOf[u]][d] = slot[WorkerOf[u]][d]
      BY DEF OwnedByCurrentTask, SlotOf
    <3>1. WorkerOf[u] \in Workers
      BY OwnershipAssumption
    <3>2. ~(WorkerOf[u] = w /\ d \in Released(t))
      BY <1>2, <1>5 DEF OwnedByCurrentTask, SlotOf
    <3> QED BY <1>3, <3>1, <3>2
  <2> QED BY <1>4, <2>1, <2>2, ScopesKept DEF BodiesInv
<1>6. ScopesInv(t)'
  <2>1. stack'[t] = SubSeq(stack[t], 1, n - 1)
    BY DEF PopScope, OwnershipInv, TypeOK
  <2>2. /\ Len(stack'[t]) = n - 1 /\ DOMAIN stack'[t] = 1 .. n - 1
        /\ \A k \in 1 .. n - 1 : stack'[t][k] = stack[t][k]
    BY <1>1, <2>1
  <2>3. ASSUME NEW k \in 1 .. n - 1 PROVE ScopeInv(t, k)'
    <3>1. k \in DOMAIN stack[t] /\ n \in DOMAIN stack[t] /\ k < n /\ ScopeInv(t, k)
      BY <1>1 DEF BodiesInv, ScopesInv
    <3>2. stack[t][k].body
      BY <3>1 DEF ScopeInv
    <3>3. ASSUME NEW d \in Devices, inode[d] = 1, d \in stack[t][k].ids
          PROVE  /\ OwnedByCurrentTask(t, d)'
                 /\ \A j \in 1 .. n - 1 : j > k => d \notin stack[t][j].got
      <4>1. /\ OwnedByCurrentTask(t, d)
            /\ \A j \in DOMAIN stack[t] : j > k => d \notin stack[t][j].got
        BY <3>1, <3>2, <3>3 DEF ScopeInv
      <4>2. d \notin Released(t)
        BY <1>2, <3>1, <4>1 DEF Top
      <4>3. slot'[w][d] = slot[w][d]
        BY <1>1, <1>3, <4>2
      <4>4. \A j \in 1 .. n - 1 : j \in DOMAIN stack[t]
        BY <1>1
      <4> QED BY <4>1, <4>3, <4>4 DEF OwnedByCurrentTask, SlotOf
    <3> QED BY <1>4, <2>2, <3>2, <3>3 DEF ScopeInv
  <2> QED BY <2>2, <2>3 DEF ScopesInv
<1> QED BY <1>5, <1>6 DEF BodiesInv

\* A new innermost scope that has acquired nothing leaves the outer ones alone,
\* if those are in their bodies.
LEMMA PushBodies ==
  ASSUME OwnershipInv, BodiesInv, NEW t \in Tasks, NEW f \in Frame, Push(t, f), Running(t),
         UNCHANGED <<inode, slot>>, f.got = {},
         ~f.body => f.ids \subseteq f.need,
         f.body => \A d \in f.ids : OwnedByCurrentTask(t, d)
  PROVE  BodiesInv'
<1> DEFINE n == Len(stack[t])
<1>1. stack[t] \in Seq(Frame) /\ n \in Nat
  BY DEF OwnershipInv, TypeOK
<1>2. stack'[t] = Append(stack[t], f)
  BY DEF Push, OwnershipInv, TypeOK
<1>3. /\ Len(stack'[t]) = n + 1 /\ DOMAIN stack'[t] = 1 .. n + 1
      /\ stack'[t][n + 1] = f
      /\ \A k \in 1 .. n : stack'[t][k] = stack[t][k]
  BY <1>1, <1>2
<1>4. \A u \in Tasks, d \in Devices : OwnedByCurrentTask(u, d)' <=> OwnedByCurrentTask(u, d)
  BY DEF OwnedByCurrentTask, SlotOf
<1>5. ASSUME NEW u \in Tasks, u # t PROVE ScopesInv(u)'
  <2>1. stack'[u] = stack[u]
    BY <1>5 DEF Push, OwnershipInv, TypeOK
  <2> QED BY <1>4, <2>1, ScopesKept DEF BodiesInv
<1>6. ASSUME NEW k \in 1 .. n PROVE ScopeInv(t, k)'
  <2>1. ScopeInv(t, k) /\ k \in DOMAIN stack[t]
    BY <1>1 DEF BodiesInv, ScopesInv
  <2>2. stack[t][k].body
    <3>1. CASE k < n
      BY <2>1, <3>1 DEF ScopeInv
    <3>2. CASE k = n
      BY <1>1, <3>2 DEF Running, Acquiring, Top
    <3> QED BY <1>1, <3>1, <3>2
  <2>3. ASSUME NEW d \in Devices, inode[d] = 1, d \in stack[t][k].ids
        PROVE  /\ OwnedByCurrentTask(t, d)
               /\ \A j \in 1 .. n : j > k => d \notin stack[t][j].got
    BY <1>1, <2>1, <2>2, <2>3 DEF ScopeInv
  <2>4. ASSUME NEW d \in Devices, inode[d] = 1, d \in stack[t][k].ids, NEW j \in 1 .. n + 1, j > k
        PROVE  d \notin stack'[t][j].got
    <3>1. CASE j = n + 1
      BY <1>3, <3>1
    <3>2. CASE j \in 1 .. n
      BY <1>3, <2>3, <2>4, <3>2
    <3> QED BY <1>1, <3>1, <3>2
  <2> QED BY <1>3, <1>4, <2>2, <2>3, <2>4 DEF ScopeInv
<1>7. ASSUME NEW k \in 1 .. n + 1, k \notin 1 .. n PROVE ScopeInv(t, k)'
  <2>1. k = n + 1 /\ stack'[t][k] = f /\ ~(k < Len(stack'[t]))
    BY <1>1, <1>3, <1>7
  <2>2. \A j \in DOMAIN stack'[t] : ~(j > k)
    BY <1>1, <1>3, <2>1
  <2> QED BY <1>4, <2>1, <2>2 DEF ScopeInv
<1>8. ScopesInv(t)'
  BY <1>3, <1>6, <1>7 DEF ScopesInv
<1> QED BY <1>5, <1>8 DEF BodiesInv

\* A transaction borrows what its task owns, or acquires all of it.
LEMMA EnterTransactionBodies ==
  ASSUME OwnershipInv, BodiesInv, NEW t \in Tasks, NEW ids \in SUBSET Devices,
         EnterTransaction(t, ids)
  PROVE  BodiesInv'
<1> DEFINE borrowed == {d \in ids : OwnedByCurrentTask(t, d)}
           f == [kind |-> "txn", ids |-> ids, need |-> ids \ borrowed, got |-> {},
                 prev |-> active[t], body |-> borrowed = ids]
<1>1. f \in Frame
  BY DEF OwnershipInv, TypeOK, Frame
<1>2. Push(t, f) /\ Running(t) /\ UNCHANGED <<inode, slot>> /\ borrowed \in {{}, ids}
  BY DEF EnterTransaction
<1>3. ~f.body => f.ids \subseteq f.need
  BY <1>2
<1>4. f.body => \A d \in f.ids : OwnedByCurrentTask(t, d)
  OBVIOUS
<1>5. f.got = {}
  OBVIOUS
<1> HIDE DEF f
<1> QED BY <1>1, <1>2, <1>3, <1>4, <1>5, PushBodies

\* Raw locks are taken outside any scope.
LEMMA EnterRawBodies ==
  ASSUME OwnershipInv, BodiesInv, NEW t \in Tasks, NEW ids \in SUBSET Devices, EnterRaw(t, ids)
  PROVE  BodiesInv'
<1> DEFINE f == [kind |-> "raw", ids |-> ids, need |-> ids, got |-> {},
                 prev |-> NoActive, body |-> FALSE]
<1>1. f \in Frame
  BY DEF Frame, NoActive, Active
<1>2. Push(t, f) /\ Running(t) /\ UNCHANGED <<inode, slot>>
  BY DEF EnterRaw, Running, Acquiring
<1>3. f.got = {} /\ ~f.body /\ f.ids \subseteq f.need
  OBVIOUS
<1> HIDE DEF f
<1> QED BY <1>1, <1>2, <1>3, PushBodies

\* A file that was never replaced is only locked while nobody owns its radio, so
\* the radio belongs to no body yet; the last target completes the scope.
LEMMA TryLockBodies ==
  ASSUME OwnershipInv, BodiesInv, NEW t \in Tasks, NEW d \in Devices, TryLock(t, d)
  PROVE  BodiesInv'
<1> DEFINE w == WorkerOf[t]
           n == Len(stack[t])
           own == [ino |-> fd[t], owner |-> t]
           f == [Top(t) EXCEPT !.need = @ \ {d}, !.got = @ \cup {d},
                   !.body = (Top(t).need = {d})]
<1>1. /\ w \in Workers /\ Top(t) \in Frame /\ n \in Nat \ {0} /\ stack[t] \in Seq(Frame)
      /\ ~Top(t).body
  BY OwnershipAssumption, TopType DEF TryLock, Acquiring, OwnershipInv, TypeOK
<1>2. inode' = inode /\ fd[t] = inode[d] /\ fd[t] # 0 /\ ~FlockHeld(d, fd[t])
  BY DEF TryLock, SameNamespace
<1>3. \A v \in Workers, e \in Devices :
        slot'[v][e] = IF v = w /\ e = d THEN own ELSE slot[v][e]
  BY <1>1 DEF TryLock, OwnershipInv, TypeOK
<1>4. inode[d] = 1 => \A u \in Tasks : ~OwnedByCurrentTask(u, d)
  BY <1>2, OwnedLocked DEF FlockHeld
<1>5. \A u \in Tasks, e \in Devices :
        inode[e] = 1 /\ OwnedByCurrentTask(u, e) => OwnedByCurrentTask(u, e)'
  <2> SUFFICES ASSUME NEW u \in Tasks, NEW e \in Devices, inode[e] = 1,
                      OwnedByCurrentTask(u, e)
               PROVE  OwnedByCurrentTask(u, e)'
    OBVIOUS
  <2>1. e # d /\ WorkerOf[u] \in Workers
    BY <1>4, OwnershipAssumption
  <2>2. slot'[WorkerOf[u]][e] = slot[WorkerOf[u]][e]
    BY <1>3, <2>1
  <2> QED BY <2>2 DEF OwnedByCurrentTask, SlotOf
<1>6. OwnedByCurrentTask(t, d)'
  <2>1. slot'[w][d] = own
    BY <1>1, <1>3
  <2> QED BY <1>2, <2>1 DEF OwnedByCurrentTask, SlotOf
<1>7. ASSUME NEW u \in Tasks, u # t PROVE ScopesInv(u)'
  <2>1. stack'[u] = stack[u]
    BY <1>7 DEF TryLock, ReplaceTop, OwnershipInv, TypeOK
  <2> QED BY <1>2, <1>5, <2>1, ScopesKept DEF BodiesInv
<1>8. stack'[t] = [stack[t] EXCEPT ![n] = f]
  BY DEF TryLock, ReplaceTop, OwnershipInv, TypeOK
<1>9. /\ Len(stack'[t]) = n /\ DOMAIN stack'[t] = 1 .. n /\ DOMAIN stack[t] = 1 .. n
      /\ stack'[t][n] = f
      /\ \A k \in 1 .. n : k # n => stack'[t][k] = stack[t][k]
  BY <1>1, <1>8
<1>10. /\ f.ids = Top(t).ids /\ f.need = Top(t).need \ {d} /\ f.got = Top(t).got \cup {d}
       /\ f.body = (Top(t).need = {d})
  BY <1>1 DEF Frame
<1>11. ScopeInv(t, n) /\ stack[t][n] = Top(t)
  BY <1>1, <1>9 DEF BodiesInv, ScopesInv, Top
<1>12. Top(t).ids \subseteq Top(t).need \cup Top(t).got
  BY <1>1, <1>11 DEF ScopeInv
<1>13. \A e \in Devices : inode[e] = 1 /\ e \in Top(t).got => OwnedByCurrentTask(t, e)'
  BY <1>1, <1>5, <1>11 DEF ScopeInv
<1> HIDE DEF f
<1>14. ScopeInv(t, n)'
  <2>1. \A e \in Devices : inode[e] = 1 /\ e \in f.got => OwnedByCurrentTask(t, e)'
    BY <1>6, <1>10, <1>13
  <2>2. f.body => f.ids \subseteq f.got
    BY <1>10, <1>12
  <2>3. ~f.body => f.ids \subseteq f.need \cup f.got
    BY <1>10, <1>12
  <2>4. \A j \in 1 .. n : ~(j > n)
    BY <1>1
  <2>5. ~(n < n)
    BY <1>1
  <2> QED BY <1>2, <1>9, <2>1, <2>2, <2>3, <2>4, <2>5 DEF ScopeInv
<1>15. ASSUME NEW k \in 1 .. n, k # n PROVE ScopeInv(t, k)'
  <2>1. ScopeInv(t, k) /\ k < n /\ stack[t][k].body /\ stack'[t][k] = stack[t][k]
    BY <1>1, <1>9, <1>15 DEF BodiesInv, ScopesInv, ScopeInv
  <2>2. ASSUME NEW e \in Devices, inode[e] = 1, e \in stack[t][k].ids
        PROVE  /\ OwnedByCurrentTask(t, e)'
               /\ \A j \in 1 .. n : j > k => e \notin stack'[t][j].got
    <3>1. /\ OwnedByCurrentTask(t, e)
          /\ \A j \in 1 .. n : j > k => e \notin stack[t][j].got
      BY <1>9, <2>1, <2>2 DEF ScopeInv
    <3>2. e # d
      BY <1>4, <2>2, <3>1
    <3>3. e \notin f.got
      BY <1>1, <1>10, <1>11, <2>1, <3>1, <3>2
    <3> QED BY <1>5, <1>9, <2>2, <3>1, <3>3
  <2> QED BY <1>2, <1>9, <2>1, <2>2 DEF ScopeInv
<1>16. ScopesInv(t)'
  BY <1>9, <1>14, <1>15 DEF ScopesInv
<1> QED BY <1>7, <1>16 DEF BodiesInv

\* Every step keeps the scopes of every task backed by locks of their own.
LEMMA BodiesStep ==
  ASSUME OwnershipInv, BodiesInv, [Next]_vars
  PROVE  BodiesInv'
<1>1. ASSUME NEW t \in Tasks, NEW ids \in SUBSET Devices, EnterTransaction(t, ids)
      PROVE  BodiesInv'
  BY <1>1, EnterTransactionBodies
<1>2. ASSUME NEW t \in Tasks, NEW ids \in SUBSET Devices, EnterRaw(t, ids)
      PROVE  BodiesInv'
  BY <1>2, EnterRawBodies
<1>3. ASSUME UNCHANGED <<inode, slot, stack>> PROVE BodiesInv'
  BY <1>3, ScopesKept DEF BodiesInv, OwnedByCurrentTask, SlotOf
<1>4. ASSUME NEW t \in Tasks, NEW d \in Devices, TryLock(t, d)
      PROVE  BodiesInv'
  BY <1>4, TryLockBodies
<1>5. ASSUME NEW t \in Tasks, NEW d \in Devices, GiveUp(t, d) \/ Unavailable(t, d)
      PROVE  BodiesInv'
  BY <1>5, PopScopeBodies DEF GiveUp, Unavailable, Acquiring
<1>6. ASSUME NEW t \in Tasks, Leave(t)
      PROVE  BodiesInv'
  BY <1>6, PopScopeBodies DEF Leave
<1>7. ASSUME NEW w \in Workers, Crash(w) PROVE BodiesInv'
  <2> SUFFICES ASSUME NEW u \in Tasks PROVE ScopesInv(u)'
    BY DEF BodiesInv
  <2>1. CASE WorkerOf[u] = w
    <3>1. stack'[u] = <<>>
      BY <1>7, <2>1 DEF Crash
    <3> QED BY <3>1 DEF ScopesInv
  <2>2. CASE WorkerOf[u] # w
    <3>1. stack'[u] = stack[u] /\ inode' = inode
      BY <1>7, <2>2 DEF Crash
    <3>2. slot'[WorkerOf[u]] = slot[WorkerOf[u]]
      BY <1>7, <2>2, OwnershipAssumption DEF Crash, OwnershipInv, TypeOK
    <3> QED BY <3>1, <3>2, ScopesKept DEF BodiesInv, OwnedByCurrentTask, SlotOf
  <2> QED BY <2>1, <2>2
<1>8. ASSUME NEW d \in Devices, ReplaceFile(d) PROVE BodiesInv'
  <2>1. \A e \in Devices : inode'[e] = 1 => inode[e] = 1
    BY <1>8, OwnershipAssumption DEF ReplaceFile, OwnershipInv, TypeOK, Inodes
  <2> QED BY <1>8, <2>1, ScopesKept DEF ReplaceFile, BodiesInv, OwnedByCurrentTask, SlotOf
<1> QED BY <1>1, <1>2, <1>3, <1>4, <1>5, <1>6, <1>7, <1>8
        DEF Next, AcquireStep, OpenLock, Spawn, vars

\* Two bodies on a radio own it through the file that was never replaced, and
\* that file has one owner.
LEMMA BodiesExclude ==
  ASSUME OwnershipInv, BodiesInv
  PROVE  ExclusiveBody
<1> SUFFICES ASSUME NEW t \in Tasks, NEW u \in Tasks, NEW d \in Devices,
                    InBody(t, d), InBody(u, d), inode[d] = 1
             PROVE  t = u
  BY OwnershipAssumption DEF ExclusiveBody, OwnershipInv, TypeOK, Inodes
<1>1. OwnedByCurrentTask(t, d) /\ OwnedByCurrentTask(u, d)
  BY DEF InBody, BodiesInv, ScopesInv, ScopeInv
<1>2. /\ [dev |-> d, ino |-> 1, task |-> t] \in flocks
      /\ [dev |-> d, ino |-> 1, task |-> u] \in flocks
  BY <1>1, OwnedLocked
<1>3. [dev |-> d, ino |-> 1, task |-> t] = [dev |-> d, ino |-> 1, task |-> u]
  BY <1>2 DEF OwnershipInv, FlockUnique
<1> QED BY <1>3

\* device_transaction() and acquire(): while its lock file is never replaced, a
\* radio is inside the body of at most one task of all workers, with any nesting,
\* borrowing, cancellation and crash.
THEOREM OwnershipExclusiveBody == Spec => []ExclusiveBody
<1>1. Init => BodiesInv
  BY DEF Init, BodiesInv, ScopesInv
<1>2. OwnershipInv /\ BodiesInv /\ [Next]_vars => BodiesInv'
  BY BodiesStep
<1>3. OwnershipInv /\ BodiesInv => ExclusiveBody
  BY BodiesExclude
<1> QED BY <1>1, <1>2, <1>3, OwnershipInvariant, PTL DEF Spec

-----------------------------------------------------------------------------
(***************************************************************************)
(* No circular wait                                                        *)
(***************************************************************************)

\* No lock file was ever replaced.
NeverReplaced == \A d \in Devices : inode[d] = 1

\* The context c belongs to task t exactly when the n-th scope of t is a
\* transaction, and then t owns every radio c names.
ContextInv(t, c, n) ==
  /\ c.task = t <=> n > 0 /\ stack[t][n].kind = "txn"
  /\ c.task = t => \A d \in c.ids : OwnedByCurrentTask(t, d)

\* Every token a transaction of t keeps is the context of the scope around it,
\* and the context variable is that of the scope t runs in.
ContextsInv(t) ==
  /\ ContextInv(t, active[t], IF Acquiring(t) THEN Len(stack[t]) - 1 ELSE Len(stack[t]))
  /\ \A k \in DOMAIN stack[t] :
       stack[t][k].kind = "txn" => ContextInv(t, stack[t][k].prev, k - 1)

\* Only the outermost scope of a task acquires, in the canonical order; the inner
\* ones borrow everything.
LadderInv(t) ==
  \A k \in DOMAIN stack[t] :
    LET f == stack[t][k]
    IN /\ f.got \subseteq f.ids /\ f.need \subseteq f.ids
       /\ k > 1 => f.body /\ f.got = {} /\ f.kind = "txn"
       /\ ~f.body => \A d \in f.got, e \in f.need : Rank[d] < Rank[e]

\* The kernel locks a task holds are those its outermost scope acquired.
HeldInv ==
  \A r \in flocks : stack[r.task] # <<>> /\ r.dev \in stack[r.task][1].got

\* What sorted acquisition and the refusal to expand a target set come to, as long
\* as no lock file is replaced.
OrderInv ==
  NeverReplaced => HeldInv /\ \A t \in Tasks : ContextsInv(t) /\ LadderInv(t)

\* A task whose scopes, context and lock objects are left alone keeps its order.
LEMMA OrderKept ==
  ASSUME OwnershipInv, NEW u \in Tasks, ContextsInv(u), LadderInv(u),
         stack'[u] = stack[u], active'[u] = active[u],
         \A d \in Devices : OwnedByCurrentTask(u, d) => OwnedByCurrentTask(u, d)'
  PROVE  ContextsInv(u)' /\ LadderInv(u)'
<1>1. Acquiring(u)' <=> Acquiring(u)
  BY DEF Acquiring, Top
<1>2. active[u].ids \subseteq Devices /\ stack[u] \in Seq(Frame)
  BY DEF OwnershipInv, TypeOK, Active
<1>3. \A k \in DOMAIN stack[u] : stack[u][k].prev.ids \subseteq Devices
  <2> SUFFICES ASSUME NEW k \in DOMAIN stack[u] PROVE stack[u][k].prev.ids \subseteq Devices
    OBVIOUS
  <2>1. stack[u][k] \in Frame
    BY <1>2
  <2> QED BY <2>1 DEF Frame, Active
<1>4. LadderInv(u)'
  BY DEF LadderInv
<1>5. ASSUME NEW n, ContextInv(u, active[u], n) PROVE ContextInv(u, active[u], n)'
  BY <1>2, <1>5 DEF ContextInv
<1>6. ASSUME NEW k \in DOMAIN stack[u], ContextInv(u, stack[u][k].prev, k - 1)
      PROVE  ContextInv(u, stack[u][k].prev, k - 1)'
  BY <1>3, <1>6 DEF ContextInv
<1> QED BY <1>1, <1>4, <1>5, <1>6 DEF ContextsInv

\* Releasing an inner scope releases nothing; releasing the outermost one releases
\* every lock the task holds, and leaves it without a context of its own.
LEMMA PopScopeOrder ==
  ASSUME OwnershipInv, BodiesInv, OrderInv, NEW t \in Tasks, stack[t] # <<>>, PopScope(t)
  PROVE  OrderInv'
<1> SUFFICES ASSUME NeverReplaced
             PROVE  HeldInv' /\ \A u \in Tasks : ContextsInv(u)' /\ LadderInv(u)'
  BY DEF OrderInv, NeverReplaced, PopScope
<1> DEFINE w == WorkerOf[t]
<1>0. PICK n \in Nat : n = Len(stack[t]) /\ (n > 1 \/ n = 1)
  BY TopType DEF OwnershipInv
<1>1. w \in Workers /\ Top(t) \in Frame /\ n = Len(stack[t]) /\ stack[t] \in Seq(Frame)
  BY <1>0, OwnershipAssumption, TopType DEF OwnershipInv, TypeOK
<1>2. \A v \in Workers, d \in Devices :
        slot'[v][d] = IF v = w /\ d \in Released(t) THEN FreeSlot ELSE slot[v][d]
  BY <1>1 DEF PopScope, Cleared, OwnershipInv, TypeOK
<1>3. \A d \in Released(t) : OwnedByCurrentTask(t, d) /\ d \in Top(t).got
  BY <1>1, OwnershipAssumption DEF Released, Frame
<1>4. HeldInv /\ \A u \in Tasks : ContextsInv(u) /\ LadderInv(u)
  BY DEF OrderInv
<1>5. /\ stack'[t] = SubSeq(stack[t], 1, n - 1) /\ active'[t] = RestoredContext(t)
      /\ \A u \in Tasks : u # t => stack'[u] = stack[u] /\ active'[u] = active[u]
  BY <1>0 DEF PopScope, OwnershipInv, TypeOK
<1>6. ASSUME NEW u \in Tasks, NEW d \in Devices, OwnedByCurrentTask(u, d),
             u # t \/ d \notin Released(t)
      PROVE  OwnedByCurrentTask(u, d)'
  <2>1. WorkerOf[u] \in Workers /\ ~(WorkerOf[u] = w /\ d \in Released(t))
    BY <1>3, <1>6, OwnershipAssumption DEF OwnedByCurrentTask, SlotOf
  <2>2. slot'[WorkerOf[u]][d] = slot[WorkerOf[u]][d]
    BY <1>2, <2>1
  <2> QED BY <1>6, <2>2 DEF OwnedByCurrentTask, SlotOf
<1>7. ASSUME NEW u \in Tasks, u # t PROVE ContextsInv(u)' /\ LadderInv(u)'
  BY <1>4, <1>5, <1>6, <1>7, OrderKept
<1>8. /\ n \in DOMAIN stack[t] /\ Top(t) = stack[t][n]
      /\ \A k \in DOMAIN stack[t] : ScopeInv(t, k)
  BY <1>1 DEF Top, BodiesInv, ScopesInv
<1>9. CASE n > 1
  <2>0. PICK m \in Nat : m = n - 1
    BY <1>9
  <2>1. Top(t).body /\ Top(t).got = {} /\ Top(t).kind = "txn"
    BY <1>4, <1>8, <1>9 DEF LadderInv
  <2>2. Released(t) = {}
    BY <2>1 DEF Released
  <2>3. flocks' = flocks
    BY <2>2 DEF PopScope
  <2>4. /\ DOMAIN stack'[t] = 1 .. m /\ Len(stack'[t]) = m
        /\ \A k \in 1 .. m : stack'[t][k] = stack[t][k] /\ k \in DOMAIN stack[t] /\ k < n
    BY <1>1, <1>5, <1>9, <2>0
  <2>5. HeldInv'
    <3> SUFFICES ASSUME NEW r \in flocks
                 PROVE  stack'[r.task] # <<>> /\ r.dev \in stack'[r.task][1].got
      BY <2>3 DEF HeldInv
    <3>1. r.task \in Tasks /\ stack[r.task] # <<>> /\ r.dev \in stack[r.task][1].got
      BY <1>4 DEF HeldInv, OwnershipInv, TypeOK, Flock
    <3>2. CASE r.task = t
      <4>1. 1 \in 1 .. m
        BY <1>9, <2>0
      <4> QED BY <2>4, <3>1, <3>2, <4>1
    <3> QED BY <1>5, <3>1, <3>2
  <2>6. LadderInv(t)'
    BY <1>4, <2>4 DEF LadderInv
  <2>7. active'[t] = stack[t][n].prev
    BY <1>5, <1>8, <2>1 DEF RestoredContext
  <2>8. ~Acquiring(t)'
    <3>1. m \in 1 .. m /\ m \in DOMAIN stack[t] /\ m < n
      BY <1>9, <2>0, <2>4
    <3>2. stack[t][m].body
      BY <1>1, <1>8, <3>1 DEF ScopeInv
    <3> QED BY <2>4, <3>1, <3>2 DEF Acquiring, Top
  <2>9. \A d \in Devices : OwnedByCurrentTask(t, d) => OwnedByCurrentTask(t, d)'
    BY <1>6, <2>2
  <2>10. ASSUME NEW c \in Active, NEW k \in 0 .. m, ContextInv(t, c, k)
         PROVE  ContextInv(t, c, k)'
    <3>1. k > 0 => stack'[t][k] = stack[t][k]
      BY <2>4
    <3> QED BY <2>9, <2>10, <3>1 DEF ContextInv, Active
  <2>11. ASSUME NEW k \in 1 .. n, stack[t][k].kind = "txn"
         PROVE  stack[t][k].prev \in Active /\ ContextInv(t, stack[t][k].prev, k - 1)
    <3>1. k \in DOMAIN stack[t]
      BY <1>1
    <3>2. stack[t][k] \in Frame
      BY <1>1, <3>1
    <3> QED BY <1>4, <2>11, <3>1, <3>2 DEF ContextsInv, Frame
  <2>12. ContextInv(t, active[t], m)'
    <3>1. PICK c \in Active : c = stack[t][n].prev /\ ContextInv(t, c, m)
      BY <1>8, <2>0, <2>1, <2>11
    <3>2. ContextInv(t, c, m)'
      BY <2>0, <2>10, <3>1
    <3> QED BY <2>7, <3>1, <3>2
  <2>13. ASSUME NEW k \in 1 .. m, stack'[t][k].kind = "txn"
         PROVE  ContextInv(t, stack[t][k].prev, k - 1)'
    <3>1. stack'[t][k] = stack[t][k] /\ k \in 1 .. n /\ k - 1 \in 0 .. m
      BY <2>0, <2>4
    <3>2. PICK c \in Active : c = stack[t][k].prev /\ ContextInv(t, c, k - 1)
      BY <2>11, <2>13, <3>1
    <3>3. ContextInv(t, c, k - 1)'
      BY <2>10, <3>1, <3>2
    <3> QED BY <3>1, <3>2, <3>3
  <2>14. ContextsInv(t)'
    BY <2>4, <2>8, <2>12, <2>13 DEF ContextsInv
  <2> QED BY <1>7, <2>5, <2>6, <2>14
<1>10. CASE n = 1
  <2>1. stack'[t] = <<>>
    BY <1>1, <1>5, <1>10
  <2>2. LadderInv(t)'
    BY <2>1 DEF LadderInv
  <2>3. active'[t].task # t
    <3>1. CASE Top(t).kind = "txn" /\ Top(t).body
      BY <1>4, <1>5, <1>8, <1>10, <3>1 DEF RestoredContext, ContextsInv, ContextInv
    <3>2. CASE ~Top(t).body
      <4>1. Acquiring(t) /\ Len(stack[t]) - 1 = 0 /\ ~(0 > 0)
        BY <1>1, <1>10, <3>2 DEF Acquiring
      <4>2. ContextInv(t, active[t], 0)
        BY <1>4, <4>1 DEF ContextsInv
      <4> QED BY <1>5, <3>2, <4>1, <4>2 DEF RestoredContext, ContextInv
    <3>3. CASE Top(t).kind # "txn" /\ Top(t).body
      <4>1. ContextInv(t, active[t], 1) /\ stack[t][1] = Top(t)
        BY <1>1, <1>4, <1>8, <1>10, <3>3 DEF ContextsInv, Acquiring
      <4> QED BY <1>5, <3>3, <4>1 DEF RestoredContext, ContextInv
    <3> QED BY <3>1, <3>2, <3>3
  <2>4. ContextsInv(t)'
    <3>1. ContextInv(t, active[t], 0)'
      BY <2>3 DEF ContextInv
    <3>2. ~Acquiring(t)' /\ Len(stack'[t]) = 0 /\ DOMAIN stack'[t] = {}
      BY <2>1 DEF Acquiring
    <3> QED BY <3>1, <3>2 DEF ContextsInv
  <2>5. \A d \in Top(t).got : d \in Devices /\ OwnedByCurrentTask(t, d)
    BY <1>1, <1>4, <1>8 DEF LadderInv, ScopeInv, Frame, NeverReplaced
  <2>6. Released(t) = Top(t).got
    BY <2>5 DEF Released
  <2>7. \A r \in flocks' : r \in flocks /\ r.task # t
    <3> SUFFICES ASSUME NEW r \in flocks', r.task = t PROVE FALSE
      BY DEF PopScope
    <3>1. r \in flocks /\ r \in Flock
      BY DEF PopScope, OwnershipInv, TypeOK
    <3>2. r.dev \in Top(t).got
      BY <1>4, <1>8, <1>10, <3>1 DEF HeldInv
    <3>3. r.ino = 1
      BY <3>1, OwnershipAssumption
         DEF OwnershipInv, FlockKnown, NeverReplaced, Flock, Inodes
    <3>4. [dev |-> r.dev, ino |-> slot[w][r.dev].ino, task |-> t] \in flocks
      BY <1>1, <2>5, <3>2 DEF OwnershipInv, SlotBacked, OwnedByCurrentTask, SlotOf
    <3>5. slot[w][r.dev].ino <= 1 /\ slot[w][r.dev].ino \in Inodes
      BY <2>5, <3>2, <3>4 DEF OwnershipInv, FlockKnown, NeverReplaced, TypeOK, Flock
    <3>6. slot[w][r.dev].ino = 1
      BY <3>5, OwnershipAssumption DEF Inodes
    <3> QED BY <2>6, <3>1, <3>2, <3>3, <3>6 DEF PopScope
  <2>8. HeldInv'
    BY <1>4, <1>5, <2>7 DEF HeldInv, OwnershipInv, TypeOK, Flock
  <2> QED BY <1>7, <2>2, <2>4, <2>8
<1> QED BY <1>0, <1>9, <1>10

\* A scope that starts in the body of another one borrows: with a transaction
\* around it, its targets are among those the task owns, and with raw locks around
\* it, it targets one of them.
LEMMA InnerBorrows ==
  ASSUME OwnershipInv, BodiesInv, OrderInv, NeverReplaced, NEW t \in Tasks,
         NEW ids \in SUBSET Devices, EnterTransaction(t, ids), stack[t] # <<>>
  PROVE  \A d \in ids : OwnedByCurrentTask(t, d)
<1>1. Top(t) \in Frame /\ Len(stack[t]) \in DOMAIN stack[t] /\ Top(t).body
  BY TopType DEF OwnershipInv, TypeOK, EnterTransaction, Running, Acquiring
<1>2. {d \in ids : OwnedByCurrentTask(t, d)} \in {{}, ids}
  BY DEF EnterTransaction
<1>3. \E d \in ids : OwnedByCurrentTask(t, d)
  <2>1. CASE Top(t).kind = "raw"
    <3>1. PICK d \in ids : d \in Top(t).ids
      BY <2>1 DEF EnterTransaction
    <3>2. ScopeInv(t, Len(stack[t])) /\ stack[t][Len(stack[t])] = Top(t)
      BY <1>1 DEF BodiesInv, ScopesInv, Top
    <3>3. OwnedByCurrentTask(t, d)
      BY <1>1, <3>1, <3>2 DEF ScopeInv, NeverReplaced
    <3> QED BY <3>3
  <2>2. CASE Top(t).kind = "txn"
    <3>1. ContextInv(t, active[t], Len(stack[t]))
      BY DEF OrderInv, ContextsInv, EnterTransaction, Running
    <3>2. Len(stack[t]) > 0
      BY TopType DEF OwnershipInv
    <3>3. active[t].task = t /\ \A d \in active[t].ids : OwnedByCurrentTask(t, d)
      BY <2>2, <3>1, <3>2 DEF ContextInv, Top
    <3> QED BY <3>3 DEF EnterTransaction, WithinOuter
  <2> QED BY <1>1, <2>1, <2>2 DEF Frame
<1> QED BY <1>2, <1>3

\* A new innermost scope has acquired nothing.  It is in its body when there is a
\* scope around it, and then its token is the context of that scope.
LEMMA PushOrder ==
  ASSUME OwnershipInv, OrderInv, NEW t \in Tasks, NEW f \in Frame, Push(t, f), Running(t),
         UNCHANGED <<inode, flocks, slot>>, f.got = {}, f.need \subseteq f.ids,
         stack[t] # <<>> => f.body /\ f.kind = "txn",
         f.kind = "txn" => f.prev = active[t],
         \A u \in Tasks : u # t => active'[u] = active[u],
         ~f.body => active'[t] = active[t],
         f.body => /\ f.kind = "txn" /\ active'[t] = ActiveInBody(t, f)
                   /\ \A d \in f.ids : OwnedByCurrentTask(t, d)
  PROVE  OrderInv'
<1> SUFFICES ASSUME NeverReplaced
             PROVE  HeldInv' /\ \A u \in Tasks : ContextsInv(u)' /\ LadderInv(u)'
  BY DEF OrderInv, NeverReplaced
<1>0. PICK n \in Nat : n = Len(stack[t])
  BY DEF OwnershipInv, TypeOK
<1>1. PICK m \in Nat : m = n + 1
  BY <1>0
<1>2. stack[t] \in Seq(Frame) /\ active[t] \in Active
  BY DEF OwnershipInv, TypeOK
<1>3. HeldInv /\ \A u \in Tasks : ContextsInv(u) /\ LadderInv(u)
  BY DEF OrderInv
<1>4. \A u \in Tasks, d \in Devices : OwnedByCurrentTask(u, d)' <=> OwnedByCurrentTask(u, d)
  BY DEF OwnedByCurrentTask, SlotOf
<1>5. stack'[t] = Append(stack[t], f) /\ \A u \in Tasks : u # t => stack'[u] = stack[u]
  BY DEF Push, OwnershipInv, TypeOK
<1>6. ASSUME NEW u \in Tasks, u # t PROVE ContextsInv(u)' /\ LadderInv(u)'
  BY <1>3, <1>4, <1>5, <1>6, OrderKept
<1>7. /\ DOMAIN stack[t] = 1 .. n /\ DOMAIN stack'[t] = 1 .. m /\ Len(stack'[t]) = m
      /\ stack'[t][m] = f
      /\ \A k \in 1 .. n : stack'[t][k] = stack[t][k]
  BY <1>0, <1>1, <1>2, <1>5
<1>8. HeldInv'
  <2> SUFFICES ASSUME NEW r \in flocks
               PROVE  stack'[r.task] # <<>> /\ r.dev \in stack'[r.task][1].got
    BY DEF HeldInv
  <2>1. r.task \in Tasks /\ stack[r.task] # <<>> /\ r.dev \in stack[r.task][1].got
    BY <1>3 DEF HeldInv, OwnershipInv, TypeOK, Flock
  <2>2. CASE r.task = t
    <3>1. n > 0 /\ m > 0
      BY <1>0, <1>1, <1>2, <2>1, <2>2
    <3>2. 1 \in 1 .. n
      BY <3>1
    <3> QED BY <1>7, <2>1, <2>2, <3>1, <3>2
  <2> QED BY <1>5, <2>1, <2>2
<1>9. LadderInv(t)'
  <2> SUFFICES ASSUME NEW k \in 1 .. m
               PROVE  LET g == stack'[t][k]
                      IN /\ g.got \subseteq g.ids /\ g.need \subseteq g.ids
                         /\ k > 1 => g.body /\ g.got = {} /\ g.kind = "txn"
                         /\ ~g.body => \A d \in g.got, e \in g.need : Rank[d] < Rank[e]
    BY <1>7 DEF LadderInv
  <2>1. CASE k \in 1 .. n
    BY <1>3, <1>7, <2>1 DEF LadderInv
  <2>2. CASE k = m
    <3>1. k > 1 => stack[t] # <<>>
      BY <1>0, <1>1, <1>2, <2>2
    <3> QED BY <1>7, <2>2, <3>1
  <2> QED BY <1>0, <1>1, <2>1, <2>2
<1>10. ASSUME NEW c \in Active, NEW k \in 0 .. n, ContextInv(t, c, k)
       PROVE  ContextInv(t, c, k)'
  <2>1. k > 0 => stack'[t][k] = stack[t][k]
    BY <1>7
  <2> QED BY <1>4, <1>10, <2>1 DEF ContextInv, Active
<1>11. PICK c \in Active : c = active[t] /\ ContextInv(t, c, n)
  BY <1>0, <1>2, <1>3 DEF ContextsInv, Running
<1>12. ContextInv(t, c, n)'
  BY <1>0, <1>10, <1>11
<1>13. ASSUME NEW k \in 1 .. m, stack'[t][k].kind = "txn"
       PROVE  ContextInv(t, stack[t][k].prev, k - 1)'
  <2>1. CASE k \in 1 .. n
    <3>1. stack[t][k] \in Frame /\ stack'[t][k] = stack[t][k]
      BY <1>2, <1>7, <2>1
    <3>2. PICK b \in Active : b = stack[t][k].prev /\ ContextInv(t, b, k - 1)
      BY <1>3, <1>7, <1>13, <2>1, <3>1 DEF ContextsInv, Frame
    <3>3. ContextInv(t, b, k - 1)'
      BY <1>10, <2>1, <3>2
    <3> QED BY <3>1, <3>2, <3>3
  <2>2. CASE k = m
    <3>1. k - 1 = n /\ stack'[t][k].prev = c
      BY <1>0, <1>1, <1>7, <1>11, <1>13, <2>2
    <3> QED BY <1>12, <3>1
  <2> QED BY <1>0, <1>1, <2>1, <2>2
<1>14. Acquiring(t)' <=> ~f.body
  <2>1. Len(stack'[t]) = m /\ stack'[t][m] = f /\ stack'[t] # <<>>
    BY <1>1, <1>2, <1>5, <1>7
  <2> QED BY <2>1 DEF Acquiring, Top
<1>15. ContextInv(t, active[t], IF Acquiring(t) THEN Len(stack[t]) - 1 ELSE Len(stack[t]))'
  <2>1. CASE ~f.body
    <3>1. Acquiring(t)' /\ Len(stack'[t]) - 1 = n /\ active'[t] = c
      BY <1>0, <1>1, <1>7, <1>11, <1>14, <2>1
    <3> QED BY <1>12, <3>1
  <2>2. CASE f.body
    <3>1. ~Acquiring(t)' /\ Len(stack'[t]) = m /\ m > 0 /\ stack'[t][m].kind = "txn"
      BY <1>0, <1>1, <1>7, <1>14, <2>2
    <3>2. /\ active'[t].task = t
          /\ \A d \in active'[t].ids : d \in Devices /\ OwnedByCurrentTask(t, d)
      BY <1>11, <2>2 DEF ActiveInBody, ContextInv, Frame, Active
    <3>3. \A d \in active'[t].ids : OwnedByCurrentTask(t, d)'
      BY <1>4, <3>2
    <3> QED BY <3>1, <3>2, <3>3 DEF ContextInv
  <2> QED BY <2>1, <2>2
<1>16. ContextsInv(t)'
  BY <1>7, <1>13, <1>15 DEF ContextsInv
<1> QED BY <1>6, <1>8, <1>9, <1>16

\* device_transaction() borrows inside another scope and acquires outside one.
LEMMA EnterTransactionOrder ==
  ASSUME OwnershipInv, BodiesInv, OrderInv, NEW t \in Tasks, NEW ids \in SUBSET Devices,
         EnterTransaction(t, ids)
  PROVE  OrderInv'
<1> SUFFICES ASSUME NeverReplaced PROVE OrderInv'
  BY DEF OrderInv, NeverReplaced, EnterTransaction
<1> DEFINE borrowed == {d \in ids : OwnedByCurrentTask(t, d)}
           f == [kind |-> "txn", ids |-> ids, need |-> ids \ borrowed, got |-> {},
                 prev |-> active[t], body |-> borrowed = ids]
<1>1. f \in Frame
  BY DEF OwnershipInv, TypeOK, Frame
<1>2. /\ Push(t, f) /\ Running(t) /\ UNCHANGED <<inode, flocks, slot>>
      /\ active' = IF f.body THEN [active EXCEPT ![t] = ActiveInBody(t, f)] ELSE active
  BY DEF EnterTransaction
<1>3. stack[t] # <<>> => f.body
  BY InnerBorrows
<1>4. f.got = {} /\ f.need \subseteq f.ids /\ f.kind = "txn" /\ f.prev = active[t]
  OBVIOUS
<1>5. f.body => \A d \in f.ids : OwnedByCurrentTask(t, d)
  OBVIOUS
<1> HIDE DEF f
<1>6. /\ \A u \in Tasks : u # t => active'[u] = active[u]
      /\ ~f.body => active'[t] = active[t]
      /\ f.body => active'[t] = ActiveInBody(t, f)
  BY <1>2 DEF OwnershipInv, TypeOK
<1> QED BY <1>1, <1>2, <1>3, <1>4, <1>5, <1>6, PushOrder

\* Raw locks are taken outside any scope.
LEMMA EnterRawOrder ==
  ASSUME OwnershipInv, OrderInv, NEW t \in Tasks, NEW ids \in SUBSET Devices, EnterRaw(t, ids)
  PROVE  OrderInv'
<1> DEFINE f == [kind |-> "raw", ids |-> ids, need |-> ids, got |-> {},
                 prev |-> NoActive, body |-> FALSE]
<1>1. f \in Frame
  BY DEF Frame, NoActive, Active
<1>2. Push(t, f) /\ Running(t) /\ UNCHANGED <<inode, flocks, slot, active>> /\ stack[t] = <<>>
  BY DEF EnterRaw, Running, Acquiring
<1>3. f.got = {} /\ f.need \subseteq f.ids /\ ~f.body /\ f.kind # "txn"
  OBVIOUS
<1> HIDE DEF f
<1> QED BY <1>1, <1>2, <1>3, PushOrder

\* acquire() takes the least radio that the scope still needs; the task is in no
\* other scope, and what it takes nobody owned.
LEMMA TryLockOrder ==
  ASSUME OwnershipInv, BodiesInv, OrderInv, NEW t \in Tasks, NEW d \in Devices, TryLock(t, d)
  PROVE  OrderInv'
<1> SUFFICES ASSUME NeverReplaced
             PROVE  HeldInv' /\ \A u \in Tasks : ContextsInv(u)' /\ LadderInv(u)'
  BY DEF OrderInv, NeverReplaced, TryLock
<1> DEFINE w == WorkerOf[t]
           own == [ino |-> fd[t], owner |-> t]
           f == [Top(t) EXCEPT !.need = @ \ {d}, !.got = @ \cup {d},
                   !.body = (Top(t).need = {d})]
<1>1. /\ w \in Workers /\ Top(t) \in Frame /\ stack[t] \in Seq(Frame)
      /\ ~Top(t).body /\ Acquiring(t) /\ stack[t] # <<>>
  BY OwnershipAssumption, TopType DEF TryLock, Acquiring, OwnershipInv, TypeOK
<1>2. HeldInv /\ \A u \in Tasks : ContextsInv(u) /\ LadderInv(u)
  BY DEF OrderInv
<1>3. Len(stack[t]) = 1 /\ Top(t) = stack[t][1] /\ DOMAIN stack[t] = {1}
  <2>0. \A n \in Nat \ {0} : ~(n > 1) => n = 1 /\ 1 .. n = {1}
    OBVIOUS
  <2>1. PICK n \in Nat \ {0} : n = Len(stack[t])
    BY TopType, <1>1 DEF OwnershipInv
  <2>2. DOMAIN stack[t] = 1 .. n /\ n \in 1 .. n
    BY <1>1, <2>1
  <2>3. ~(n > 1)
    BY <1>1, <1>2, <2>1, <2>2 DEF LadderInv, Top
  <2>4. n = 1 /\ 1 .. n = {1}
    BY <2>0, <2>3
  <2> QED BY <2>1, <2>2, <2>4 DEF Top
<1>4. \A v \in Workers, e \in Devices :
        slot'[v][e] = IF v = w /\ e = d THEN own ELSE slot[v][e]
  BY <1>1 DEF TryLock, OwnershipInv, TypeOK
<1>5. \A u \in Tasks : ~OwnedByCurrentTask(u, d)
  BY OwnedLocked DEF TryLock, SameNamespace, FlockHeld, NeverReplaced
<1>6. \A u \in Tasks, e \in Devices : OwnedByCurrentTask(u, e) => OwnedByCurrentTask(u, e)'
  <2> SUFFICES ASSUME NEW u \in Tasks, NEW e \in Devices, OwnedByCurrentTask(u, e)
               PROVE  OwnedByCurrentTask(u, e)'
    OBVIOUS
  <2>1. e # d /\ WorkerOf[u] \in Workers
    BY <1>5, OwnershipAssumption
  <2>2. slot'[WorkerOf[u]][e] = slot[WorkerOf[u]][e]
    BY <1>4, <2>1
  <2> QED BY <2>2 DEF OwnedByCurrentTask, SlotOf
<1>7. /\ f.ids = Top(t).ids /\ f.kind = Top(t).kind /\ f.prev = Top(t).prev
      /\ f.need = Top(t).need \ {d} /\ f.got = Top(t).got \cup {d}
      /\ f.body = (Top(t).need = {d}) /\ f \in Frame
  BY <1>1 DEF Frame
<1>8. /\ stack' = [stack EXCEPT ![t][Len(stack[t])] = f]
      /\ active' = IF f.body THEN [active EXCEPT ![t] = ActiveInBody(t, f)] ELSE active
      /\ flocks' = flocks \cup {[dev |-> d, ino |-> fd[t], task |-> t]}
      /\ NextTarget(t, d) /\ inode' = inode
  BY DEF TryLock, ReplaceTop
<1> HIDE DEF f
<1>9. /\ stack'[t] = [stack[t] EXCEPT ![1] = f]
      /\ \A u \in Tasks : u # t => stack'[u] = stack[u] /\ active'[u] = active[u]
      /\ ~f.body => active'[t] = active[t]
      /\ f.body => active'[t] = ActiveInBody(t, f)
  BY <1>3, <1>8 DEF OwnershipInv, TypeOK
<1>10. Len(stack'[t]) = 1 /\ stack'[t][1] = f /\ DOMAIN stack'[t] = {1} /\ stack'[t] # <<>>
  BY <1>1, <1>3, <1>9
<1>11. ASSUME NEW u \in Tasks, u # t PROVE ContextsInv(u)' /\ LadderInv(u)'
  BY <1>2, <1>6, <1>9, <1>11, OrderKept
<1>12. HeldInv'
  <2> SUFFICES ASSUME NEW r \in flocks'
               PROVE  stack'[r.task] # <<>> /\ r.dev \in stack'[r.task][1].got
    BY DEF HeldInv
  <2>1. CASE r \in flocks
    <3>1. r.task \in Tasks /\ stack[r.task] # <<>> /\ r.dev \in stack[r.task][1].got
      BY <1>2, <2>1 DEF HeldInv, OwnershipInv, TypeOK, Flock
    <3> QED BY <1>3, <1>7, <1>9, <1>10, <3>1
  <2>2. CASE r = [dev |-> d, ino |-> fd[t], task |-> t]
    BY <1>7, <1>10, <2>2
  <2> QED BY <1>8, <2>1, <2>2
<1>13. d \in Top(t).need /\ \A e \in Top(t).need : Rank[d] <= Rank[e]
  BY <1>8 DEF NextTarget
<1>14. /\ Top(t).got \subseteq Top(t).ids /\ Top(t).need \subseteq Top(t).ids
       /\ Top(t).ids \subseteq Devices
       /\ \A e \in Top(t).got, g \in Top(t).need : Rank[e] < Rank[g]
  BY <1>1, <1>2, <1>3 DEF LadderInv, Frame
<1>15. \A e \in f.got, g \in f.need : Rank[e] < Rank[g]
  <2> SUFFICES ASSUME NEW e \in f.got, NEW g \in f.need, e = d PROVE Rank[e] < Rank[g]
    BY <1>7, <1>14
  <2>1. g \in Devices /\ g # d /\ Rank[d] <= Rank[g]
    BY <1>7, <1>13, <1>14
  <2> QED BY <2>1, OwnershipAssumption
<1>16. LadderInv(t)'
  BY <1>7, <1>10, <1>13, <1>14, <1>15 DEF LadderInv
<1>17. Acquiring(t)' <=> ~f.body
  BY <1>10 DEF Acquiring, Top
<1>18. PICK c \in Active : c = active[t] /\ ContextInv(t, c, 0)
  <2>1. Len(stack[t]) - 1 = 0
    BY <1>3
  <2>2. ContextInv(t, active[t], 0)
    BY <1>1, <1>2, <2>1 DEF ContextsInv
  <2> QED BY <2>2 DEF OwnershipInv, TypeOK
<1>19. c.task # t /\ ContextInv(t, c, 0)'
  BY <1>18 DEF ContextInv
<1>20. f.kind = "txn" => ContextInv(t, f.prev, 0)
  <2>1. \A k \in DOMAIN stack[t] :
          stack[t][k].kind = "txn" => ContextInv(t, stack[t][k].prev, k - 1)
    BY <1>2 DEF ContextsInv
  <2>2. stack[t][1].kind = "txn" => ContextInv(t, stack[t][1].prev, 1 - 1)
    BY <1>3, <2>1
  <2>3. 1 - 1 = 0
    OBVIOUS
  <2>4. stack[t][1].kind = "txn" => ContextInv(t, stack[t][1].prev, 0)
    BY <2>2, <2>3
  <2> QED BY <1>3, <1>7, <2>4
<1>21. ContextInv(t, active[t], IF Acquiring(t) THEN Len(stack[t]) - 1 ELSE Len(stack[t]))'
  <2>1. CASE ~f.body
    <3>1. Len(stack'[t]) - 1 = 0
      BY <1>10
    <3> QED BY <1>9, <1>17, <1>18, <1>19, <2>1, <3>1
  <2>2. CASE f.body
    <3>1. ScopeInv(t, 1)'
      BY <1>10, TryLockBodies DEF BodiesInv, ScopesInv
    <3>2. \A e \in f.ids : OwnedByCurrentTask(t, e)'
      BY <1>7, <1>8, <1>10, <1>14, <2>2, <3>1 DEF ScopeInv, NeverReplaced
    <3>3. active'[t] = IF f.kind = "raw" THEN c ELSE [task |-> t, ids |-> f.ids]
      BY <1>9, <1>18, <1>19, <2>2 DEF ActiveInBody
    <3>4. ContextInv(t, active[t], 1)'
      BY <1>7, <1>10, <1>19, <3>2, <3>3 DEF ContextInv, Frame
    <3> QED BY <1>10, <1>17, <2>2, <3>4
  <2> QED BY <2>1, <2>2
<1>22. stack'[t][1].kind = "txn" => ContextInv(t, stack[t][1].prev, 0)'
  <2> SUFFICES ASSUME f.kind = "txn" PROVE ContextInv(t, stack[t][1].prev, 0)'
    BY <1>10
  <2>1. f.prev.task # t
    BY <1>20 DEF ContextInv
  <2> QED BY <1>10, <2>1 DEF ContextInv
<1>23. ContextsInv(t)'
  BY <1>10, <1>21, <1>22 DEF ContextsInv
<1> QED BY <1>11, <1>12, <1>16, <1>23

\* Every step keeps the order in which the tasks acquire.
LEMMA OrderStep ==
  ASSUME OwnershipInv, BodiesInv, OrderInv, [Next]_vars
  PROVE  OrderInv'
<1>1. ASSUME NEW t \in Tasks, NEW ids \in SUBSET Devices, EnterTransaction(t, ids)
      PROVE  OrderInv'
  BY <1>1, EnterTransactionOrder
<1>2. ASSUME NEW t \in Tasks, NEW ids \in SUBSET Devices, EnterRaw(t, ids)
      PROVE  OrderInv'
  BY <1>2, EnterRawOrder
<1>3. ASSUME UNCHANGED <<inode, flocks, slot, active, stack>> PROVE OrderInv'
  BY <1>3, OrderKept DEF OrderInv, NeverReplaced, HeldInv, OwnedByCurrentTask, SlotOf
<1>4. ASSUME NEW t \in Tasks, NEW d \in Devices, TryLock(t, d)
      PROVE  OrderInv'
  BY <1>4, TryLockOrder
<1>5. ASSUME NEW t \in Tasks, NEW d \in Devices, GiveUp(t, d) \/ Unavailable(t, d)
      PROVE  OrderInv'
  BY <1>5, PopScopeOrder DEF GiveUp, Unavailable, Acquiring
<1>6. ASSUME NEW t \in Tasks, Leave(t)
      PROVE  OrderInv'
  BY <1>6, PopScopeOrder DEF Leave
<1>7. ASSUME NEW t \in Tasks, NEW u \in Tasks, Spawn(t, u) PROVE OrderInv'
  <2> SUFFICES ASSUME NeverReplaced
               PROVE  HeldInv' /\ \A v \in Tasks : ContextsInv(v)' /\ LadderInv(v)'
    BY <1>7 DEF OrderInv, NeverReplaced, Spawn
  <2>1. HeldInv /\ \A v \in Tasks : ContextsInv(v) /\ LadderInv(v)
    BY DEF OrderInv
  <2>2. /\ UNCHANGED <<flocks, slot, stack>> /\ stack[u] = <<>> /\ active[t].task # u
        /\ active'[u] = active[t] /\ \A v \in Tasks : v # u => active'[v] = active[v]
    BY <1>7 DEF Spawn, Referenced, OwnershipInv, TypeOK
  <2>3. HeldInv' /\ LadderInv(u)'
    BY <2>1, <2>2 DEF HeldInv, LadderInv
  <2>4. ContextsInv(u)'
    <3>1. ContextInv(u, active[u], 0)'
      BY <2>2 DEF ContextInv
    <3>2. ~Acquiring(u)' /\ Len(stack'[u]) = 0 /\ DOMAIN stack'[u] = {}
      BY <2>2 DEF Acquiring
    <3> QED BY <3>1, <3>2 DEF ContextsInv
  <2>5. ASSUME NEW v \in Tasks, v # u PROVE ContextsInv(v)' /\ LadderInv(v)'
    BY <2>1, <2>2, <2>5, OrderKept DEF OwnedByCurrentTask, SlotOf
  <2> QED BY <2>3, <2>4, <2>5
<1>8. ASSUME NEW w \in Workers, Crash(w) PROVE OrderInv'
  <2> SUFFICES ASSUME NeverReplaced
               PROVE  HeldInv' /\ \A v \in Tasks : ContextsInv(v)' /\ LadderInv(v)'
    BY <1>8 DEF OrderInv, NeverReplaced, Crash
  <2>1. HeldInv /\ \A v \in Tasks : ContextsInv(v) /\ LadderInv(v)
    BY DEF OrderInv
  <2>2. HeldInv'
    BY <1>8, <2>1 DEF Crash, HeldInv, OwnershipInv, TypeOK, Flock
  <2>3. ASSUME NEW v \in Tasks, WorkerOf[v] = w PROVE ContextsInv(v)' /\ LadderInv(v)'
    <3>1. stack'[v] = <<>> /\ active'[v].task # v
      BY <1>8, <2>3, OwnershipAssumption DEF Crash, NoActive
    <3>2. ContextInv(v, active[v], 0)'
      BY <3>1 DEF ContextInv
    <3>3. ~Acquiring(v)' /\ Len(stack'[v]) = 0 /\ DOMAIN stack'[v] = {}
      BY <3>1 DEF Acquiring
    <3> QED BY <3>2, <3>3 DEF ContextsInv, LadderInv
  <2>4. ASSUME NEW v \in Tasks, WorkerOf[v] # w PROVE ContextsInv(v)' /\ LadderInv(v)'
    <3>1. stack'[v] = stack[v] /\ active'[v] = active[v]
      BY <1>8, <2>4 DEF Crash
    <3>2. slot'[WorkerOf[v]] = slot[WorkerOf[v]]
      BY <1>8, <2>4, OwnershipAssumption DEF Crash, OwnershipInv, TypeOK
    <3> QED BY <2>1, <3>1, <3>2, OrderKept DEF OwnedByCurrentTask, SlotOf
  <2> QED BY <2>2, <2>3, <2>4
<1>9. ASSUME NEW d \in Devices, ReplaceFile(d) PROVE OrderInv'
  <2>1. inode'[d] # 1
    BY <1>9, OwnershipAssumption DEF ReplaceFile, OwnershipInv, TypeOK, Inodes
  <2> QED BY <2>1 DEF OrderInv, NeverReplaced
<1> QED BY <1>1, <1>2, <1>3, <1>4, <1>5, <1>6, <1>7, <1>8, <1>9
        DEF Next, AcquireStep, OpenLock, vars

\* A waiting task waits for a radio of lower rank than the one its holder waits
\* for: the holder has it already, and acquires in order.
LEMMA WaitsUpward ==
  ASSUME OwnershipInv, OrderInv, NeverReplaced, NEW t \in Tasks, NEW u \in Tasks,
         WaitsFor(t, u), Acquiring(u), NEW d \in Devices, NextTarget(t, d),
         NEW e \in Devices, NextTarget(u, e)
  PROVE  Rank[d] < Rank[e]
<1>1. PICK r \in flocks : r.task = u /\ NextTarget(t, r.dev)
  BY DEF WaitsFor
<1>2. r.dev \in Devices
  BY DEF OwnershipInv, TypeOK, Flock
<1>3. r.dev = d
  BY <1>1, <1>2, OwnershipAssumption DEF NextTarget
<1>4. stack[u] # <<>> /\ d \in stack[u][1].got
  BY <1>1, <1>3 DEF OrderInv, HeldInv
<1>5. Top(u) = stack[u][1] /\ 1 \in DOMAIN stack[u]
  <2>1. PICK n \in Nat \ {0} : n = Len(stack[u])
    BY <1>4, TopType DEF OwnershipInv
  <2>2. DOMAIN stack[u] = 1 .. n
    BY <2>1 DEF OwnershipInv, TypeOK
  <2>3. n \in 1 .. n /\ 1 \in 1 .. n /\ (n > 1 \/ n = 1)
    BY ONLY n \in Nat \ {0}
  <2>4. ~(n > 1)
    BY <2>1, <2>2, <2>3 DEF OrderInv, LadderInv, Acquiring, Top
  <2> QED BY <2>1, <2>2, <2>3, <2>4 DEF Top
<1> QED BY <1>4, <1>5 DEF OrderInv, LadderInv, Acquiring, NextTarget

\* Among finitely many radios one has the highest rank: the fewest above it.
LEMMA HighestRadio ==
  ASSUME IsFiniteSet(Devices), NEW W \in SUBSET Devices, W # {}
  PROVE  \E d \in W : \A e \in W : ~(Rank[d] < Rank[e])
<1> DEFINE Above(d) == {e \in Devices : Rank[d] < Rank[e]}
           C == {Cardinality(Above(d)) : d \in W}
<1>1. \A d \in Devices : IsFiniteSet(Above(d)) /\ Cardinality(Above(d)) \in Nat
  BY FS_Subset, FS_CardinalityType
<1>2. C \subseteq Nat /\ C # {}
  BY <1>1
<1>3. PICK x \in C : \A y \in C : <<y, x>> \notin OpToRel(<, Nat)
  BY <1>2, NatLessThanWellFounded, WFMin
<1>4. \A y \in C : ~(y < x)
  BY <1>2, <1>3 DEF OpToRel
<1>5. PICK d \in W : x = Cardinality(Above(d))
  OBVIOUS
<1>6. ASSUME NEW e \in W, Rank[d] < Rank[e] PROVE FALSE
  <2>1. Above(e) \in SUBSET Above(d) /\ Above(e) # Above(d)
    BY <1>6, OwnershipAssumption
  <2>2. /\ Cardinality(Above(e)) <= Cardinality(Above(d))
        /\ Cardinality(Above(e)) # Cardinality(Above(d))
    BY <1>1, <2>1, FS_Subset
  <2>3. PICK y \in C : y = Cardinality(Above(e))
    OBVIOUS
  <2>4. y <= x /\ y # x /\ x \in Nat /\ y \in Nat
    BY <1>2, <1>5, <2>2, <2>3
  <2>5. y < x
    BY ONLY <2>4
  <2> QED BY <1>4, <2>5
<1> QED BY <1>6

\* Of tasks that all wait for each other, the one whose next radio has the
\* highest rank waits for nobody.
LEMMA OrderExcludesCycles ==
  ASSUME IsFiniteSet(Devices), OwnershipInv, OrderInv
  PROVE  NoCircularWait
<1> SUFFICES ASSUME NeverReplaced, NEW S \in SUBSET Tasks, S # {},
                    \A t \in S : \E u \in S : WaitsFor(t, u)
             PROVE  FALSE
  BY DEF NoCircularWait, NeverReplaced
<1> DEFINE W == {d \in Devices : \E t \in S : NextTarget(t, d)}
<1>1. ASSUME NEW t \in S PROVE Acquiring(t) /\ \E d \in W : NextTarget(t, d)
  <2>1. PICK u \in S : WaitsFor(t, u)
    OBVIOUS
  <2>2. PICK r \in flocks : NextTarget(t, r.dev)
    BY <2>1 DEF WaitsFor
  <2>3. r.dev \in Devices
    BY DEF OwnershipInv, TypeOK, Flock
  <2> QED BY <2>1, <2>2, <2>3 DEF WaitsFor
<1>2. PICK d \in W : \A e \in W : ~(Rank[d] < Rank[e])
  <2>1. W \in SUBSET Devices /\ W # {}
    BY <1>1
  <2> HIDE DEF W
  <2> QED BY <2>1, HighestRadio
<1>3. PICK t \in S : NextTarget(t, d)
  OBVIOUS
<1>4. PICK u \in S : WaitsFor(t, u)
  OBVIOUS
<1>5. PICK e \in W : NextTarget(u, e)
  BY <1>1
<1>6. Rank[d] < Rank[e]
  BY <1>1, <1>3, <1>4, <1>5, WaitsUpward
<1> QED BY <1>2, <1>6

\* device_transactions.py: sorted acquisition, all-or-nothing borrowing and the
\* refusal to expand a target set exclude deadlock among any number of tasks and
\* any finite number of radios, through any nesting, cancellation and crash.
THEOREM OwnershipNoCircularWait ==
  ASSUME IsFiniteSet(Devices)
  PROVE  Spec => []NoCircularWait
<1>1. Init => BodiesInv /\ OrderInv
  <2> SUFFICES ASSUME Init PROVE BodiesInv /\ OrderInv
    OBVIOUS
  <2>1. BodiesInv /\ HeldInv
    BY DEF Init, BodiesInv, ScopesInv, HeldInv
  <2>2. ASSUME NEW t \in Tasks PROVE ContextsInv(t) /\ LadderInv(t)
    <3>1. ~Acquiring(t) /\ Len(stack[t]) = 0 /\ DOMAIN stack[t] = {}
      BY DEF Init, Acquiring
    <3>2. ContextInv(t, active[t], 0)
      BY OwnershipAssumption DEF Init, ContextInv, NoActive
    <3> QED BY <3>1, <3>2 DEF ContextsInv, LadderInv
  <2> QED BY <2>1, <2>2 DEF OrderInv
<1>2. OwnershipInv /\ BodiesInv /\ OrderInv /\ [Next]_vars => BodiesInv' /\ OrderInv'
  BY BodiesStep, OrderStep
<1>3. OwnershipInv /\ OrderInv => NoCircularWait
  BY OrderExcludesCycles
<1> QED BY <1>1, <1>2, <1>3, OwnershipInvariant, PTL DEF Spec

-----------------------------------------------------------------------------
(***************************************************************************)
(* Zone changes and zone creations (ZoneJobs)                              *)
(***************************************************************************)

\* Where a job holds its radios: device_transaction() over all participants.
Holding == {"backup", "store", "before", "start", "recheck", "scan", "intend", "send",
            "readback", "record", "verify", "final"}
JobPcs == Holding \cup {"idle", "peek", "refuse", "alone", "lock", "end"}
Paths == {"volume", "latency", "setZone"}
JobOutcomes == {"open", "UNCHANGED", "VERIFIED", "DIVERGED", "BLOCKED", "LOST"}

\* A job, its durable journal and the locals of its handler.
JobRecord ==
  [kind : {"none", "clear", "remove", "create", "remote"}, pc : JobPcs,
   master : Radios \cup {None}, target : Radios \cup {None}, set : SUBSET Radios,
   desired : SUBSET Radios, expected : Zone, before : [Radios -> Zone], left : SUBSET Radios,
   todo : Seq(Paths), volumes : {"preserve", "start", "common"}, rounds : Nat,
   allOk : BOOLEAN, took : BOOLEAN, rejected : BOOLEAN, intents : Nat, writes : Nat,
   outcome : JobOutcomes, dirty : BOOLEAN]

\* Reports, pending adoptions and jobs have their types.
ZoneTypeOK ==
  /\ zone \in [Radios -> Zone]
  /\ late \in [Radios -> [zone : Zone, by : Jobs \cup {None}]]
  /\ job \in [Jobs -> JobRecord]

Changes(r) == r.kind \in {"clear", "remove"}

\* How many intents and writes a job has made where it is.
Tallied(r) ==
  /\ r.pc \in {"idle", "end", "peek", "refuse", "alone", "lock", "backup", "store", "before", "start"}
       => r.intents = 0 /\ r.writes = 0
  /\ r.pc = "recheck" => r.writes = 0 /\ r.intents = IF Changes(r) THEN 1 ELSE 0
  /\ r.pc \in {"scan", "intend"} => r.intents = r.writes
  /\ r.pc = "send" => r.intents = r.writes + 1
  /\ r.pc \in {"readback", "record", "verify", "final"} => r.intents = r.writes /\ r.writes > 0

\* The topology is written once, by both kinds of job.
Once(s) == \A i, n \in 1 .. Len(s) : s[i] = "setZone" /\ s[n] = "setZone" => i = n

\* What is left to write, and the radios it was planned for.
Planned(r) ==
  /\ r.pc = "peek" => r.master \in Radios /\ Changes(r)
  /\ r.pc \in Holding \cup {"lock"} =>
       /\ r.master \in r.set /\ r.desired \subseteq r.set /\ Once(r.todo)
       /\ IF Changes(r) THEN r.todo = <<"setZone">> ELSE r.set = {r.master} \cup r.desired
       /\ r.pc \notin {"verify", "final"} => r.todo # <<>>
  /\ r.pc = "verify" => r.todo = <<>>
  /\ r.pc \in {"scan", "intend", "record", "verify"} => ~Changes(r)
  /\ r.pc = "final" => Changes(r) \/ r.todo = <<>>

\* What holds of a job whatever the radios do.
Shaped(r) ==
  /\ r.outcome = "open" <=> r.pc \notin {"idle", "end"}
  /\ Tallied(r) /\ Planned(r)

\* SelectedScope, of a record.
InScope(r, z) == z.master \in r.set \cup {None} /\ z.members \subseteq r.set

\* The topology is still to be written.
Unsent(r) ==
  \E i \in 1 .. Len(r.todo) :
    r.todo[i] = "setZone" /\ (i > 1 \/ r.pc \notin {"readback", "record", "final"})

\* A radio outside S that follows one of S is listed by it, and one of S that is
\* listed outside follows whoever lists it.
Apart(S, zn) ==
  \A d \in Radios \ S, e \in S :
    /\ zn[d].master = e => zn[e].master = e /\ d \in zn[e].members
    /\ zn[d].master = d /\ e \in zn[d].members => zn[e].master = d

\* The radios found in scope where the job is.
Checked(r) ==
  IF r.pc = "before" THEN r.set \ r.left
  ELSE IF r.pc \in {"start", "recheck", "intend", "send"} THEN r.set ELSE {}

\* Until the topology is written, nothing outside the job interferes with what it
\* read: this is what makes a report that was checked earlier still true.
Guarded(j, r, zn, lt) ==
  r.pc \in Holding /\ ~r.dirty /\ Unsent(r) =>
    /\ Apart(r.set, zn)
    /\ \A d \in Radios : lt[d].by # j
    /\ \A e \in Checked(r) :
         InScope(r, zn[e]) /\ (Changes(r) => zn[e].master = r.master \/ Standalone(zn[e], e))

\* What radio d of the job is told by it.
Told(r, d, z) ==
  \/ d \in r.desired /\ z = [master |-> r.master, members |-> r.desired]
  \/ Changes(r) /\ d \notin r.desired /\ z = Alone

\* What is late in a held radio by the job itself is what the job wants there.
LateKnown(j, r, lt) ==
  r.pc \in Holding /\ ~r.dirty =>
    \A d \in r.set : lt[d].by = j => d # r.master /\ Told(r, d, lt[d].zone)

\* Confirmed, of a record and a view.
Good(r, d, z) ==
  IF Changes(r)
  THEN /\ InScope(r, z)
       /\ IF d = r.master
          THEN IF r.desired = {} THEN Standalone(z, d)
               ELSE z.master = r.master /\ z.members \ {r.master} = r.desired
          ELSE IF d \in r.desired
               THEN z.master = r.master /\ z.members \subseteq r.desired \cup {r.master}
               ELSE Standalone(z, d)
  ELSE z.master = r.master /\ (d = r.master => z.members \ {d} = r.desired)

\* The radios of the current pass, or of the one that ended, that were confirmed.
Read(r) ==
  IF r.pc = "final" THEN r.set
  ELSE IF r.pc = "verify" \/ (r.pc = "readback" /\ Head(r.todo) = "setZone") THEN r.set \ r.left
  ELSE {}

\* What was confirmed is still so.
ReadTrue(r, zn) ==
  ~r.dirty /\ r.allOk => \A d \in Read(r) : Good(r, d, zn[d])

\* What is true of a job and the radios it holds.
JobTrue(j, r, zn, lt) ==
  Shaped(r) /\ Guarded(j, r, zn, lt) /\ LateKnown(j, r, lt) /\ ReadTrue(r, zn)

\* Holds, of a record.
Held(r) == IF r.pc \in Holding THEN r.set ELSE {}

\* The inductive invariant: a confirmed report stays true only because the radios
\* of two jobs are disjoint and a write that is still late is known.
ZoneInv ==
  /\ ZoneTypeOK
  /\ \A j \in Jobs : JobTrue(j, job[j], zone, late)
  /\ \A j, k \in Jobs : j # k => Held(job[j]) \cap Held(job[k]) = {}

\* What a step may do to the tallies and the outcome of a job: the ledger's steps,
\* a write from "send" only and VERIFIED after a final pass that confirmed.
Moves(r, q) ==
  \/ q.intents = r.intents /\ q.writes = r.writes /\ q.outcome = r.outcome
  \/ /\ r.outcome # "open" /\ q.outcome = "open"
     /\ q.intents = 0 /\ q.writes = r.writes
  \/ /\ r.outcome = "open" /\ q.outcome = "open" /\ r.intents = r.writes
     /\ q.intents = r.intents + 1 /\ q.writes = r.writes
  \/ /\ r.outcome = "open" /\ q.outcome = "open" /\ r.pc = "send" /\ r.writes < r.intents
     /\ q.intents = r.intents /\ q.writes = r.writes + 1
  \/ /\ r.outcome = "open" /\ q.outcome \in JobOutcomes \ {"open"}
     /\ q.outcome \in {"BLOCKED", "UNCHANGED"} => r.writes = 0
     /\ q.outcome \in {"VERIFIED", "DIVERGED"} => r.writes > 0
     /\ q.outcome = "VERIFIED" => r.pc = "final" /\ r.allOk
     /\ q.intents = 0 /\ q.writes = 0

ZoneStep == ZoneInv' /\ \A k \in Jobs : Moves(job[k], job'[k])

-----------------------------------------------------------------------------
\* A radio on its own is a zone.
LEMMA AloneZone == Alone \in Zone /\ Alone.master = None /\ Alone.members = {}
  BY DEF Alone, Zone

\* The record before a request.
LEMMA NoJobRecord ==
  /\ NoJob \in JobRecord /\ NoJob.pc = "idle" /\ NoJob.outcome = "LOST"
  /\ NoJob.intents = 0 /\ NoJob.writes = 0
<1>1. [d \in Radios |-> Alone] \in [Radios -> Zone]
  BY AloneZone
<1>2. <<>> \in Seq(Paths)
  OBVIOUS
<1>3. "idle" \in JobPcs /\ "LOST" \in JobOutcomes
  BY DEF JobPcs, JobOutcomes
<1> QED BY <1>1, <1>2, <1>3, AloneZone DEF NoJob, JobRecord

\* The record of a job that ended.
LEMMA EndedRecord ==
  ASSUME NEW j \in Jobs, NEW o \in JobOutcomes
  PROVE  /\ Ended(j, o) \in JobRecord /\ Ended(j, o).pc = "end" /\ Ended(j, o).outcome = o
         /\ Ended(j, o).intents = 0 /\ Ended(j, o).writes = 0
<1>1. "end" \in JobPcs
  BY DEF JobPcs
<1> QED BY <1>1, NoJobRecord DEF Ended, JobRecord

\* A job that holds nothing promises its shape only.
LEMMA Unheld ==
  ASSUME NEW j \in Jobs, NEW r \in JobRecord, r.pc \notin Holding, Shaped(r), NEW zn, NEW lt
  PROVE  JobTrue(j, r, zn, lt) /\ Held(r) = {}
<1>1. Read(r) = {}
  BY DEF Holding, Read
<1> QED BY <1>1 DEF JobTrue, Guarded, LateKnown, ReadTrue, Held

\* A job that ended promises nothing about the radios.
LEMMA EndedTrue ==
  ASSUME NEW j \in Jobs, NEW o \in JobOutcomes \ {"open"}, NEW zn, NEW lt
  PROVE  /\ Ended(j, o) \in JobRecord /\ Held(Ended(j, o)) = {}
         /\ JobTrue(j, Ended(j, o), zn, lt)
         /\ Ended(j, o).outcome = o /\ Ended(j, o).intents = 0 /\ Ended(j, o).writes = 0
<1> DEFINE e == Ended(j, o)
<1>1. e \in JobRecord /\ e.pc = "end" /\ e.outcome = o /\ e.intents = 0 /\ e.writes = 0
  BY EndedRecord
<1> HIDE DEF e
<1>2. Shaped(e)
  BY <1>1 DEF Shaped, Tallied, Planned, Holding
<1>3. e.pc \notin Holding
  BY <1>1 DEF Holding
<1>4. JobTrue(j, e, zn, lt) /\ Held(e) = {}
  BY <1>1, <1>2, <1>3, Unheld
<1> QED BY <1>1, <1>4 DEF e

\* A step of one job that leaves the radios alone.
LEMMA JobMoves ==
  ASSUME ZoneInv, NEW j \in Jobs, NEW r \in JobRecord, Set(j, r), zone' = zone, late' = late,
         JobTrue(j, r, zone, late), Moves(job[j], r),
         \A k \in Jobs \ {j} : Held(r) \cap Held(job[k]) = {}
  PROVE  ZoneStep
<1>1. /\ job' \in [Jobs -> JobRecord] /\ job'[j] = r
      /\ \A k \in Jobs : k # j => job'[k] = job[k]
  BY DEF Set, ZoneInv, ZoneTypeOK
<1>2. ZoneTypeOK'
  BY <1>1 DEF ZoneInv, ZoneTypeOK
<1>3. ASSUME NEW k \in Jobs PROVE JobTrue(k, job'[k], zone', late') /\ Moves(job[k], job'[k])
  <2>1. CASE k = j
    BY <1>1, <2>1
  <2>2. CASE k # j
    <3>1. job'[k] = job[k] /\ JobTrue(k, job[k], zone, late)
      BY <1>1, <2>2 DEF ZoneInv
    <3>2. JobTrue(k, job'[k], zone', late')
      BY <3>1
    <3> QED BY <3>1, <3>2 DEF Moves
  <2> QED BY <2>1, <2>2
<1>4. ASSUME NEW i \in Jobs, NEW k \in Jobs, i # k PROVE Held(job'[i]) \cap Held(job'[k]) = {}
  <2>1. CASE i = j
    BY <1>1, <1>4, <2>1
  <2>2. CASE k = j
    BY <1>1, <1>4, <2>2
  <2>3. CASE i # j /\ k # j
    BY <1>1, <1>4, <2>3 DEF ZoneInv
  <2> QED BY <2>1, <2>2, <2>3
<1>5. ZoneInv'
  BY <1>2, <1>3, <1>4 DEF ZoneInv
<1> QED BY <1>3, <1>5 DEF ZoneStep

\* A job keeps its radios, or gives them up.
LEMMA JobKeeps ==
  ASSUME ZoneInv, NEW j \in Jobs, NEW r \in JobRecord, Set(j, r), zone' = zone, late' = late,
         JobTrue(j, r, zone, late), Moves(job[j], r), Held(r) \in {{}, Held(job[j])}
  PROVE  ZoneStep
<1>1. \A k \in Jobs \ {j} : Held(job[j]) \cap Held(job[k]) = {}
  BY DEF ZoneInv
<1>2. \A k \in Jobs \ {j} : Held(r) \cap Held(job[k]) = {}
  BY <1>1
<1> QED BY <1>2, JobMoves

\* A job ends with an outcome its writes allow.
LEMMA JobEnds ==
  ASSUME ZoneInv, NEW j \in Jobs, NEW o \in JobOutcomes \ {"open"}, Open(j), Set(j, Ended(j, o)),
         zone' = zone, late' = late,
         o \in {"BLOCKED", "UNCHANGED"} => job[j].writes = 0,
         o \in {"VERIFIED", "DIVERGED"} => job[j].writes > 0,
         o = "VERIFIED" => job[j].pc = "final" /\ job[j].allOk
  PROVE  ZoneStep
<1> DEFINE e == Ended(j, o)
<1>1. /\ e \in JobRecord /\ Held(e) = {} /\ JobTrue(j, e, zone, late)
      /\ e.outcome = o /\ e.intents = 0 /\ e.writes = 0
  BY EndedTrue
<1>2. Set(j, e)
  OBVIOUS
<1> HIDE DEF e
<1>3. Moves(job[j], e)
  BY <1>1 DEF Moves, Open
<1> QED BY <1>1, <1>2, <1>3, JobKeeps

\* A failure admits a write exactly when one has left.
LEMMA JobFails ==
  ASSUME ZoneInv, NEW j \in Jobs, Open(j), Set(j, Failed(j)), zone' = zone, late' = late
  PROVE  ZoneStep
<1> DEFINE o == FailureOutcome(j)
<1>1. /\ o \in JobOutcomes \ {"open", "VERIFIED", "UNCHANGED"}
      /\ o = "BLOCKED" => job[j].writes = 0
      /\ o = "DIVERGED" => job[j].writes > 0
  <2>1. job[j].writes \in Nat
    BY DEF ZoneInv, ZoneTypeOK, JobRecord
  <2> QED BY <2>1 DEF FailureOutcome, JobOutcomes
<1>2. Set(j, Ended(j, o))
  BY DEF Failed
<1> HIDE DEF o
<1> QED BY <1>1, <1>2, JobEnds

\* What a new phase keeps of the record.
LEMMA EnterRecord ==
  ASSUME NEW r \in JobRecord, NEW pc \in JobPcs
  PROVE  /\ Enter(r, pc) \in JobRecord /\ Enter(r, pc).pc = pc
         /\ Enter(r, pc).left = IF pc \in Passes THEN r.set ELSE {}
         /\ Enter(r, pc).kind = r.kind /\ Enter(r, pc).master = r.master
         /\ Enter(r, pc).set = r.set /\ Enter(r, pc).desired = r.desired
         /\ Enter(r, pc).todo = r.todo /\ Enter(r, pc).dirty = r.dirty
         /\ Enter(r, pc).intents = r.intents /\ Enter(r, pc).writes = r.writes
         /\ Enter(r, pc).outcome = r.outcome
<1>1. /\ r.set \in SUBSET Radios /\ {} \in SUBSET Radios /\ r.expected \in Zone
      /\ r.before \in [Radios -> Zone] /\ NoJob.before \in [Radios -> Zone]
  BY NoJobRecord DEF JobRecord
<1> DEFINE left == IF pc \in Passes THEN r.set ELSE {}
           exp == IF pc \in {"backup", "before"} THEN r.expected ELSE Alone
           bef == IF pc \in {"start", "recheck"} THEN r.before ELSE NoJob.before
<1>2. left \in SUBSET Radios /\ exp \in Zone /\ bef \in [Radios -> Zone]
  BY <1>1, AloneZone
<1>3. Enter(r, pc) = [r EXCEPT !.pc = pc, !.left = left, !.allOk = TRUE, !.expected = exp,
                               !.before = bef]
  BY DEF Enter
<1> HIDE DEF left, exp, bef
<1>4. /\ Enter(r, pc) \in JobRecord /\ Enter(r, pc).pc = pc /\ Enter(r, pc).left = left
      /\ Enter(r, pc).kind = r.kind /\ Enter(r, pc).master = r.master
      /\ Enter(r, pc).set = r.set /\ Enter(r, pc).desired = r.desired
      /\ Enter(r, pc).todo = r.todo /\ Enter(r, pc).dirty = r.dirty
      /\ Enter(r, pc).intents = r.intents /\ Enter(r, pc).writes = r.writes
      /\ Enter(r, pc).outcome = r.outcome
  <2>1. Enter(r, pc) \in JobRecord
    <3> DEFINE r1 == [r EXCEPT !.pc = pc, !.left = left]
               r2 == [r1 EXCEPT !.allOk = TRUE, !.expected = exp, !.before = bef]
    <3>1. r1 \in JobRecord
      BY <1>2 DEF JobRecord
    <3>2. Enter(r, pc) = r2
      BY <1>3
    <3> HIDE DEF r1
    <3>3. r2 \in JobRecord
      BY <1>2, <3>1 DEF JobRecord
    <3> QED BY <3>2, <3>3
  <2>2. /\ Enter(r, pc).pc = pc /\ Enter(r, pc).left = left
        /\ Enter(r, pc).kind = r.kind /\ Enter(r, pc).master = r.master
        /\ Enter(r, pc).set = r.set /\ Enter(r, pc).desired = r.desired
    BY <1>3 DEF JobRecord
  <2>3. /\ Enter(r, pc).todo = r.todo /\ Enter(r, pc).dirty = r.dirty
        /\ Enter(r, pc).intents = r.intents /\ Enter(r, pc).writes = r.writes
        /\ Enter(r, pc).outcome = r.outcome
    BY <1>3 DEF JobRecord
  <2> QED BY <2>1, <2>2, <2>3
<1> QED BY <1>4 DEF left

\* The same request, further on.
SameJob(r, q) ==
  /\ q.kind = r.kind /\ q.master = r.master /\ q.set = r.set /\ q.desired = r.desired
  /\ q.dirty = r.dirty

\* A job that goes on with the radios it holds, and has checked no radio but
\* those it had checked or found in scope now.
LEMMA Carried ==
  ASSUME NEW j \in Jobs, NEW r \in JobRecord, NEW q \in JobRecord, NEW zn, NEW lt,
         JobTrue(j, r, zn, lt), r.pc \in Holding, q.pc \in Holding, SameJob(r, q), Shaped(q),
         Unsent(q) => Unsent(r), ReadTrue(q, zn),
         \A e \in Checked(q) :
           \/ e \in Checked(r)
           \/ InScope(r, zn[e]) /\ (Changes(r) => zn[e].master = r.master \/ Standalone(zn[e], e))
  PROVE  JobTrue(j, q, zn, lt) /\ Held(q) = Held(r)
<1>1. LateKnown(j, q, lt)
  BY DEF JobTrue, LateKnown, SameJob, Told, Changes
<1>2. Guarded(j, q, zn, lt)
  <2> SUFFICES ASSUME ~q.dirty, Unsent(q)
               PROVE  /\ Apart(q.set, zn)
                      /\ \A d \in Radios : lt[d].by # j
                      /\ \A e \in Checked(q) :
                           /\ InScope(q, zn[e])
                           /\ Changes(q) => zn[e].master = q.master \/ Standalone(zn[e], e)
    BY DEF Guarded
  <2>1. /\ Apart(r.set, zn) /\ \A d \in Radios : lt[d].by # j
        /\ \A e \in Checked(r) : InScope(r, zn[e])
             /\ (Changes(r) => zn[e].master = r.master \/ Standalone(zn[e], e))
    BY DEF JobTrue, Guarded, SameJob
  <2>2. \A e \in Checked(q) : InScope(r, zn[e])
          /\ (Changes(r) => zn[e].master = r.master \/ Standalone(zn[e], e))
    BY <2>1
  <2>3. \A z : InScope(q, z) <=> InScope(r, z)
    BY DEF InScope, SameJob
  <2>4. Changes(q) <=> Changes(r)
    BY DEF Changes, SameJob
  <2> QED BY <2>1, <2>2, <2>3, <2>4 DEF SameJob
<1>3. Held(q) = Held(r)
  BY DEF Held, SameJob
<1> QED BY <1>1, <1>2, <1>3 DEF JobTrue

\* A phase before the write does not count the topology as sent.
LEMMA StillUnsent ==
  ASSUME NEW r \in JobRecord, NEW q \in JobRecord, q.todo = r.todo, Unsent(q),
         r.pc \in {"readback", "record", "final"} => q.pc \in {"readback", "record", "final"}
  PROVE  Unsent(r)
  BY DEF Unsent

\* A job goes on with what it holds.
LEMMA GoesOn ==
  ASSUME ZoneInv, NEW j \in Jobs, NEW q \in JobRecord, Set(j, q), zone' = zone, late' = late,
         job[j].pc \in Holding, q.pc \in Holding, SameJob(job[j], q), Shaped(q),
         Unsent(q) => Unsent(job[j]), ReadTrue(q, zone), Moves(job[j], q),
         \A e \in Checked(q) :
           \/ e \in Checked(job[j])
           \/ /\ InScope(job[j], zone[e])
              /\ Changes(job[j]) => zone[e].master = job[j].master \/ Standalone(zone[e], e)
  PROVE  ZoneStep
<1>1. job[j] \in JobRecord /\ JobTrue(j, job[j], zone, late)
  BY DEF ZoneInv, ZoneTypeOK
<1>2. JobTrue(j, q, zone, late) /\ Held(q) = Held(job[j])
  BY <1>1, Carried
<1> QED BY <1>2, JobKeeps

-----------------------------------------------------------------------------
\* The requests of a creation hold the topology once.
LEMMA EachPath ==
  ASSUME NEW n \in Nat, NEW p \in Paths \ {"setZone"}
  PROVE  /\ Each(p, n) \in Seq(Paths) /\ Len(Each(p, n)) = n
         /\ \A i \in 1 .. Len(Each(p, n)) : Each(p, n)[i] # "setZone"
  BY DEF Each

\* Two plans without the topology.
LEMMA JoinedPaths ==
  ASSUME NEW s \in Seq(Paths), NEW t \in Seq(Paths),
         \A i \in 1 .. Len(s) : s[i] # "setZone", \A i \in 1 .. Len(t) : t[i] # "setZone"
  PROVE  /\ s \o t \in Seq(Paths)
         /\ \A i \in 1 .. Len(s \o t) : (s \o t)[i] # "setZone"
<1>1. s \o t \in Seq(Paths) /\ Len(s \o t) = Len(s) + Len(t)
  OBVIOUS
<1>2. ASSUME NEW i \in 1 .. Len(s \o t) PROVE (s \o t)[i] # "setZone"
  <2>1. CASE i <= Len(s)
    BY <1>1, <2>1
  <2>2. CASE i > Len(s)
    <3>1. i - Len(s) \in 1 .. Len(t) /\ (s \o t)[i] = t[i - Len(s)]
      BY <1>1, <2>2
    <3> QED BY <3>1
  <2> QED BY <2>1, <2>2
<1> QED BY <1>1, <1>2

\* _multiroom_set(): one topology write, between the settings.
LEMMA WritesOnce ==
  ASSUME NEW n \in Nat, NEW v
  PROVE  Writes(n, v) \in Seq(Paths) /\ Once(Writes(n, v)) /\ Writes(n, v) # <<>>
<1> DEFINE a == IF v = "start" THEN Each("volume", n) ELSE <<>>
           b == Each("latency", n)
           c == IF v = "common" THEN Each("volume", n) \o Each("volume", n) ELSE <<>>
           clean(s) == s \in Seq(Paths) /\ \A i \in 1 .. Len(s) : s[i] # "setZone"
<1>1. clean(Each("volume", n)) /\ clean(b) /\ clean(<<>>)
  BY EachPath DEF Paths
<1>2. clean(a) /\ clean(c)
  <2>1. clean(Each("volume", n) \o Each("volume", n))
    BY <1>1, JoinedPaths
  <2> QED BY <1>1, <2>1
<1>3. clean(a \o b)
  BY <1>1, <1>2, JoinedPaths
<1>4. Writes(n, v) = ((a \o b) \o <<"setZone">>) \o c
  BY DEF Writes
<1> DEFINE f == a \o b
           g == f \o <<"setZone">>
           h == g \o c
<1>5. clean(f) /\ clean(c)
  BY <1>2, <1>3
<1> HIDE DEF a, b, c, f
<1>6. /\ g \in Seq(Paths) /\ Len(g) = Len(f) + 1 /\ g[Len(f) + 1] = "setZone"
      /\ \A i \in 1 .. Len(f) : g[i] = f[i]
  BY <1>5 DEF Paths
<1> HIDE DEF g
<1>7. /\ h \in Seq(Paths) /\ Len(h) = Len(g) + Len(c)
      /\ \A i \in 1 .. Len(g) : h[i] = g[i]
      /\ \A i \in Len(g) + 1 .. Len(h) : h[i] = c[i - Len(g)] /\ i - Len(g) \in 1 .. Len(c)
  BY <1>5, <1>6
<1> HIDE DEF h
<1>8. ASSUME NEW i \in 1 .. Len(h), h[i] = "setZone" PROVE i = Len(f) + 1
  <2>1. Len(f) \in Nat /\ Len(c) \in Nat
    BY <1>5
  <2>2. CASE i <= Len(f)
    <3>1. i \in 1 .. Len(f) /\ i \in 1 .. Len(g)
      BY <1>6, <2>1, <2>2
    <3>2. h[i] = g[i] /\ g[i] = f[i] /\ f[i] # "setZone"
      BY <1>5, <1>6, <1>7, <3>1
    <3> QED BY <1>8, <3>2
  <2>3. CASE i > Len(f) + 1
    <3>1. i \in Len(g) + 1 .. Len(h)
      BY <1>6, <1>7, <2>1, <2>3
    <3>2. h[i] = c[i - Len(g)] /\ i - Len(g) \in 1 .. Len(c)
      BY <1>7, <3>1
    <3>3. c[i - Len(g)] # "setZone"
      BY <1>5, <3>2
    <3> QED BY <1>8, <3>2, <3>3
  <2> QED BY <2>1, <2>2, <2>3
<1>9. h # <<>>
  <2>1. Len(f) \in Nat /\ Len(c) \in Nat
    BY <1>5
  <2>2. Len(h) > 0
    BY <1>6, <1>7, <2>1
  <2> QED BY <2>2
<1>10. Once(h)
  BY <1>8 DEF Once
<1>11. Writes(n, v) = h
  BY <1>4 DEF f, g, h
<1> QED BY <1>7, <1>9, <1>10, <1>11

-----------------------------------------------------------------------------
\* The invariant, of one job.
LEMMA JobHere ==
  ASSUME ZoneInv, NEW j \in Jobs
  PROVE  /\ job[j] \in JobRecord /\ Shaped(job[j]) /\ Tallied(job[j]) /\ Planned(job[j])
         /\ Guarded(j, job[j], zone, late) /\ LateKnown(j, job[j], late) /\ ReadTrue(job[j], zone)
         /\ Open(j) <=> job[j].pc \notin {"idle", "end"}
         /\ zone \in [Radios -> Zone] /\ late \in [Radios -> [zone : Zone, by : Jobs \cup {None}]]
  BY DEF ZoneInv, ZoneTypeOK, JobTrue, Shaped, Open

\* A request before its participants are held.
LEMMA Asked ==
  ASSUME ZoneInv, NEW j \in Jobs, NEW r \in JobRecord, Set(j, r), zone' = zone, late' = late,
         job[j].pc = "idle" \/ (job[j].pc = "peek" /\ Open(j)),
         r.pc \in {"peek", "refuse", "alone", "lock"}, r.outcome = "open",
         r.intents = 0, r.writes = 0, Planned(r)
  PROVE  ZoneStep
<1>1. Shaped(r)
  BY DEF Shaped, Tallied
<1>2. r.pc \notin Holding
  BY DEF Holding
<1>3. JobTrue(j, r, zone, late) /\ Held(r) = {}
  BY <1>1, <1>2, Unheld
<1>4. Moves(job[j], r)
  <2>1. job[j].intents = 0 /\ job[j].writes = 0
    BY JobHere DEF Tallied
  <2> QED BY <2>1, JobHere DEF Moves, Open
<1> QED BY <1>3, <1>4, JobKeeps

\* A creation or a remote start.
LEMMA RequestZoneStep ==
  ASSUME ZoneInv, NEW j \in Jobs, RequestZone(j)
  PROVE  ZoneStep
<1> DEFINE new(m, ms, k, v) ==
             [NoJob EXCEPT !.kind = k, !.pc = "lock", !.master = m, !.set = {m} \cup ms,
                !.desired = ms, !.todo = Writes(Cardinality(ms) + 1, v), !.volumes = v,
                !.outcome = "open"]
<1>1. \E m \in Radios, ms \in SUBSET Radios, k \in {"create", "remote"},
         v \in Volumes \cup {"preserve"} : Set(j, new(m, ms, k, v))
  BY DEF RequestZone
<1>2. PICK m \in Radios, ms \in SUBSET Radios, k \in {"create", "remote"},
           v \in Volumes \cup {"preserve"} : Set(j, new(m, ms, k, v))
  BY <1>1
<1>3. v \in {"preserve", "start", "common"} /\ {m} \cup ms \in SUBSET Radios
  BY ZoneAssumption
<1>10. job[j].pc = "idle" /\ zone' = zone /\ late' = late
  BY DEF RequestZone
<1> DEFINE t == Writes(Cardinality(ms) + 1, v)
<1>4. t \in Seq(Paths) /\ Once(t) /\ t # <<>>
  <2>1. IsFiniteSet(ms)
    BY ZoneAssumption, FS_Subset
  <2>2. Cardinality(ms) + 1 \in Nat
    BY <2>1, FS_CardinalityType
  <2> QED BY <2>2, WritesOnce
<1> DEFINE r1 == [NoJob EXCEPT !.kind = k, !.pc = "lock", !.master = m, !.set = {m} \cup ms]
           r == [r1 EXCEPT !.desired = ms, !.todo = t, !.volumes = v, !.outcome = "open"]
<1>5. Set(j, r)
  BY <1>2
<1> HIDE DEF t
<1>6. "lock" \in JobPcs /\ "open" \in JobOutcomes
  BY DEF JobPcs, JobOutcomes
<1>7. /\ r1 \in JobRecord /\ r1.kind = k /\ r1.pc = "lock" /\ r1.master = m /\ r1.set = {m} \cup ms
      /\ r1.intents = 0 /\ r1.writes = 0
  <2>1. r1 \in JobRecord
    BY <1>3, <1>6, NoJobRecord DEF JobRecord
  <2>2. /\ r1.kind = k /\ r1.pc = "lock" /\ r1.master = m /\ r1.set = {m} \cup ms
        /\ r1.intents = NoJob.intents /\ r1.writes = NoJob.writes
    BY NoJobRecord DEF JobRecord
  <2> QED BY <2>1, <2>2, NoJobRecord
<1> HIDE DEF r1
<1>8. /\ r \in JobRecord /\ r.kind = k /\ r.pc = "lock" /\ r.master = m /\ r.set = {m} \cup ms
      /\ r.desired = ms /\ r.todo = t /\ r.outcome = "open" /\ r.intents = 0 /\ r.writes = 0
  <2>1. r \in JobRecord
    BY <1>3, <1>4, <1>6, <1>7 DEF JobRecord
  <2>2. /\ r.kind = r1.kind /\ r.pc = r1.pc /\ r.master = r1.master /\ r.set = r1.set
        /\ r.desired = ms /\ r.todo = t /\ r.outcome = "open"
        /\ r.intents = r1.intents /\ r.writes = r1.writes
    BY <1>7 DEF JobRecord
  <2> QED BY <1>7, <2>1, <2>2
<1> HIDE DEF r
<1>9. Planned(r)
  BY <1>4, <1>8 DEF Planned, Holding, Changes
<1> QED BY <1>5, <1>8, <1>9, <1>10, Asked

\* A clear.
LEMMA RequestClearStep ==
  ASSUME ZoneInv, NEW j \in Jobs, RequestClear(j)
  PROVE  ZoneStep
<1>1. PICK m \in Radios :
        /\ job[j].pc = "idle"
        /\ Set(j, [NoJob EXCEPT !.kind = "clear", !.pc = "peek", !.master = m, !.outcome = "open"])
        /\ UNCHANGED <<zone, late, outside>>
  BY DEF RequestClear
<1> DEFINE r == [NoJob EXCEPT !.kind = "clear", !.pc = "peek", !.master = m, !.outcome = "open"]
<1>2. "peek" \in JobPcs /\ "open" \in JobOutcomes
  BY DEF JobPcs, JobOutcomes
<1>3. /\ r \in JobRecord /\ r.pc = "peek" /\ r.master = m /\ r.outcome = "open"
      /\ r.intents = NoJob.intents /\ r.writes = NoJob.writes /\ r.kind = "clear"
  BY <1>2, NoJobRecord DEF JobRecord
<1>4. Set(j, r)
  BY <1>1
<1> HIDE DEF r
<1>5. Planned(r)
  BY <1>3 DEF Planned, Holding, Changes
<1> QED BY <1>1, <1>3, <1>4, <1>5, Asked, NoJobRecord

\* A removal, with the coordinators that were asked.
LEMMA RequestRemoveStep ==
  ASSUME ZoneInv, NEW j \in Jobs, RequestRemove(j)
  PROVE  ZoneStep
<1> DEFINE lists(t, d) == zone[d].master # None /\ t \in zone[d].members
           coordinators(t) == IF zone[t].master # None THEN {zone[t].master}
                              ELSE {IF zone[d].master = None THEN d ELSE zone[d].master :
                                      d \in {e \in Radios \ {t} : lists(t, e)}}
           asked(t) == [NoJob EXCEPT !.kind = "remove", !.target = t, !.outcome = "open"]
<1>1. PICK t \in Radios :
        /\ job[j].pc = "idle" /\ zone' = zone /\ late' = late
        /\ \/ \E m \in coordinators(t) \ {t} : Set(j, [asked(t) EXCEPT !.pc = "peek", !.master = m])
           \/ Set(j, [asked(t) EXCEPT !.pc = "refuse"])
           \/ Set(j, [asked(t) EXCEPT !.pc = "alone"])
  BY DEF RequestRemove
<1>2. coordinators(t) \subseteq Radios
  <2>1. \A d \in Radios : zone[d].master \in Radios \cup {None}
    BY JobHere DEF Zone
  <2> QED BY <2>1
<1> HIDE DEF coordinators
<1> DEFINE a == asked(t)
<1>3. /\ a \in JobRecord /\ a.kind = "remove" /\ a.outcome = "open"
      /\ a.intents = 0 /\ a.writes = 0
  <2>1. "open" \in JobOutcomes
    BY DEF JobOutcomes
  <2>2. a \in JobRecord
    BY <2>1, NoJobRecord DEF JobRecord
  <2>3. /\ a.kind = "remove" /\ a.outcome = "open"
        /\ a.intents = NoJob.intents /\ a.writes = NoJob.writes
    BY NoJobRecord DEF JobRecord
  <2> QED BY <2>2, <2>3, NoJobRecord
<1>4. \/ \E m \in coordinators(t) \ {t} : Set(j, [a EXCEPT !.pc = "peek", !.master = m])
      \/ Set(j, [a EXCEPT !.pc = "refuse"])
      \/ Set(j, [a EXCEPT !.pc = "alone"])
  BY <1>1
<1> HIDE DEF a, asked
<1>5. {"peek", "refuse", "alone"} \subseteq JobPcs
  BY DEF JobPcs
<1>6. ASSUME NEW r \in JobRecord, Set(j, r), r.pc \in {"peek", "refuse", "alone"},
             r.pc = "peek" => r.master \in Radios, r.kind = "remove",
             r.outcome = "open", r.intents = 0, r.writes = 0
      PROVE  ZoneStep
  <2>1. Planned(r)
    BY <1>6 DEF Planned, Holding, Changes
  <2> QED BY <1>1, <1>6, <2>1, Asked
<1>7. ASSUME NEW m \in coordinators(t) \ {t}, Set(j, [a EXCEPT !.pc = "peek", !.master = m])
      PROVE  ZoneStep
  <2> DEFINE r == [a EXCEPT !.pc = "peek", !.master = m]
  <2>1. m \in Radios
    BY <1>2
  <2>2. /\ r \in JobRecord /\ r.pc = "peek" /\ r.master = m /\ r.outcome = a.outcome
        /\ r.intents = a.intents /\ r.writes = a.writes /\ r.kind = a.kind
    BY <1>3, <1>5, <2>1 DEF JobRecord
  <2>3. Set(j, r)
    BY <1>7
  <2> HIDE DEF r
  <2> QED BY <1>3, <1>6, <2>1, <2>2, <2>3
<1>8. ASSUME NEW pc \in {"refuse", "alone"}, Set(j, [a EXCEPT !.pc = pc])
      PROVE  ZoneStep
  <2> DEFINE r == [a EXCEPT !.pc = pc]
  <2>1. pc \in JobPcs
    BY <1>5
  <2>2. /\ r \in JobRecord /\ r.pc = pc /\ r.outcome = a.outcome
        /\ r.intents = a.intents /\ r.writes = a.writes /\ r.kind = a.kind
    BY <1>3, <2>1 DEF JobRecord
  <2>3. Set(j, r)
    BY <1>8
  <2> HIDE DEF r
  <2> QED BY <1>3, <1>6, <2>2, <2>3
<1> QED BY <1>4, <1>7, <1>8

\* The routes that answer without a job.
LEMMA AnswerStep ==
  ASSUME ZoneInv, NEW j \in Jobs, Answer(j)
  PROVE  ZoneStep
<1> DEFINE o == IF job[j].pc = "alone" THEN "UNCHANGED" ELSE "BLOCKED"
<1>1. job[j].pc \in {"refuse", "alone"} /\ Set(j, Ended(j, o)) /\ zone' = zone /\ late' = late
  BY DEF Answer
<1>2. Open(j) /\ job[j].writes = 0
  BY <1>1, JobHere DEF Tallied
<1>3. o \in JobOutcomes \ {"open", "VERIFIED", "DIVERGED"}
  BY DEF JobOutcomes
<1> HIDE DEF o
<1> QED BY <1>1, <1>2, <1>3, JobEnds

\* The participants are derived from a report read without a lock.
LEMMA PeekStep ==
  ASSUME ZoneInv, NEW j \in Jobs, Peek(j)
  PROVE  ZoneStep
<1> DEFINE m == job[j].master
           z == zone[m]
           des == IF job[j].kind = "remove" THEN z.members \ {m, job[j].target} ELSE {}
           r1 == [job[j] EXCEPT !.pc = "lock", !.expected = z, !.set = {m} \cup z.members]
           r == [r1 EXCEPT !.desired = des, !.todo = <<"setZone">>]
<1>1. /\ job[j].pc = "peek" /\ zone' = zone /\ late' = late
      /\ Set(j, Failed(j)) \/ Set(j, r)
  BY DEF Peek
<1>2. /\ job[j] \in JobRecord /\ m \in Radios /\ Open(j) /\ job[j].outcome = "open"
      /\ job[j].intents = 0 /\ job[j].writes = 0 /\ Changes(job[j])
  BY <1>1, JobHere DEF Planned, Tallied, Open
<1>3. z \in Zone /\ z.members \subseteq Radios /\ {m} \cup z.members \in SUBSET Radios
  BY <1>2, JobHere DEF Zone
<1>4. CASE Set(j, Failed(j))
  BY <1>1, <1>2, <1>4, JobFails
<1>5. CASE Set(j, r)
  <2>1. "lock" \in JobPcs /\ <<"setZone">> \in Seq(Paths)
    BY DEF JobPcs, Paths
  <2>2. des \in SUBSET Radios /\ des \subseteq z.members
    BY <1>3
  <2> HIDE DEF z, des
  <2>3. /\ r1 \in JobRecord /\ r1.kind = job[j].kind /\ r1.pc = "lock" /\ r1.master = m
        /\ r1.set = {m} \cup z.members /\ r1.outcome = job[j].outcome
        /\ r1.intents = job[j].intents /\ r1.writes = job[j].writes
    <3>1. r1 \in JobRecord
      BY <1>2, <1>3, <2>1 DEF JobRecord
    <3>2. /\ r1.kind = job[j].kind /\ r1.pc = "lock" /\ r1.master = m
          /\ r1.set = {m} \cup z.members /\ r1.outcome = job[j].outcome
          /\ r1.intents = job[j].intents /\ r1.writes = job[j].writes
      BY <1>2 DEF JobRecord
    <3> QED BY <3>1, <3>2
  <2> HIDE DEF r1
  <2>4. /\ r \in JobRecord /\ r.kind = r1.kind /\ r.pc = "lock" /\ r.master = m
        /\ r.set = {m} \cup z.members /\ r.desired = des /\ r.todo = <<"setZone">>
        /\ r.outcome = job[j].outcome
        /\ r.intents = job[j].intents /\ r.writes = job[j].writes
    <3>1. r \in JobRecord
      BY <2>1, <2>2, <2>3 DEF JobRecord
    <3>2. /\ r.kind = r1.kind /\ r.pc = r1.pc /\ r.master = r1.master
          /\ r.set = r1.set /\ r.desired = des /\ r.todo = <<"setZone">>
          /\ r.outcome = r1.outcome /\ r.intents = r1.intents /\ r.writes = r1.writes
      BY <2>3 DEF JobRecord
    <3> QED BY <2>3, <3>1, <3>2
  <2> HIDE DEF r, m
  <2>5. Changes(r)
    BY <1>2, <2>3, <2>4 DEF Changes
  <2>6. Once(<<"setZone">>)
    BY DEF Once
  <2>7. Planned(r)
    BY <2>2, <2>4, <2>5, <2>6 DEF Planned, Holding
  <2> QED BY <1>1, <1>2, <1>5, <2>4, <2>7, Asked
<1> QED BY <1>1, <1>4, <1>5

\* The radios a job holds.
LEMMA HoldsHeld ==
  ASSUME ZoneInv
  PROVE  \A k \in Jobs : Holds(k) = Held(job[k])
<1>1. \A k \in Jobs : job[k].pc \in JobPcs
  BY DEF ZoneInv, ZoneTypeOK, JobRecord
<1> QED BY <1>1 DEF Holds, Held, JobPcs, Holding

\* A job takes its radios while nothing is late and all reports agree, or it is
\* marked.
LEMMA LockStep ==
  ASSUME ZoneInv, NEW j \in Jobs, Lock(j)
  PROVE  ZoneStep
<1> DEFINE r == [job[j] EXCEPT !.dirty = Unsettled]
           pc == IF job[j].kind = "remote" THEN "backup" ELSE "before"
           q == Enter(r, pc)
<1>1. job[j].pc = "lock" /\ Free(j) /\ Set(j, q) /\ zone' = zone /\ late' = late
  BY DEF Lock
<1>2. job[j] \in JobRecord /\ Planned(job[j]) /\ Tallied(job[j]) /\ job[j].outcome = "open"
  BY <1>1, JobHere DEF Open
<1>3. pc \in {"backup", "before"} /\ pc \in JobPcs /\ pc \in Holding /\ pc \in Passes
  BY DEF JobPcs, Holding, Passes
<1>4. Unsettled \in BOOLEAN
  BY DEF Unsettled
<1>5. /\ r \in JobRecord /\ r.dirty = Unsettled /\ r.kind = job[j].kind /\ r.master = job[j].master
      /\ r.set = job[j].set /\ r.desired = job[j].desired /\ r.todo = job[j].todo
      /\ r.intents = job[j].intents /\ r.writes = job[j].writes /\ r.outcome = job[j].outcome
  BY <1>2, <1>4 DEF JobRecord
<1> HIDE DEF r, pc
<1>6. /\ q \in JobRecord /\ q.pc = pc /\ q.left = q.set
      /\ q.dirty = Unsettled /\ q.kind = job[j].kind /\ q.master = job[j].master
      /\ q.set = job[j].set /\ q.desired = job[j].desired /\ q.todo = job[j].todo
      /\ q.intents = job[j].intents /\ q.writes = job[j].writes /\ q.outcome = job[j].outcome
  BY <1>3, <1>5, EnterRecord
<1>7. Set(j, q)
  BY <1>1
<1> HIDE DEF q
<1>8. q.intents = 0 /\ q.writes = 0 /\ Moves(job[j], q)
  BY <1>1, <1>2, <1>6 DEF Tallied, Moves
<1>9. Shaped(q)
  <2>1. Planned(q)
    BY <1>1, <1>2, <1>3, <1>6 DEF Planned, Holding, Changes
  <2> QED BY <1>2, <1>3, <1>6, <1>8, <2>1 DEF Shaped, Tallied
<1>10. q.set \subseteq Radios
  BY <1>6 DEF JobRecord
<1>11. ~q.dirty => /\ \A d \in Radios : late[d].by # j
                   /\ Apart(q.set, zone)
  <2> SUFFICES ASSUME ~Unsettled PROVE (\A d \in Radios : late[d].by # j) /\ Apart(q.set, zone)
    BY <1>6
  <2>1. \A d \in Radios : late[d].by # j
    BY ZoneAssumption DEF Unsettled
  <2>2. ASSUME NEW d \in Radios, NEW e \in Radios, d # e
        PROVE  zone[d].master = e <=> zone[e].master = e /\ d \in zone[e].members
    BY <2>2 DEF Unsettled
  <2>3. Apart(q.set, zone)
    BY <1>10, <2>2 DEF Apart
  <2> QED BY <2>1, <2>3
<1>12. Checked(q) = {} /\ Read(q) = {}
  BY <1>3, <1>6 DEF Checked, Read
<1>13. JobTrue(j, q, zone, late)
  <2>1. Guarded(j, q, zone, late)
    BY <1>11, <1>12 DEF Guarded
  <2>2. LateKnown(j, q, late)
    BY <1>10, <1>11 DEF LateKnown
  <2>3. ReadTrue(q, zone)
    BY <1>12 DEF ReadTrue
  <2> QED BY <1>9, <2>1, <2>2, <2>3 DEF JobTrue
<1>14. \A k \in Jobs \ {j} : Held(q) \cap Held(job[k]) = {}
  <2>1. Held(q) = job[j].set
    BY <1>3, <1>6 DEF Held
  <2> QED BY <1>1, <2>1, HoldsHeld DEF Free
<1> QED BY <1>1, <1>6, <1>7, <1>8, <1>13, <1>14, JobMoves

\* A lock that is refused.
LEMMA LockDeniedStep ==
  ASSUME ZoneInv, NEW j \in Jobs, LockDenied(j)
  PROVE  ZoneStep
<1>1. Open(j) /\ Set(j, Failed(j)) /\ zone' = zone /\ late' = late
  BY JobHere DEF LockDenied
<1> QED BY <1>1, JobFails

\* The failures that end a job.
LEMMA FailingSteps ==
  ASSUME ZoneInv, NEW j \in Jobs, LookFails(j) \/ CommitFails(j) \/ CreationAborts(j)
  PROVE  ZoneStep
<1>1. Open(j) /\ Set(j, Failed(j)) /\ zone' = zone /\ late' = late
  BY JobHere DEF LookFails, CommitFails, CreationAborts
<1> QED BY <1>1, JobFails

\* The process dies.
LEMMA CrashStep ==
  ASSUME ZoneInv, NEW j \in Jobs, ZoneCrash(j)
  PROVE  ZoneStep
<1>1. Open(j) /\ Set(j, Ended(j, "LOST")) /\ zone' = zone /\ late' = late
  BY DEF ZoneCrash
<1>2. "LOST" \in JobOutcomes \ {"open"}
  BY DEF JobOutcomes
<1> QED BY <1>1, <1>2, JobEnds

-----------------------------------------------------------------------------
\* The passes before a write.
LEMMA SeenRecord ==
  ASSUME ZoneInv, NEW j \in Jobs, NEW d \in job[j].left, NEW pc \in JobPcs \ Passes
  PROVE  /\ Seen(j, d, pc) \in JobRecord /\ SameJob(job[j], Seen(j, d, pc))
         /\ Seen(j, d, pc).todo = job[j].todo /\ Seen(j, d, pc).outcome = job[j].outcome
         /\ Seen(j, d, pc).intents = job[j].intents /\ Seen(j, d, pc).writes = job[j].writes
         /\ \/ Seen(j, d, pc).pc = pc /\ job[j].left = {d}
            \/ Seen(j, d, pc).pc = job[j].pc /\ Seen(j, d, pc).left = job[j].left \ {d}
<1>1. job[j] \in JobRecord
  BY JobHere
<1>2. CASE job[j].left = {d}
  <2>1. Seen(j, d, pc) = Enter(job[j], pc)
    BY <1>2 DEF Seen
  <2> QED BY <1>1, <1>2, <2>1, EnterRecord DEF SameJob
<1>3. CASE job[j].left # {d}
  <2> DEFINE l == job[j].left \ {d}
             q == [job[j] EXCEPT !.left = l]
  <2>1. Seen(j, d, pc) = q
    BY <1>3 DEF Seen
  <2>2. l \in SUBSET Radios
    BY <1>1 DEF JobRecord
  <2>3. /\ q \in JobRecord /\ q.pc = job[j].pc /\ q.left = l /\ q.kind = job[j].kind
        /\ q.master = job[j].master /\ q.set = job[j].set /\ q.desired = job[j].desired
        /\ q.dirty = job[j].dirty /\ q.todo = job[j].todo /\ q.outcome = job[j].outcome
        /\ q.intents = job[j].intents /\ q.writes = job[j].writes
    BY <1>1, <2>2 DEF JobRecord
  <2> HIDE DEF q
  <2> QED BY <2>1, <2>3 DEF SameJob
<1> QED BY <1>2, <1>3

\* Steps that change neither the tallies nor the plan.
LEMMA SameShape ==
  ASSUME ZoneInv, NEW j \in Jobs, NEW q \in JobRecord, SameJob(job[j], q),
         q.todo = job[j].todo, q.outcome = job[j].outcome,
         q.intents = job[j].intents, q.writes = job[j].writes,
         \/ q.pc = job[j].pc
         \/ job[j].pc = "backup" /\ q.pc = "store"
         \/ job[j].pc = "store" /\ q.pc = "before"
         \/ job[j].pc = "before" /\ q.pc = "start"
         \/ job[j].pc = "start" /\ q.pc = "recheck" /\ ~Changes(job[j])
         \/ job[j].pc = "recheck" /\ q.pc = "send" /\ Changes(job[j])
         \/ job[j].pc = "recheck" /\ q.pc = "scan" /\ ~Changes(job[j])
         \/ job[j].pc = "scan" /\ q.pc = "intend"
  PROVE  Shaped(q) /\ Moves(job[j], q)
<1>1. /\ Shaped(job[j]) /\ Tallied(job[j]) /\ Planned(job[j])
      /\ job[j].intents \in Nat /\ job[j].writes \in Nat
  BY JobHere DEF JobRecord
<1>2. Changes(q) <=> Changes(job[j])
  BY DEF SameJob, Changes
<1>3. Tallied(q)
  BY <1>1, <1>2 DEF Tallied
<1>4. Planned(q)
  BY <1>1, <1>2 DEF Planned, SameJob, Holding
<1>5. Shaped(q)
  BY <1>1, <1>3, <1>4 DEF Shaped
<1> QED BY <1>5 DEF Moves

\* Nothing was read back yet.
LEMMA NotRead ==
  ASSUME NEW q \in JobRecord, q.pc \notin {"readback", "verify", "final"}, NEW zn
  PROVE  ReadTrue(q, zn)
  BY DEF ReadTrue, Read

\* One read before a write; a report that was checked stays in scope.
LEMMA LookStep ==
  ASSUME ZoneInv, NEW j \in Jobs, Look(j)
  PROVE  ZoneStep
<1> DEFINE pc2 == CASE job[j].pc = "backup" -> "store"
                    [] job[j].pc = "before" -> "start"
                    [] OTHER -> IF Change(j) THEN "send" ELSE "scan"
<1>1. PICK d \in job[j].left :
        \/ Set(j, Failed(j))
        \/ job[j].pc \in {"backup", "recheck"} /\ Set(j, Seen(j, d, pc2))
        \/ /\ job[j].pc = "before" /\ BeforeAccepted(j, d)
           /\ Set(j, [Seen(j, d, pc2) EXCEPT !.before[d] = zone[d]])
  BY DEF Look
<1>2. job[j].pc \in {"backup", "before", "recheck"} /\ zone' = zone /\ late' = late
  BY DEF Look
<1>3. /\ job[j] \in JobRecord /\ job[j].pc \in Holding /\ Open(j) /\ d \in Radios
      /\ zone[d] \in Zone
  BY <1>2, JobHere DEF Holding, JobRecord
<1>4. /\ pc2 \in JobPcs \ Passes /\ pc2 \in Holding
      /\ job[j].pc = "backup" => pc2 = "store"
      /\ job[j].pc = "before" => pc2 = "start"
      /\ job[j].pc = "recheck" => pc2 = IF Change(j) THEN "send" ELSE "scan"
  BY <1>2 DEF JobPcs, Passes, Holding
<1> HIDE DEF pc2
<1> DEFINE s == Seen(j, d, pc2)
<1>5. /\ s \in JobRecord /\ SameJob(job[j], s)
      /\ s.todo = job[j].todo /\ s.outcome = job[j].outcome
      /\ s.intents = job[j].intents /\ s.writes = job[j].writes
      /\ \/ s.pc = pc2 /\ job[j].left = {d}
         \/ s.pc = job[j].pc /\ s.left = job[j].left \ {d}
  BY <1>4, SeenRecord
<1>6. CASE Set(j, Failed(j))
  BY <1>2, <1>3, <1>6, JobFails
<1>7. ASSUME NEW q \in JobRecord, Set(j, q), SameJob(job[j], q), q.todo = job[j].todo,
             q.outcome = job[j].outcome, q.intents = job[j].intents, q.writes = job[j].writes,
             \/ q.pc = pc2 /\ job[j].left = {d}
             \/ q.pc = job[j].pc /\ q.left = job[j].left \ {d},
             job[j].pc = "before" => BeforeAccepted(j, d)
      PROVE  ZoneStep
  <2>1. Change(j) <=> Changes(job[j])
    BY DEF Change, Changes
  <2>2. Shaped(q) /\ Moves(job[j], q)
    <3>1. \/ q.pc = job[j].pc
          \/ job[j].pc = "backup" /\ q.pc = "store"
          \/ job[j].pc = "before" /\ q.pc = "start"
          \/ job[j].pc = "recheck" /\ q.pc = "send" /\ Changes(job[j])
          \/ job[j].pc = "recheck" /\ q.pc = "scan" /\ ~Changes(job[j])
      BY <1>2, <1>4, <1>7, <2>1
    <3> QED BY <1>7, <3>1, SameShape
  <2>3. q.pc \in Holding /\ q.pc \notin {"readback", "record", "verify", "final"}
    BY <1>2, <1>3, <1>4, <1>7
  <2>4. Unsent(q) => Unsent(job[j])
    BY <1>2, <1>3, <1>7, StillUnsent
  <2>5. ReadTrue(q, zone)
    BY <1>7, <2>3, NotRead
  <2>6. ASSUME NEW e \in Checked(q), e \notin Checked(job[j])
        PROVE  job[j].pc = "before" /\ e = d
    <3>1. q.set = job[j].set
      BY <1>7 DEF SameJob
    <3> QED BY <1>2, <1>4, <1>7, <2>6, <3>1 DEF Checked
  <2>7. job[j].pc = "before" =>
          /\ InScope(job[j], zone[d])
          /\ Changes(job[j]) => zone[d].master = job[j].master \/ Standalone(zone[d], d)
    BY <1>7, <2>1 DEF BeforeAccepted, SelectedScope, InScope
  <2> QED BY <1>2, <1>3, <1>7, <2>2, <2>3, <2>4, <2>5, <2>6, <2>7, GoesOn
<1>8. CASE job[j].pc \in {"backup", "recheck"} /\ Set(j, s)
  <2> HIDE DEF s
  <2> QED BY <1>5, <1>7, <1>8
<1>9. CASE /\ job[j].pc = "before" /\ BeforeAccepted(j, d)
           /\ Set(j, [s EXCEPT !.before[d] = zone[d]])
  <2> HIDE DEF s
  <2> DEFINE b == [s.before EXCEPT ![d] = zone[d]]
             q == [s EXCEPT !.before = b]
  <2>1. b \in [Radios -> Zone]
    BY <1>3, <1>5 DEF JobRecord
  <2>2. Set(j, q)
    BY <1>9
  <2> HIDE DEF b
  <2>3. /\ q \in JobRecord /\ q.pc = s.pc /\ q.left = s.left /\ q.kind = s.kind
        /\ q.master = s.master /\ q.set = s.set /\ q.desired = s.desired
        /\ q.dirty = s.dirty /\ q.todo = s.todo /\ q.outcome = s.outcome
        /\ q.intents = s.intents /\ q.writes = s.writes
    BY <1>5, <2>1 DEF JobRecord
  <2> HIDE DEF q
  <2>4. SameJob(job[j], q)
    BY <1>5, <2>3 DEF SameJob
  <2> QED BY <1>5, <1>7, <1>9, <2>2, <2>3, <2>4
<1> QED BY <1>1, <1>6, <1>8, <1>9

\* The reads before each write of a creation.
LEMMA ScanStep ==
  ASSUME ZoneInv, NEW j \in Jobs, Scan(j)
  PROVE  ZoneStep
<1>1. /\ job[j].pc = "scan" /\ zone' = zone /\ late' = late
      /\ \/ Set(j, Failed(j))
         \/ /\ \A d \in job[j].set : SelectedScope(j, zone[d])
            /\ Set(j, Enter(job[j], "intend"))
  BY DEF Scan
<1>2. /\ job[j] \in JobRecord /\ job[j].pc \in Holding /\ Open(j) /\ ~Changes(job[j])
  BY <1>1, JobHere DEF Holding, Planned
<1>3. CASE Set(j, Failed(j))
  BY <1>1, <1>2, <1>3, JobFails
<1>4. CASE /\ \A d \in job[j].set : SelectedScope(j, zone[d])
           /\ Set(j, Enter(job[j], "intend"))
  <2> DEFINE q == Enter(job[j], "intend")
  <2>1. "intend" \in JobPcs
    BY DEF JobPcs, Holding
  <2>2. /\ q \in JobRecord /\ q.pc = "intend" /\ SameJob(job[j], q)
        /\ q.todo = job[j].todo /\ q.outcome = job[j].outcome
        /\ q.intents = job[j].intents /\ q.writes = job[j].writes /\ q.set = job[j].set
    BY <1>2, <2>1, EnterRecord DEF SameJob
  <2>3. Set(j, q)
    BY <1>4
  <2> HIDE DEF q
  <2>4. Shaped(q) /\ Moves(job[j], q)
    BY <1>1, <2>2, SameShape
  <2>5. Unsent(q) => Unsent(job[j])
    BY <1>1, <1>2, <2>2, StillUnsent
  <2>6. ReadTrue(q, zone)
    BY <2>2, NotRead
  <2>7. \A e \in Checked(q) : InScope(job[j], zone[e])
    BY <1>4, <2>2 DEF Checked, SelectedScope, InScope
  <2>8. q.pc \in Holding
    BY <2>2 DEF Holding
  <2> QED BY <1>1, <1>2, <2>2, <2>3, <2>4, <2>5, <2>6, <2>7, <2>8, GoesOn
<1> QED BY <1>1, <1>3, <1>4

-----------------------------------------------------------------------------
\* The journal's commits.
LEMMA IntendedRecord ==
  ASSUME ZoneInv, NEW j \in Jobs
  PROVE  /\ Intended(j) \in JobRecord /\ SameJob(job[j], Intended(j))
         /\ Intended(j).todo = job[j].todo /\ Intended(j).outcome = job[j].outcome
         /\ Intended(j).intents = job[j].intents + 1 /\ Intended(j).writes = job[j].writes
<1>1. job[j] \in JobRecord
  BY JobHere
<1> DEFINE n == job[j].intents + 1
           q == [job[j] EXCEPT !.intents = n]
<1>2. n \in Nat
  BY <1>1 DEF JobRecord
<1>3. Intended(j) = q
  BY DEF Intended
<1> HIDE DEF n
<1>4. /\ q \in JobRecord /\ q.kind = job[j].kind /\ q.master = job[j].master
      /\ q.set = job[j].set /\ q.desired = job[j].desired /\ q.dirty = job[j].dirty
      /\ q.todo = job[j].todo /\ q.outcome = job[j].outcome
      /\ q.intents = n /\ q.writes = job[j].writes
  BY <1>1, <1>2 DEF JobRecord
<1> HIDE DEF q
<1> QED BY <1>3, <1>4 DEF SameJob, n

\* A commit before a write: a backup, the start of a job, an intent.
LEMMA CommitBefore ==
  ASSUME ZoneInv, NEW j \in Jobs, NEW r \in JobRecord, NEW pc, Set(j, Enter(r, pc)),
         zone' = zone, late' = late, SameJob(job[j], r), r.todo = job[j].todo,
         r.outcome = job[j].outcome, r.writes = job[j].writes,
         \/ job[j].pc = "store" /\ pc = "before" /\ r.intents = job[j].intents
         \/ /\ job[j].pc = "start" /\ pc = "recheck"
            /\ r.intents = IF Changes(job[j]) THEN job[j].intents + 1 ELSE job[j].intents
         \/ job[j].pc = "intend" /\ pc = "send" /\ r.intents = job[j].intents + 1
  PROVE  ZoneStep
<1> DEFINE q == Enter(r, pc)
<1>1. /\ job[j].pc \in Holding /\ job[j].pc \notin {"readback", "record", "final"}
      /\ pc \in JobPcs /\ pc \in Holding
      /\ pc \notin {"readback", "verify", "final", "record"}
  BY DEF Holding, JobPcs
<1>2. /\ job[j] \in JobRecord /\ Tallied(job[j]) /\ Planned(job[j]) /\ job[j].outcome = "open"
      /\ job[j].intents \in Nat /\ job[j].writes \in Nat
  BY JobHere DEF Open, JobRecord
<1>3. /\ q \in JobRecord /\ q.pc = pc /\ q.left = (IF pc \in Passes THEN r.set ELSE {})
      /\ q.kind = r.kind /\ q.master = r.master /\ q.set = r.set /\ q.desired = r.desired
      /\ q.todo = r.todo /\ q.dirty = r.dirty /\ q.intents = r.intents /\ q.writes = r.writes
      /\ q.outcome = r.outcome
  BY <1>1, EnterRecord
<1>4. Set(j, q)
  OBVIOUS
<1> HIDE DEF q
<1>5. SameJob(job[j], q)
  BY <1>3 DEF SameJob
<1>6. Changes(q) <=> Changes(job[j])
  BY <1>5 DEF SameJob, Changes
<1>7. Tallied(q)
  BY <1>2, <1>3, <1>6 DEF Tallied
<1>8. Planned(q)
  BY <1>1, <1>2, <1>3, <1>5, <1>6 DEF Planned, SameJob, Holding
<1>9. Shaped(q)
  BY <1>2, <1>3, <1>7, <1>8 DEF Shaped
<1>10. Moves(job[j], q)
  <2>1. q.intents = job[j].intents \/ (q.intents = job[j].intents + 1 /\ job[j].intents = job[j].writes)
    BY <1>2, <1>3 DEF Tallied
  <2> QED BY <1>2, <1>3, <2>1 DEF Moves
<1>11. ReadTrue(q, zone)
  BY <1>1, <1>3, NotRead
<1>12. Unsent(q) => Unsent(job[j])
  BY <1>1, <1>2, <1>3, StillUnsent
<1>13. Checked(q) \subseteq Checked(job[j])
  <2>1. CASE pc = "before"
    <3>1. q.left = q.set
      BY <1>3, <2>1 DEF Passes
    <3> QED BY <1>3, <2>1, <3>1 DEF Checked
  <2>2. CASE pc # "before"
    BY <1>3, <1>5, <2>2 DEF Checked, SameJob
  <2> QED BY <2>1, <2>2
<1> QED BY <1>1, <1>3, <1>4, <1>5, <1>9, <1>10, <1>11, <1>12, <1>13, GoesOn

\* What is left of a plan after a step.
LEMMA TailPlan ==
  ASSUME NEW s \in Seq(Paths), s # <<>>, Once(s)
  PROVE  /\ Tail(s) \in Seq(Paths) /\ Once(Tail(s)) /\ Len(Tail(s)) + 1 = Len(s)
         /\ \A i \in 1 .. Len(Tail(s)) : i + 1 \in 1 .. Len(s) /\ Tail(s)[i] = s[i + 1]
<1>1. /\ Tail(s) \in Seq(Paths) /\ Len(Tail(s)) = Len(s) - 1 /\ Len(s) \in Nat \ {0}
      /\ \A i \in 1 .. Len(Tail(s)) : Tail(s)[i] = s[i + 1]
  OBVIOUS
<1>2. Len(Tail(s)) + 1 = Len(s) /\ \A i \in 1 .. Len(Tail(s)) : i + 1 \in 1 .. Len(s)
  BY <1>1
<1>3. ASSUME NEW i \in 1 .. Len(Tail(s)), NEW n \in 1 .. Len(Tail(s)),
             Tail(s)[i] = "setZone", Tail(s)[n] = "setZone"
      PROVE  i = n
  <2>1. i + 1 = n + 1
    BY <1>1, <1>2, <1>3 DEF Once
  <2> QED BY <1>1, <2>1
<1>4. Once(Tail(s))
  BY <1>3 DEF Once
<1> QED BY <1>1, <1>2, <1>4

\* STEP_VERIFIED: the topology is not in the rest of the plan once it was sent.
LEMMA StepRecorded ==
  ASSUME ZoneInv, NEW j \in Jobs, job[j].pc = "record", Set(j, AfterStep(j)),
         zone' = zone, late' = late
  PROVE  ZoneStep
<1>1. /\ job[j] \in JobRecord /\ Tallied(job[j]) /\ Planned(job[j]) /\ job[j].outcome = "open"
      /\ job[j].intents \in Nat /\ job[j].writes \in Nat /\ job[j].todo \in Seq(Paths)
  BY JobHere DEF Open, JobRecord
<1>2. job[j].todo # <<>> /\ Once(job[j].todo) /\ ~Changes(job[j])
  BY <1>1 DEF Planned, Holding
<1> DEFINE t == Tail(job[j].todo)
           r == [job[j] EXCEPT !.todo = t, !.rounds = 0, !.took = FALSE]
           pc == IF r.todo = <<>> THEN "verify" ELSE "scan"
           q == Enter(r, pc)
<1>3. Set(j, q)
  BY DEF AfterStep
<1>4. /\ t \in Seq(Paths) /\ Once(t) /\ Len(t) + 1 = Len(job[j].todo)
      /\ \A i \in 1 .. Len(t) : i + 1 \in 1 .. Len(job[j].todo) /\ t[i] = job[j].todo[i + 1]
  BY <1>1, <1>2, TailPlan
<1> HIDE DEF t
<1>5. /\ r \in JobRecord /\ r.kind = job[j].kind /\ r.master = job[j].master
      /\ r.set = job[j].set /\ r.desired = job[j].desired /\ r.dirty = job[j].dirty
      /\ r.todo = t /\ r.outcome = job[j].outcome
      /\ r.intents = job[j].intents /\ r.writes = job[j].writes
  BY <1>1, <1>4 DEF JobRecord
<1>6. pc \in JobPcs /\ pc \in {"verify", "scan"} /\ (pc = "verify" <=> t = <<>>)
  BY <1>5 DEF JobPcs, Holding
<1> HIDE DEF r, pc
<1>7. /\ q \in JobRecord /\ q.pc = pc /\ q.left = (IF pc \in Passes THEN r.set ELSE {})
      /\ q.kind = r.kind /\ q.master = r.master /\ q.set = r.set /\ q.desired = r.desired
      /\ q.todo = r.todo /\ q.dirty = r.dirty /\ q.intents = r.intents /\ q.writes = r.writes
      /\ q.outcome = r.outcome
  BY <1>5, <1>6, EnterRecord
<1> HIDE DEF q
<1>8. SameJob(job[j], q)
  BY <1>5, <1>7 DEF SameJob
<1>9. ~Changes(q)
  BY <1>2, <1>8 DEF SameJob, Changes
<1>10. Tallied(q)
  BY <1>1, <1>5, <1>6, <1>7 DEF Tallied
<1>11. Planned(q)
  <2>1. /\ q.master \in q.set /\ q.desired \subseteq q.set /\ q.set = {q.master} \cup q.desired
    BY <1>1, <1>2, <1>8 DEF Planned, Holding, SameJob
  <2> QED BY <1>4, <1>5, <1>6, <1>7, <1>9, <2>1 DEF Planned
<1>12. Shaped(q) /\ Moves(job[j], q)
  BY <1>1, <1>5, <1>6, <1>7, <1>10, <1>11 DEF Shaped, Moves
<1>13. Unsent(q) => Unsent(job[j])
  <2> SUFFICES ASSUME NEW i \in 1 .. Len(t), t[i] = "setZone" PROVE Unsent(job[j])
    BY <1>5, <1>7 DEF Unsent
  <2>1. i + 1 > 1 /\ i + 1 \in 1 .. Len(job[j].todo) /\ job[j].todo[i + 1] = "setZone"
    BY <1>4
  <2> QED BY <2>1 DEF Unsent
<1>14. Checked(q) = {} /\ Read(q) = {}
  <2>1. pc = "verify" => q.set \ q.left = {}
    BY <1>7 DEF Passes
  <2> QED BY <1>6, <1>7, <2>1 DEF Checked, Read
<1>15. ReadTrue(q, zone)
  BY <1>14 DEF ReadTrue
<1>16. q.pc \in Holding /\ job[j].pc \in Holding
  BY <1>6, <1>7 DEF Holding
<1> QED BY <1>3, <1>7, <1>8, <1>12, <1>13, <1>14, <1>15, <1>16, GoesOn

\* Every commit of a job.
LEMMA CommitStep ==
  ASSUME ZoneInv, NEW j \in Jobs, Commit(j)
  PROVE  ZoneStep
<1>1. zone' = zone /\ late' = late
  BY DEF Commit
<1>2. job[j] \in JobRecord /\ SameJob(job[j], job[j]) /\ (Change(j) <=> Changes(job[j]))
  BY JobHere DEF SameJob, Change, Changes
<1>3. CASE job[j].pc = "store" /\ Set(j, Enter(job[j], "before"))
  BY <1>1, <1>2, <1>3, CommitBefore
<1>4. CASE job[j].pc = "start" /\ Set(j, Enter(IF Change(j) THEN Intended(j) ELSE job[j], "recheck"))
  <2>1. CASE Change(j)
    <3>1. Set(j, Enter(Intended(j), "recheck"))
      BY <1>4, <2>1
    <3> QED BY <1>1, <1>2, <1>4, <2>1, <3>1, IntendedRecord, CommitBefore
  <2>2. CASE ~Change(j)
    <3>1. Set(j, Enter(job[j], "recheck"))
      BY <1>4, <2>2
    <3> QED BY <1>1, <1>2, <1>4, <2>2, <3>1, CommitBefore
  <2> QED BY <2>1, <2>2
<1>5. CASE job[j].pc = "intend" /\ Set(j, Enter(Intended(j), "send"))
  BY <1>1, <1>2, <1>5, IntendedRecord, CommitBefore
<1>6. CASE job[j].pc = "record" /\ Set(j, AfterStep(j))
  BY <1>1, <1>6, StepRecorded
<1>7. CASE job[j].pc = "final" /\ Set(j, Ended(j, IF Verified(j) THEN "VERIFIED" ELSE "DIVERGED"))
  <2> DEFINE o == IF Verified(j) THEN "VERIFIED" ELSE "DIVERGED"
  <2>1. o \in JobOutcomes \ {"open", "BLOCKED", "UNCHANGED"} /\ Set(j, Ended(j, o))
    BY <1>7 DEF JobOutcomes
  <2>2. job[j].writes > 0 /\ Open(j)
    BY <1>7, JobHere DEF Tallied
  <2>3. o = "VERIFIED" => job[j].allOk
    BY DEF Verified
  <2> HIDE DEF o
  <2> QED BY <1>1, <1>7, <2>1, <2>2, <2>3, JobEnds
<1> QED BY <1>3, <1>4, <1>5, <1>6, <1>7 DEF Commit

-----------------------------------------------------------------------------
\* Reading back.
LEMMA ConfirmedGood ==
  ASSUME NEW j \in Jobs, NEW d \in Radios
  PROVE  Confirmed(j, d) <=> Good(job[j], d, zone[d])
<1>1. Change(j) <=> Changes(job[j])
  BY DEF Change, Changes
<1>2. SelectedScope(j, zone[d]) <=> InScope(job[j], zone[d])
  BY DEF SelectedScope, InScope
<1>3. CASE Change(j)
  BY <1>1, <1>2, <1>3 DEF Confirmed, Good, ChangeSeen
<1>4. CASE ~Change(j)
  BY <1>1, <1>2, <1>4 DEF Confirmed, Good, CreationSeen
<1> QED BY <1>3, <1>4

\* Confirmed depends on the request only.
LEMMA SameGood ==
  ASSUME NEW r, NEW q, SameJob(r, q), NEW d, NEW z, Good(r, d, z)
  PROVE  Good(q, d, z)
  BY DEF SameJob, Good, InScope, Changes

\* One radio of a readback round.
LEMMA ReadBackStep ==
  ASSUME ZoneInv, NEW j \in Jobs, ReadBack(j)
  PROVE  ZoneStep
<1> DEFINE topology == Head(job[j].todo) = "setZone"
           ok(d) == IF job[j].pc = "verify" THEN Confirmed(j, d)
                    ELSE IF topology THEN Confirmed(j, d) /\ SelectedScope(j, zone[d])
                    ELSE job[j].took
           left(d) == IF job[j].pc = "verify" \/ topology THEN job[j].left \ {d} ELSE {}
<1>1. PICK d \in job[j].left, good \in BOOLEAN :
        /\ good => ok(d)
        /\ Set(j, [job[j] EXCEPT !.left = left(d), !.allOk = job[j].allOk /\ good])
  <2>1. PICK d \in job[j].left : \E good \in {ok(d), FALSE} :
          Set(j, [job[j] EXCEPT !.left = left(d), !.allOk = job[j].allOk /\ good])
    BY DEF ReadBack
  <2>2. PICK good \in {ok(d), FALSE} :
          Set(j, [job[j] EXCEPT !.left = left(d), !.allOk = job[j].allOk /\ good])
    BY <2>1
  <2>3. good \in BOOLEAN
    <3>1. job[j].took \in BOOLEAN
      BY JobHere DEF JobRecord
    <3>2. Confirmed(j, d) \in BOOLEAN
      BY DEF Confirmed, ChangeSeen, CreationSeen, Standalone
    <3>3. (Confirmed(j, d) /\ SelectedScope(j, zone[d])) \in BOOLEAN
      OBVIOUS
    <3>4. ok(d) \in BOOLEAN
      BY <3>1, <3>2, <3>3
    <3> HIDE DEF ok
    <3> QED BY <3>4
  <2>4. good => ok(d)
    BY <2>2
  <2> QED BY <2>2, <2>3, <2>4
<1>2. job[j].pc \in {"readback", "verify"} /\ zone' = zone /\ late' = late
  BY DEF ReadBack
<1>3. job[j] \in JobRecord /\ job[j].left \in SUBSET Radios /\ job[j].allOk \in BOOLEAN
  BY JobHere DEF JobRecord
<1> DEFINE l == left(d)
           a == job[j].allOk /\ good
           q == [job[j] EXCEPT !.left = l, !.allOk = a]
<1>4. l \in SUBSET Radios /\ a \in BOOLEAN /\ (a => job[j].allOk /\ good)
  BY <1>3
<1>5. Set(j, q)
  BY <1>1
<1>6. l = IF job[j].pc = "verify" \/ topology THEN job[j].left \ {d} ELSE {}
  OBVIOUS
<1> HIDE DEF l, a, left
<1>7. /\ q \in JobRecord /\ q.pc = job[j].pc /\ q.left = l /\ q.kind = job[j].kind
      /\ q.master = job[j].master /\ q.set = job[j].set /\ q.desired = job[j].desired
      /\ q.dirty = job[j].dirty /\ q.todo = job[j].todo /\ q.outcome = job[j].outcome
      /\ q.intents = job[j].intents /\ q.writes = job[j].writes /\ q.allOk = a
  BY <1>3, <1>4 DEF JobRecord
<1> HIDE DEF q
<1>8. SameJob(job[j], q)
  BY <1>7 DEF SameJob
<1>9. Shaped(q) /\ Moves(job[j], q)
  BY <1>7, <1>8, SameShape
<1>10. Unsent(q) => Unsent(job[j])
  BY <1>3, <1>7, StillUnsent
<1>11. Checked(q) = {}
  BY <1>2, <1>7 DEF Checked
<1>12. ReadTrue(q, zone)
  <2> SUFFICES ASSUME ~q.dirty, q.allOk, NEW e \in Read(q) PROVE Good(q, e, zone[e])
    BY DEF ReadTrue
  <2>1. ~job[j].dirty /\ job[j].allOk /\ ok(d)
    BY <1>1, <1>4, <1>7
  <2>2. job[j].pc = "verify" \/ topology
    BY <1>2, <1>7 DEF Read
  <2>3. e \in job[j].set /\ e \notin job[j].left \ {d}
    BY <1>2, <1>6, <1>7, <2>2 DEF Read
  <2>4. CASE e = d
    <3>1. Confirmed(j, d)
      BY <2>1, <2>2
    <3>2. Good(job[j], d, zone[d])
      BY <1>3, <3>1, ConfirmedGood
    <3> QED BY <1>8, <2>4, <3>2, SameGood
  <2>5. CASE e # d
    <3>1. e \in Read(job[j])
      BY <1>2, <2>2, <2>3, <2>5 DEF Read
    <3>2. Good(job[j], e, zone[e])
      BY <2>1, <3>1, JobHere DEF ReadTrue
    <3> QED BY <1>8, <3>2, SameGood
  <2> QED BY <2>4, <2>5
<1>13. q.pc \in Holding /\ job[j].pc \in Holding
  BY <1>2, <1>7 DEF Holding
<1> QED BY <1>2, <1>5, <1>7, <1>8, <1>9, <1>10, <1>11, <1>12, <1>13, GoesOn

\* A round ends: again, recorded, final or failed.
LEMMA RoundEndsStep ==
  ASSUME ZoneInv, NEW j \in Jobs, RoundEnds(j)
  PROVE  ZoneStep
<1> DEFINE n == job[j].rounds + 1
           r == [job[j] EXCEPT !.rounds = n]
           settled(pc) == [job[j] EXCEPT !.pc = pc]
<1>1. /\ job[j].pc \in {"readback", "verify"} /\ job[j].left = {} /\ zone' = zone /\ late' = late
      /\ \/ Set(j, Enter(r, job[j].pc))
         \/ (Change(j) \/ job[j].pc = "verify") /\ Set(j, settled("final"))
         \/ ~Change(j) /\ job[j].pc = "readback" /\ Set(j, settled("record"))
         \/ Set(j, Failed(j))
  <2>1. /\ job[j].pc \in {"readback", "verify"} /\ job[j].left = {} /\ zone' = zone /\ late' = late
    BY DEF RoundEnds
  <2> DEFINE again == ~job[j].allOk /\ job[j].rounds + 1 < MaxRounds
             done == Change(j) \/ job[j].pc = "verify"
  <2>2. Set(j, CASE again -> Enter(r, job[j].pc)
                 [] ~again /\ done -> settled("final")
                 [] OTHER -> IF Verified(j) THEN settled("record") ELSE Failed(j))
    BY DEF RoundEnds
  <2> HIDE DEF again, r, settled
  <2>3. CASE again
    BY <2>1, <2>2, <2>3
  <2>4. CASE ~again /\ done
    BY <2>1, <2>2, <2>4
  <2>5. CASE ~again /\ ~done
    BY <2>1, <2>2, <2>5
  <2> QED BY <2>3, <2>4, <2>5
<1>2. /\ job[j] \in JobRecord /\ Tallied(job[j]) /\ Planned(job[j]) /\ job[j].outcome = "open"
      /\ job[j].intents \in Nat /\ job[j].writes \in Nat /\ Open(j) /\ job[j].pc \in Holding
      /\ (Change(j) <=> Changes(job[j])) /\ job[j].pc \in JobPcs
  BY <1>1, JobHere DEF Open, JobRecord, Holding, Change, Changes
<1>3. CASE Set(j, Failed(j))
  BY <1>1, <1>2, <1>3, JobFails
<1>4. CASE Set(j, Enter(r, job[j].pc))
  <2>1. n \in Nat
    BY <1>2 DEF JobRecord
  <2> HIDE DEF n
  <2>2. /\ r \in JobRecord /\ r.kind = job[j].kind /\ r.master = job[j].master
        /\ r.set = job[j].set /\ r.desired = job[j].desired /\ r.dirty = job[j].dirty
        /\ r.todo = job[j].todo /\ r.outcome = job[j].outcome
        /\ r.intents = job[j].intents /\ r.writes = job[j].writes
    BY <1>2, <2>1 DEF JobRecord
  <2> HIDE DEF r
  <2> DEFINE q == Enter(r, job[j].pc)
  <2>3. /\ q \in JobRecord /\ q.pc = job[j].pc /\ q.left = r.set
        /\ q.kind = r.kind /\ q.master = r.master /\ q.set = r.set /\ q.desired = r.desired
        /\ q.todo = r.todo /\ q.dirty = r.dirty /\ q.intents = r.intents /\ q.writes = r.writes
        /\ q.outcome = r.outcome
    <3>1. job[j].pc \in Passes
      BY <1>1 DEF Passes
    <3> QED BY <1>2, <2>2, <3>1, EnterRecord
  <2>4. Set(j, q)
    BY <1>4
  <2> HIDE DEF q
  <2>5. SameJob(job[j], q)
    BY <2>2, <2>3 DEF SameJob
  <2>6. Shaped(q) /\ Moves(job[j], q)
    BY <2>2, <2>3, <2>5, SameShape
  <2>7. Unsent(q) => Unsent(job[j])
    BY <1>2, <2>2, <2>3, StillUnsent
  <2>8. Checked(q) = {} /\ Read(q) = {}
    BY <1>1, <2>3 DEF Checked, Read
  <2>9. ReadTrue(q, zone)
    BY <2>8 DEF ReadTrue
  <2> QED BY <1>1, <1>2, <2>3, <2>4, <2>5, <2>6, <2>7, <2>8, <2>9, GoesOn
<1>5. ASSUME NEW pc, Set(j, settled(pc)),
             \/ pc = "final" /\ (Change(j) \/ job[j].pc = "verify")
             \/ pc = "record" /\ ~Change(j) /\ job[j].pc = "readback"
      PROVE  ZoneStep
  <2> DEFINE q == settled(pc)
  <2>1. pc \in JobPcs /\ pc \in Holding /\ pc \in {"record", "final"}
    BY <1>5 DEF JobPcs, Holding
  <2>2. /\ q \in JobRecord /\ q.pc = pc /\ q.kind = job[j].kind /\ q.master = job[j].master
        /\ q.set = job[j].set /\ q.desired = job[j].desired /\ q.dirty = job[j].dirty
        /\ q.todo = job[j].todo /\ q.outcome = job[j].outcome /\ q.allOk = job[j].allOk
        /\ q.intents = job[j].intents /\ q.writes = job[j].writes
    BY <1>2, <2>1 DEF JobRecord
  <2>3. Set(j, q)
    BY <1>5
  <2> HIDE DEF q
  <2>4. SameJob(job[j], q) /\ (Changes(q) <=> Changes(job[j]))
    BY <2>2 DEF SameJob, Changes
  <2>5. Tallied(q)
    BY <1>1, <1>2, <2>1, <2>2 DEF Tallied
  <2>6. Planned(q)
    BY <1>1, <1>2, <1>5, <2>1, <2>2, <2>4 DEF Planned, SameJob
  <2>7. Shaped(q) /\ Moves(job[j], q)
    BY <1>2, <2>1, <2>2, <2>5, <2>6 DEF Shaped, Moves
  <2>8. Unsent(q) => Unsent(job[j])
    BY <1>2, <2>1, <2>2, StillUnsent
  <2>9. Checked(q) = {}
    BY <2>1, <2>2 DEF Checked
  <2>10. ReadTrue(q, zone)
    <3> SUFFICES ASSUME ~q.dirty, q.allOk, NEW e \in Read(q) PROVE Good(q, e, zone[e])
      BY DEF ReadTrue
    <3>1. pc = "final" /\ e \in job[j].set
      BY <2>1, <2>2 DEF Read
    <3>2. job[j].pc = "verify" \/ Head(job[j].todo) = "setZone"
      BY <1>1, <1>2, <1>5, <3>1 DEF Planned, Holding
    <3>3. e \in Read(job[j])
      BY <1>1, <3>1, <3>2 DEF Read
    <3>4. Good(job[j], e, zone[e])
      BY <2>2, <3>3, JobHere DEF ReadTrue
    <3> QED BY <2>4, <3>4, SameGood
  <2> QED BY <1>1, <1>2, <2>1, <2>2, <2>3, <2>4, <2>7, <2>8, <2>9, <2>10, GoesOn
<1> QED BY <1>1, <1>3, <1>4, <1>5

-----------------------------------------------------------------------------
\* The firmware.
LEMMA AdoptedZone ==
  ASSUME ZoneInv, NEW m \in Radios, NEW ms \in SUBSET Radios, NEW d \in Radios
  PROVE  Adopted(m, ms, d) \in Zone
<1>1. zone[d] \in Zone /\ zone[d].members \in SUBSET Radios
  BY DEF ZoneInv, ZoneTypeOK, Zone
<1> DEFINE rest == zone[d].members \ ({m} \cup ms)
<1>2. rest \in SUBSET Radios
  BY <1>1
<1>3. [master |-> m, members |-> ms] \in Zone /\ [master |-> d, members |-> rest] \in Zone
  BY <1>2 DEF Zone
<1> DEFINE gone == {m} \cup ms
<1>4. \/ Adopted(m, ms, d) = Alone \/ Adopted(m, ms, d) = [master |-> m, members |-> ms]
      \/ Adopted(m, ms, d) = [master |-> d, members |-> rest] \/ Adopted(m, ms, d) = zone[d]
  <2>1. CASE d = m
    BY <2>1 DEF Adopted
  <2>2. CASE d # m /\ d \in ms
    BY <2>2 DEF Adopted
  <2>3. CASE d \notin gone
    <3>1. CASE zone[d].master \in gone
      BY <2>3, <3>1 DEF Adopted
    <3>2. CASE zone[d].master \notin gone /\ zone[d].master = d /\ rest # zone[d].members
      BY <2>3, <3>2 DEF Adopted
    <3>3. CASE zone[d].master \notin gone /\ ~(zone[d].master = d /\ rest # zone[d].members)
      BY <2>3, <3>3 DEF Adopted
    <3> QED BY <3>1, <3>2, <3>3
  <2> QED BY <2>1, <2>2, <2>3
<1> QED BY <1>1, <1>3, <1>4, AloneZone

\* The coordinator itself, a member, and a radio that followed it.
LEMMA AdoptedBy ==
  ASSUME NEW m, NEW ms
  PROVE  /\ Adopted(m, ms, m) = IF ms = {} THEN Alone ELSE [master |-> m, members |-> ms]
         /\ \A d : d # m /\ d \in ms => Adopted(m, ms, d) = [master |-> m, members |-> ms]
<1>1. Adopted(m, ms, m) = IF ms = {} THEN Alone ELSE [master |-> m, members |-> ms]
  BY DEF Adopted
<1>2. ASSUME NEW d, d # m, d \in ms PROVE Adopted(m, ms, d) = [master |-> m, members |-> ms]
  BY <1>2 DEF Adopted
<1> QED BY <1>1, <1>2

\* A follower that is not regrouped is left alone.
LEMMA AdoptedLeft ==
  ASSUME NEW m, NEW ms, NEW d, d # m, d \notin ms, zone[d].master = m
  PROVE  Adopted(m, ms, d) = Alone
  BY DEF Adopted

\* A radio that is alone and not regrouped stays as it is.
LEMMA AdoptedAlone ==
  ASSUME ZoneInv, NEW m \in Radios, NEW ms \in SUBSET Radios, NEW d \in Radios,
         d # m, d \notin ms, Standalone(zone[d], d)
  PROVE  Adopted(m, ms, d) = zone[d]
<1>1. zone[d].master \notin {m} \cup ms /\ zone[d].members \ ({m} \cup ms) = zone[d].members
  BY ZoneAssumption DEF Standalone
<1> QED BY <1>1 DEF Adopted

\* A job whose radios were regrouped from elsewhere promises its shape only.
LEMMA Disturbed ==
  ASSUME NEW k \in Jobs, NEW r \in JobRecord, Shaped(r), NEW zn, NEW lt,
         NEW q, q = [r EXCEPT !.dirty = @ \/ Held(r) # {}]
  PROVE  q \in JobRecord /\ JobTrue(k, q, zn, lt) /\ Held(q) = Held(r) /\ Moves(r, q)
<1> DEFINE b == r.dirty \/ Held(r) # {}
<1>1. b \in BOOLEAN /\ q = [r EXCEPT !.dirty = b]
  OBVIOUS
<1>2. b = (r.dirty \/ Held(r) # {})
  OBVIOUS
<1> HIDE DEF b
<1>3. /\ q \in JobRecord /\ q.dirty = b /\ q.pc = r.pc /\ q.kind = r.kind
      /\ q.master = r.master /\ q.set = r.set /\ q.desired = r.desired
      /\ q.todo = r.todo /\ q.outcome = r.outcome
      /\ q.intents = r.intents /\ q.writes = r.writes
  <2>1. q \in JobRecord
    BY <1>1 DEF JobRecord
  <2>2. /\ q.dirty = b /\ q.pc = r.pc /\ q.kind = r.kind
        /\ q.master = r.master /\ q.set = r.set /\ q.desired = r.desired
        /\ q.todo = r.todo /\ q.outcome = r.outcome
        /\ q.intents = r.intents /\ q.writes = r.writes
    BY <1>1 DEF JobRecord
  <2> QED BY <2>1, <2>2
<1>4. Changes(q) <=> Changes(r)
  BY <1>3 DEF Changes
<1>5. Shaped(q)
  <2>1. Tallied(q)
    BY <1>3, <1>4 DEF Shaped, Tallied
  <2>2. Planned(q)
    BY <1>3, <1>4 DEF Shaped, Planned
  <2> QED BY <1>3, <2>1, <2>2 DEF Shaped
<1>6. CASE r.pc \in Holding
  <2>1. r.master \in r.set
    BY <1>6 DEF Shaped, Planned
  <2>2. q.dirty
    BY <1>2, <1>3, <1>6, <2>1 DEF Held
  <2>3. JobTrue(k, q, zn, lt)
    BY <1>5, <2>2 DEF JobTrue, Guarded, LateKnown, ReadTrue
  <2> QED BY <1>3, <2>3 DEF Held, Moves
<1>7. CASE r.pc \notin Holding
  <2>1. JobTrue(k, q, zn, lt) /\ Held(q) = {}
    BY <1>3, <1>5, <1>7, Unheld
  <2> QED BY <1>3, <1>7, <2>1 DEF Held, Moves
<1> QED BY <1>6, <1>7

\* Another controller marks every job that holds a radio.
LEMMA OutsideStep ==
  ASSUME ZoneInv, OutsideChange
  PROVE  ZoneStep
<1>1. PICK m \in Radios, ms \in SUBSET Radios : zone' = [d \in Radios |-> Adopted(m, ms, d)]
  BY DEF OutsideChange
<1>2. zone' \in [Radios -> Zone] /\ late' = late
  BY <1>1, AdoptedZone DEF OutsideChange
<1>3. ASSUME NEW k \in Jobs
      PROVE  /\ job'[k] \in JobRecord /\ JobTrue(k, job'[k], zone', late')
             /\ Held(job'[k]) = Held(job[k]) /\ Moves(job[k], job'[k])
  <2>1. job'[k] = [job[k] EXCEPT !.dirty = @ \/ Held(job[k]) # {}]
    BY HoldsHeld DEF OutsideChange
  <2>2. job[k] \in JobRecord /\ Shaped(job[k])
    BY JobHere
  <2> QED BY <2>1, <2>2, Disturbed
<1>4. job' = [k \in Jobs |-> job'[k]]
  BY DEF OutsideChange
<1>5. ZoneTypeOK'
  BY <1>2, <1>3, <1>4 DEF ZoneInv, ZoneTypeOK
<1>6. ZoneInv'
  BY <1>3, <1>5 DEF ZoneInv
<1> QED BY <1>3, <1>6 DEF ZoneStep

\* Only held radios were checked or read back.
LEMMA ReadHeld ==
  ASSUME NEW r \in JobRecord
  PROVE  Read(r) \subseteq r.set /\ Checked(r) \subseteq r.set /\ (r.pc \notin Holding => Read(r) = {})
  BY DEF Read, Checked, Holding

\* What a radio was told by a job is what the job reads back for.
LEMMA ToldGood ==
  ASSUME NEW r \in JobRecord, NEW d \in r.set, NEW z, Told(r, d, z), Planned(r),
         r.pc \in Holding, d # r.master
  PROVE  Good(r, d, z)
<1>1. r.master \in r.set /\ r.desired \subseteq r.set
  BY DEF Planned
<1>2. CASE d \in r.desired /\ z = [master |-> r.master, members |-> r.desired]
  <2>1. z.master = r.master /\ z.members = r.desired
    BY <1>2
  <2> QED BY <1>1, <1>2, <2>1 DEF Good, InScope
<1>3. CASE Changes(r) /\ d \notin r.desired /\ z = Alone
  BY <1>3, AloneZone DEF Good, InScope, Standalone
<1> QED BY <1>2, <1>3 DEF Told

\* A late adoption keeps what its own job confirmed and marks the other jobs.
LEMMA AdoptStep ==
  ASSUME ZoneInv, NEW d \in Radios, Adopt(d)
  PROVE  ZoneStep
<1> DEFINE j == late[d].by
<1>1. /\ j \in Jobs /\ late[d].zone \in Zone
      /\ zone \in [Radios -> Zone] /\ late \in [Radios -> [zone : Zone, by : Jobs \cup {None}]]
  BY DEF ZoneInv, ZoneTypeOK, Adopt
<1>2. Settled \in [zone : Zone, by : Jobs \cup {None}] /\ Settled.by = None
  BY AloneZone DEF Settled
<1>3. /\ zone' \in [Radios -> Zone] /\ zone'[d] = late[d].zone
      /\ \A e \in Radios : e # d => zone'[e] = zone[e]
  BY <1>1 DEF Adopt
<1>4. /\ late' \in [Radios -> [zone : Zone, by : Jobs \cup {None}]] /\ late'[d].by = None
      /\ \A e \in Radios : e # d => late'[e] = late[e]
  BY <1>1, <1>2 DEF Adopt
<1>5. ASSUME NEW k \in Jobs
      PROVE  /\ job'[k] \in JobRecord /\ JobTrue(k, job'[k], zone', late')
             /\ Held(job'[k]) = Held(job[k]) /\ Moves(job[k], job'[k])
  <2>1. job[k] \in JobRecord /\ Shaped(job[k]) /\ Planned(job[k])
    BY JobHere
  <2>2. CASE k # j
    <3>1. job'[k] = [job[k] EXCEPT !.dirty = @ \/ Held(job[k]) # {}]
      BY <2>2, HoldsHeld DEF Adopt
    <3> QED BY <2>1, <3>1, Disturbed
  <2>3. CASE k = j
    <3> DEFINE r == job[k]
    <3>1. job'[k] = r /\ late[d].by = k
      BY <2>3 DEF Adopt
    <3>2. CASE r.pc \notin Holding
      <4>1. JobTrue(k, r, zone', late')
        BY <2>1, <3>2, Unheld
      <4> QED BY <2>1, <3>1, <4>1 DEF Moves
    <3>3. CASE r.pc \in Holding
      <4>1. Guarded(k, r, zone', late')
        BY <3>1, JobHere DEF Guarded
      <4>2. r.set \in SUBSET Radios
        BY <2>1 DEF JobRecord
      <4>3. LateKnown(k, r, late')
        <5> SUFFICES ASSUME ~r.dirty, NEW e \in r.set, late'[e].by = k
                     PROVE  e # r.master /\ Told(r, e, late'[e].zone)
          BY DEF LateKnown
        <5>1. e # d
          BY <1>4, ZoneAssumption
        <5>2. late'[e] = late[e]
          BY <1>4, <4>2, <5>1
        <5> QED BY <3>3, <5>2, JobHere DEF LateKnown
      <4>4. ReadTrue(r, zone')
        <5> SUFFICES ASSUME ~r.dirty, r.allOk, NEW e \in Read(r) PROVE Good(r, e, zone'[e])
          BY DEF ReadTrue
        <5>1. e \in r.set /\ e \in Radios
          BY <2>1, <4>2, ReadHeld
        <5>2. CASE e # d
          <6>1. Good(r, e, zone[e])
            BY JobHere DEF ReadTrue
          <6> QED BY <1>3, <5>1, <5>2, <6>1
        <5>3. CASE e = d
          <6>1. e # r.master /\ Told(r, e, late[e].zone)
            BY <3>1, <3>3, <5>1, <5>3, JobHere DEF LateKnown
          <6>2. Good(r, e, late[e].zone)
            BY <2>1, <3>3, <5>1, <6>1, ToldGood
          <6> QED BY <1>3, <5>3, <6>2
        <5> QED BY <5>2, <5>3
      <4>5. JobTrue(k, r, zone', late')
        BY <2>1, <4>1, <4>3, <4>4 DEF JobTrue
      <4> QED BY <2>1, <3>1, <4>5 DEF Moves
    <3> QED BY <3>2, <3>3
  <2> QED BY <2>2, <2>3
<1>6. job' = [k \in Jobs |-> job'[k]]
  BY DEF Adopt
<1>7. ZoneTypeOK'
  BY <1>3, <1>4, <1>5, <1>6 DEF ZoneTypeOK
<1>8. ZoneInv'
  BY <1>5, <1>7 DEF ZoneInv
<1> QED BY <1>5, <1>8 DEF ZoneStep

\* Job r after its write, as q.
JustSent(r, q) ==
  /\ q \in JobRecord /\ q.pc = "readback" /\ SameJob(r, q) /\ q.todo = r.todo
  /\ Shaped(q) /\ Moves(r, q) /\ Read(q) = {} /\ Checked(q) = {}

\* The write of a setting, or one that the coordinator did not take.
LEMMA SentRecord ==
  ASSUME ZoneInv, NEW j \in Jobs, job[j].pc = "send", NEW took \in BOOLEAN, NEW rej \in BOOLEAN,
         NEW q, q = Enter([job[j] EXCEPT !.writes = @ + 1, !.took = took, !.rounds = 0,
                                         !.rejected = rej], "readback")
  PROVE  JustSent(job[j], q)
<1>1. /\ job[j] \in JobRecord /\ Tallied(job[j]) /\ Planned(job[j]) /\ job[j].outcome = "open"
      /\ job[j].intents \in Nat /\ job[j].writes \in Nat
  BY JobHere DEF Open, JobRecord
<1> DEFINE n == job[j].writes + 1
           r == [job[j] EXCEPT !.writes = n, !.took = took, !.rounds = 0, !.rejected = rej]
<1>2. n \in Nat /\ q = Enter(r, "readback")
  BY <1>1
<1>3. n = job[j].writes + 1
  OBVIOUS
<1> HIDE DEF n
<1>4. /\ r \in JobRecord /\ r.kind = job[j].kind /\ r.master = job[j].master
      /\ r.set = job[j].set /\ r.desired = job[j].desired /\ r.dirty = job[j].dirty
      /\ r.todo = job[j].todo /\ r.outcome = job[j].outcome
      /\ r.intents = job[j].intents /\ r.writes = n
  <2>1. r \in JobRecord
    BY <1>1, <1>2 DEF JobRecord
  <2>2. /\ r.kind = job[j].kind /\ r.master = job[j].master
        /\ r.set = job[j].set /\ r.desired = job[j].desired /\ r.dirty = job[j].dirty
        /\ r.todo = job[j].todo /\ r.outcome = job[j].outcome
        /\ r.intents = job[j].intents /\ r.writes = n
    BY <1>1 DEF JobRecord
  <2> QED BY <2>1, <2>2
<1> HIDE DEF r
<1>5. "readback" \in JobPcs /\ "readback" \in Passes
  BY DEF JobPcs, Holding, Passes
<1>6. /\ q \in JobRecord /\ q.pc = "readback" /\ q.left = r.set
      /\ q.kind = r.kind /\ q.master = r.master /\ q.set = r.set /\ q.desired = r.desired
      /\ q.todo = r.todo /\ q.dirty = r.dirty /\ q.intents = r.intents /\ q.writes = r.writes
      /\ q.outcome = r.outcome
  BY <1>2, <1>4, <1>5, EnterRecord
<1>7. SameJob(job[j], q) /\ q.todo = job[j].todo /\ (Changes(q) <=> Changes(job[j]))
  BY <1>4, <1>6 DEF SameJob, Changes
<1>8. Tallied(q)
  BY <1>1, <1>3, <1>4, <1>6 DEF Tallied
<1>9. Planned(q)
  BY <1>1, <1>6, <1>7 DEF Planned, SameJob, Holding
<1>10. Shaped(q)
  BY <1>1, <1>4, <1>6, <1>8, <1>9 DEF Shaped
<1>11. Moves(job[j], q)
  <2>1. job[j].writes < job[j].intents
    BY <1>1 DEF Tallied
  <2> QED BY <1>1, <1>3, <1>4, <1>6, <2>1 DEF Moves
<1>12. Read(q) = {} /\ Checked(q) = {}
  BY <1>6 DEF Read, Checked
<1> QED BY <1>6, <1>7, <1>10, <1>11, <1>12 DEF JustSent

\* What the coordinator's zone tells the other radios, while the reports that the
\* job checked still hold.
LEMMA ToldNow ==
  ASSUME ZoneInv, NEW j \in Jobs, job[j].pc = "send", ~job[j].dirty, Unsent(job[j]),
         NEW d \in job[j].set, d # job[j].master,
         Adopted(job[j].master, job[j].desired, d) # zone[d]
  PROVE  Told(job[j], d, Adopted(job[j].master, job[j].desired, d))
<1> DEFINE r == job[j]
           m == r.master
<1>1. /\ r \in JobRecord /\ r.pc \in Holding /\ Planned(r) /\ d \in Radios
      /\ r.desired \in SUBSET Radios
  BY JobHere DEF Holding, JobRecord
<1>2. m \in Radios /\ (~Changes(r) => r.set = {m} \cup r.desired)
  BY <1>1 DEF Planned, JobRecord
<1>3. CASE d \in r.desired
  <2>1. Adopted(m, r.desired, d) = [master |-> m, members |-> r.desired]
    BY <1>3, AdoptedBy
  <2> QED BY <1>3, <2>1 DEF Told
<1>4. CASE d \notin r.desired
  <2>1. Changes(r)
    BY <1>2, <1>4
  <2>2. zone[d].master = m \/ Standalone(zone[d], d)
    <3>1. d \in Checked(r)
      BY DEF Checked
    <3> QED BY <1>1, <2>1, <3>1, JobHere DEF Guarded
  <2>3. zone[d].master = m
    BY <1>1, <1>2, <1>4, <2>2, AdoptedAlone
  <2>4. Adopted(m, r.desired, d) = Alone
    BY <1>4, <2>3, AdoptedLeft
  <2> QED BY <1>4, <2>1, <2>4 DEF Told
<1> QED BY <1>3, <1>4

\* A topology that the coordinator took.
LEMMA TakenStep ==
  ASSUME ZoneInv, NEW j \in Jobs, job[j].pc = "send", Head(job[j].todo) = "setZone",
         NEW q \in JobRecord, q.pc = "readback", SameJob(job[j], q), q.todo = job[j].todo,
         Shaped(q), Moves(job[j], q), Read(q) = {}, Set(j, q),
         zone' = [zone EXCEPT ![job[j].master] =
                    Adopted(job[j].master, job[j].desired, job[j].master)],
         late' = [d \in Radios |->
                    IF d \in Affected(job[j].master, job[j].desired) \ {job[j].master}
                    THEN [zone |-> Adopted(job[j].master, job[j].desired, d), by |-> j]
                    ELSE late[d]]
  PROVE  ZoneStep
<1> DEFINE r == job[j]
           m == r.master
           D == r.desired
<1>1. /\ r \in JobRecord /\ Planned(r) /\ r.pc \in Holding
      /\ r.set \in SUBSET Radios /\ D \in SUBSET Radios /\ r.todo \in Seq(Paths)
      /\ zone \in [Radios -> Zone] /\ late \in [Radios -> [zone : Zone, by : Jobs \cup {None}]]
  BY JobHere DEF Holding, JobRecord
<1>2. /\ m \in r.set /\ m \in Radios /\ D \subseteq r.set /\ Once(r.todo) /\ r.todo # <<>>
  BY <1>1 DEF Planned
<1>3. 1 \in 1 .. Len(r.todo) /\ r.todo[1] = "setZone"
  BY <1>1, <1>2
<1>4. Unsent(r) /\ ~Unsent(q)
  BY <1>2, <1>3 DEF Unsent, Once, Holding
<1>5. /\ zone' \in [Radios -> Zone] /\ zone'[m] = Adopted(m, D, m)
      /\ \A e \in Radios : e # m => zone'[e] = zone[e]
  BY <1>1, <1>2, AdoptedZone
<1>6. zone'[m].master \in {m, None} /\ zone'[m].members \subseteq D
  <2>1. zone'[m] = IF D = {} THEN Alone ELSE [master |-> m, members |-> D]
    BY <1>5, AdoptedBy
  <2> QED BY <2>1, AloneZone
<1>7. ASSUME NEW d \in Radios
      PROVE  /\ late'[d] \in [zone : Zone, by : Jobs \cup {None}]
             /\ \/ late'[d] = late[d]
                \/ /\ d # m /\ Adopted(m, D, d) # zone[d]
                   /\ late'[d].zone = Adopted(m, D, d) /\ late'[d].by = j
  <2>1. Adopted(m, D, d) \in Zone
    BY <1>1, <1>2, AdoptedZone
  <2>2. CASE d \in Affected(m, D) \ {m}
    <3>1. late'[d] = [zone |-> Adopted(m, D, d), by |-> j]
      BY <2>2
    <3>2. d # m /\ Adopted(m, D, d) # zone[d]
      BY <2>2 DEF Affected
    <3> QED BY <2>1, <3>1, <3>2
  <2>3. CASE d \notin Affected(m, D) \ {m}
    <3>1. late'[d] = late[d]
      BY <2>3
    <3> QED BY <1>1, <3>1
  <2> QED BY <2>2, <2>3
<1>8. late' \in [Radios -> [zone : Zone, by : Jobs \cup {None}]]
  <2>1. late' = [d \in Radios |-> late'[d]]
    OBVIOUS
  <2> QED BY <1>7, <2>1
<1>9. q.set = r.set /\ q.master = m /\ q.desired = D /\ q.dirty = r.dirty
  BY DEF SameJob
<1>10. JobTrue(j, q, zone', late')
  <2>1. Guarded(j, q, zone', late')
    BY <1>4 DEF Guarded
  <2>2. ReadTrue(q, zone')
    BY DEF ReadTrue
  <2>3. LateKnown(j, q, late')
    <3> SUFFICES ASSUME ~q.dirty, NEW d \in q.set, late'[d].by = j
                 PROVE  d # q.master /\ Told(q, d, late'[d].zone)
      BY DEF LateKnown
    <3>1. d \in r.set /\ d \in Radios /\ ~r.dirty
      BY <1>1, <1>9
    <3>2. late[d].by # j
      BY <1>1, <1>4, <3>1, JobHere DEF Guarded
    <3>3. /\ d # m /\ Adopted(m, D, d) # zone[d] /\ late'[d].zone = Adopted(m, D, d)
      BY <1>7, <3>1, <3>2
    <3>4. Told(r, d, late'[d].zone)
      BY <1>4, <3>1, <3>3, ToldNow
    <3> QED BY <1>9, <3>3, <3>4 DEF Told, SameJob, Changes
  <2> QED BY <2>1, <2>2, <2>3 DEF JobTrue
<1>11. job' \in [Jobs -> JobRecord] /\ job'[j] = q /\ \A k \in Jobs : k # j => job'[k] = job[k]
  BY DEF Set, ZoneInv, ZoneTypeOK
<1>12. ASSUME NEW k \in Jobs, k # j PROVE JobTrue(k, job[k], zone', late')
  <2> DEFINE s == job[k]
  <2>1. /\ s \in JobRecord /\ Shaped(s) /\ s.set \in SUBSET Radios
        /\ Guarded(k, s, zone, late) /\ LateKnown(k, s, late) /\ ReadTrue(s, zone)
    BY JobHere DEF JobRecord
  <2>2. CASE s.pc \notin Holding
    BY <2>1, <2>2, Unheld
  <2>3. CASE s.pc \in Holding
    <3>1. r.set \cap s.set = {}
      BY <1>1, <1>12, <2>3 DEF ZoneInv, Held
    <3>2. \A e \in s.set : zone'[e] = zone[e]
      BY <1>2, <1>5, <2>1, <3>1
    <3>3. \A d \in Radios : late'[d].by = k => late'[d] = late[d]
      BY <1>7, <1>12
    <3>4. LateKnown(k, s, late')
      BY <2>1, <3>3 DEF LateKnown
    <3>5. ReadTrue(s, zone')
      <4>1. \A e \in Read(s) : zone'[e] = zone[e]
        BY <2>1, <3>2, ReadHeld
      <4> QED BY <2>1, <4>1 DEF ReadTrue
    <3>6. ASSUME Apart(s.set, zone) PROVE Apart(s.set, zone')
      <4> SUFFICES ASSUME NEW d \in Radios \ s.set, NEW e \in s.set
                   PROVE  /\ zone'[d].master = e => zone'[e].master = e /\ d \in zone'[e].members
                          /\ zone'[d].master = d /\ e \in zone'[d].members => zone'[e].master = d
        BY DEF Apart
      <4>1. zone'[e] = zone[e] /\ e \in Radios
        BY <2>1, <3>2
      <4>2. CASE d = m
        <5>1. zone'[d].master # e /\ e \notin zone'[d].members
          BY <1>2, <1>6, <3>1, <4>1, <4>2, ZoneAssumption
        <5> QED BY <5>1
      <4>3. CASE d # m
        <5>1. zone'[d] = zone[d]
          BY <1>5, <4>3
        <5> QED BY <3>6, <4>1, <5>1 DEF Apart
      <4> QED BY <4>2, <4>3
    <3>7. Guarded(k, s, zone', late')
      <4> SUFFICES ASSUME ~s.dirty, Unsent(s)
                   PROVE  /\ Apart(s.set, zone')
                          /\ \A d \in Radios : late'[d].by # k
                          /\ \A e \in Checked(s) :
                               /\ InScope(s, zone'[e])
                               /\ Changes(s) => zone'[e].master = s.master \/ Standalone(zone'[e], e)
        BY DEF Guarded
      <4>1. /\ Apart(s.set, zone) /\ \A d \in Radios : late[d].by # k
            /\ \A e \in Checked(s) :
                 /\ InScope(s, zone[e])
                 /\ Changes(s) => zone[e].master = s.master \/ Standalone(zone[e], e)
        BY <2>1, <2>3 DEF Guarded
      <4>2. \A e \in Checked(s) : zone'[e] = zone[e]
        BY <2>1, <3>2, ReadHeld
      <4>3. \A d \in Radios : late'[d].by # k
        BY <3>3, <4>1
      <4> QED BY <3>6, <4>1, <4>2, <4>3
    <3> QED BY <2>1, <3>4, <3>5, <3>7 DEF JobTrue
  <2> QED BY <2>2, <2>3
<1>13. \A k \in Jobs : JobTrue(k, job'[k], zone', late') /\ Moves(job[k], job'[k])
  <2>1. \A k \in Jobs : k # j => Moves(job[k], job'[k])
    BY <1>11 DEF Moves
  <2> QED BY <1>10, <1>11, <1>12, <2>1
<1>14. \A k \in Jobs : Held(job'[k]) = Held(job[k])
  <2>1. Held(q) = Held(r)
    BY <1>1, <1>9 DEF Held, Holding
  <2> QED BY <1>11, <2>1
<1>15. ZoneInv'
  BY <1>5, <1>8, <1>11, <1>13, <1>14 DEF ZoneInv, ZoneTypeOK
<1> QED BY <1>13, <1>15 DEF ZoneStep

\* A write, taken or not, whatever the answer.
LEMMA SendStep ==
  ASSUME ZoneInv, NEW j \in Jobs, Send(j)
  PROVE  ZoneStep
<1> DEFINE m == job[j].master
           sent(took, rej) == Enter([job[j] EXCEPT !.writes = @ + 1, !.took = took, !.rounds = 0,
                                                   !.rejected = rej], "readback")
           told == [d \in Radios |->
                      IF d \in Affected(m, job[j].desired) \ {m}
                      THEN [zone |-> Adopted(m, job[j].desired, d), by |-> j] ELSE late[d]]
<1>1. PICK took \in BOOLEAN, rej \in BOOLEAN :
        /\ job[j].pc = "send" /\ Set(j, sent(took, rej))
        /\ IF took /\ Head(job[j].todo) = "setZone"
           THEN late' = told /\ zone' = [zone EXCEPT ![m] = Adopted(m, job[j].desired, m)]
           ELSE UNCHANGED <<late, zone>>
  <2>1. PICK took \in BOOLEAN, reply \in {"ok", "lost", "rejected"} :
          /\ job[j].pc = "send" /\ Set(j, sent(took, reply = "rejected"))
          /\ IF took /\ Head(job[j].todo) = "setZone"
             THEN late' = told /\ zone' = [zone EXCEPT ![m] = Adopted(m, job[j].desired, m)]
             ELSE UNCHANGED <<late, zone>>
    BY DEF Send
  <2>2. (reply = "rejected") \in BOOLEAN
    OBVIOUS
  <2> HIDE DEF sent, told
  <2> QED BY <2>1, <2>2
<1> DEFINE q == sent(took, rej)
<1>2. /\ q \in JobRecord /\ q.pc = "readback" /\ SameJob(job[j], q) /\ q.todo = job[j].todo
      /\ Shaped(q) /\ Moves(job[j], q) /\ Read(q) = {} /\ Checked(q) = {}
  <2>1. job[j].pc = "send" /\ took \in BOOLEAN /\ rej \in BOOLEAN
    BY <1>1, Zenon
  <2>2. JustSent(job[j], q)
    BY <2>1, SentRecord, Zenon
  <2> HIDE DEF q, sent, told
  <2> QED BY <2>2 DEF JustSent
<1>3. Set(j, q)
  BY <1>1
<1> HIDE DEF q, sent
<1>4. CASE took /\ Head(job[j].todo) = "setZone"
  <2>1. late' = told /\ zone' = [zone EXCEPT ![m] = Adopted(m, job[j].desired, m)]
    BY <1>1, <1>4
  <2> QED BY <1>1, <1>2, <1>3, <1>4, <2>1, TakenStep
<1>5. CASE ~(took /\ Head(job[j].todo) = "setZone")
  <2>1. zone' = zone /\ late' = late
    BY <1>1, <1>5
  <2>2. job[j] \in JobRecord /\ job[j].pc \in Holding /\ q.pc \in Holding
    BY <1>1, <1>2, JobHere DEF Holding
  <2>3. Unsent(q) => Unsent(job[j])
    BY <1>1, <1>2, <2>2, StillUnsent
  <2>4. ReadTrue(q, zone)
    BY <1>2 DEF ReadTrue
  <2> QED BY <1>2, <1>3, <2>1, <2>2, <2>3, <2>4, GoesOn
<1> QED BY <1>4, <1>5

-----------------------------------------------------------------------------
\* The invariant holds at first,
LEMMA ZoneInvInit ==
  ASSUME ZoneInit
  PROVE  ZoneInv /\ job = [j \in Jobs |-> NoJob]
<1>1. zone \in [Radios -> Zone]
  <2>1. [d \in Radios |-> Alone] \in [Radios -> Zone]
    BY AloneZone
  <2>2. ASSUME NEW m \in Radios, NEW ms \in SUBSET Radios PROVE Grouped(m, ms) \in [Radios -> Zone]
    <3>1. [master |-> m, members |-> ms] \in Zone
      BY DEF Zone
    <3> QED BY <3>1, AloneZone DEF Grouped
  <2> QED BY <2>1, <2>2 DEF ZoneInit
<1>2. late \in [Radios -> [zone : Zone, by : Jobs \cup {None}]]
  <2>1. Settled \in [zone : Zone, by : Jobs \cup {None}]
    BY AloneZone DEF Settled
  <2> QED BY <2>1 DEF ZoneInit
<1>3. job \in [Jobs -> JobRecord] /\ \A j \in Jobs : job[j] = NoJob
  BY NoJobRecord DEF ZoneInit
<1>4. Shaped(NoJob) /\ NoJob.pc \notin Holding
  BY NoJobRecord DEF Shaped, Tallied, Planned, Holding
<1>5. \A j \in Jobs : JobTrue(j, job[j], zone, late) /\ Held(job[j]) = {}
  BY <1>3, <1>4, NoJobRecord, Unheld
<1>6. job = [j \in Jobs |-> NoJob]
  BY DEF ZoneInit
<1> QED BY <1>1, <1>2, <1>3, <1>5, <1>6 DEF ZoneInv, ZoneTypeOK

\* and every step of every job and radio keeps it.
LEMMA ZoneInvStep ==
  ASSUME ZoneInv, [ZoneNext]_zoneVars
  PROVE  ZoneStep
<1>1. ASSUME NEW j \in Jobs,
             \/ RequestZone(j) \/ RequestClear(j) \/ RequestRemove(j) \/ Answer(j) \/ Peek(j)
             \/ Lock(j) \/ LockDenied(j) \/ Look(j) \/ Scan(j)
      PROVE  ZoneStep
  BY <1>1, RequestZoneStep, RequestClearStep, RequestRemoveStep, AnswerStep, PeekStep, LockStep,
     LockDeniedStep, LookStep, ScanStep
<1>2. ASSUME NEW j \in Jobs,
             \/ LookFails(j) \/ Commit(j) \/ CommitFails(j) \/ Send(j) \/ ReadBack(j)
             \/ RoundEnds(j) \/ CreationAborts(j) \/ ZoneCrash(j)
      PROVE  ZoneStep
  BY <1>2, FailingSteps, CommitStep, SendStep, ReadBackStep, RoundEndsStep, CrashStep
<1>3. ASSUME NEW d \in Radios, Adopt(d) PROVE ZoneStep
  BY <1>3, AdoptStep
<1>4. CASE OutsideChange
  BY <1>4, OutsideStep
<1>5. CASE UNCHANGED zoneVars
  <2>1. zone' = zone /\ late' = late /\ job' = job
    BY <1>5 DEF zoneVars
  <2>2. ZoneInv'
    BY <2>1 DEF ZoneInv, ZoneTypeOK
  <2> QED BY <2>1, <2>2 DEF ZoneStep, Moves
<1> QED BY <1>1, <1>2, <1>3, <1>4, <1>5 DEF ZoneNext

\* The invariant of the specification.
LEMMA ZoneInvariant == ZoneSpec => []ZoneInv
<1>1. ZoneInv /\ [ZoneNext]_zoneVars => ZoneInv'
  BY ZoneInvStep DEF ZoneStep
<1> QED BY <1>1, ZoneInvInit, PTL DEF ZoneSpec

\* Every radio's report, what its firmware still has to adopt and every job keep
\* their types, whatever radios, jobs and routes there are.
THEOREM ZoneTypeCorrect == ZoneSpec => []ZoneTypeOK
<1>1. ZoneInv => ZoneTypeOK
  BY DEF ZoneInv
<1> QED BY <1>1, ZoneInvariant, PTL

\* Where a job writes while nobody else regrouped radios, a radio outside its
\* scope keeps its zone.
LEMMA AffectedHeld ==
  ASSUME ZoneInv, NEW j \in Jobs, job[j].pc = "send", ~job[j].dirty, Unsent(job[j])
  PROVE  Affected(job[j].master, job[j].desired) \subseteq job[j].set
<1> DEFINE r == job[j]
           m == r.master
           gone == {m} \cup r.desired
<1>1. /\ r \in JobRecord /\ r.pc \in Holding /\ Planned(r) /\ r.set \in SUBSET Radios
  BY JobHere DEF Holding, JobRecord
<1>2. gone \subseteq r.set
  BY <1>1 DEF Planned
<1>3. Apart(r.set, zone) /\ \A e \in r.set : InScope(r, zone[e])
  BY <1>1, JobHere DEF Guarded, Checked
<1>4. ASSUME NEW d \in Radios, d \notin r.set PROVE Adopted(m, r.desired, d) = zone[d]
  <2>1. zone[d].master \notin gone
    BY <1>1, <1>2, <1>3, <1>4 DEF Apart, InScope
  <2>2. ASSUME zone[d].master = d PROVE zone[d].members \ gone = zone[d].members
    <3>1. ASSUME NEW e \in gone, e \in zone[d].members PROVE FALSE
      <4>1. e \in r.set /\ zone[e].master = d
        BY <1>2, <1>3, <1>4, <2>2, <3>1 DEF Apart
      <4>2. d \in r.set \cup {None}
        BY <1>3, <4>1 DEF InScope
      <4> QED BY <1>4, <4>2, ZoneAssumption
    <3> QED BY <3>1
  <2> QED BY <1>2, <1>4, <2>1, <2>2 DEF Adopted
<1> QED BY <1>4 DEF Affected

\* A topology write regroups only radios the job has selected and holds, while no
\* other controller and no late effect of an earlier write interfered.
THEOREM ScopeKeptHolds == ZoneSpec => ScopeKept
<1> DEFINE A == \A j \in Jobs :
                  job'[j].writes > job[j].writes /\ Head(job[j].todo) = "setZone" /\ ~job[j].dirty
                  => Affected(job[j].master, job[j].desired) \subseteq job[j].set
<1>1. ZoneInv /\ [ZoneNext]_zoneVars => [A]_zoneVars
  <2> SUFFICES ASSUME ZoneInv, [ZoneNext]_zoneVars, NEW j \in Jobs, job'[j].writes > job[j].writes,
                      Head(job[j].todo) = "setZone", ~job[j].dirty
               PROVE  Affected(job[j].master, job[j].desired) \subseteq job[j].set
    OBVIOUS
  <2>1. /\ Moves(job[j], job'[j]) /\ job[j].writes \in Nat /\ job'[j].writes \in Nat
        /\ job[j] \in JobRecord /\ Planned(job[j]) /\ job[j].todo \in Seq(Paths)
    BY ZoneInvStep, JobHere DEF ZoneStep, ZoneInv, ZoneTypeOK, JobRecord
  <2>2. job[j].pc = "send"
    BY <2>1 DEF Moves
  <2>3. Unsent(job[j])
    <3>1. job[j].todo # <<>>
      BY <2>1, <2>2 DEF Planned, Holding
    <3>2. 1 \in 1 .. Len(job[j].todo) /\ job[j].todo[1] = "setZone"
      BY <2>1, <3>1
    <3> QED BY <2>2, <3>2 DEF Unsent
  <2> QED BY <2>2, <2>3, AffectedHeld
<1> QED BY <1>1, ZoneInvariant, PTL DEF ZoneSpec, ScopeKept

\* VERIFIED is recorded only while every participant reports the topology, and
\* not only the radio that was addressed.
THEOREM VerifiedZoneHolds == ZoneSpec => VerifiedZone
<1> DEFINE A == \A j \in Jobs :
                  Open(j) /\ job'[j].outcome = "VERIFIED" /\ ~job[j].dirty
                  => \A d \in job[j].set : Confirmed(j, d)
<1>1. ZoneInv /\ [ZoneNext]_zoneVars => [A]_zoneVars
  <2> SUFFICES ASSUME ZoneInv, [ZoneNext]_zoneVars, NEW j \in Jobs, Open(j),
                      job'[j].outcome = "VERIFIED", ~job[j].dirty, NEW d \in job[j].set
               PROVE  Confirmed(j, d)
    OBVIOUS
  <2>1. Moves(job[j], job'[j]) /\ d \in Radios
    BY ZoneInvStep, JobHere DEF ZoneStep, JobRecord
  <2>2. job[j].pc = "final" /\ job[j].allOk
    BY <2>1 DEF Moves, Open
  <2>3. Good(job[j], d, zone[d])
    BY <2>2, JobHere DEF ReadTrue, Read
  <2> QED BY <2>1, <2>3, ConfirmedGood
<1> QED BY <1>1, ZoneInvariant, PTL DEF ZoneSpec, VerifiedZone

\* Each job of zone_changes.py and zone_creation.py implements the ledger: a write
\* follows its own durable intent, is not repeated for it, and a failure after a
\* write is never reported as BLOCKED.
THEOREM ZoneLedgerHolds == ZoneSpec => ZoneLedger
<1> DEFINE A == \A j \in Jobs : [JobLedger(j)!LedgerNext]_(JobLedger(j)!ledgerVars)
<1>1. ZoneInit => \A j \in Jobs : JobLedger(j)!LedgerInit
  <2> SUFFICES ASSUME ZoneInit, NEW j \in Jobs PROVE JobLedger(j)!LedgerInit
    OBVIOUS
  <2>1. job[j] = NoJob
    BY DEF ZoneInit
  <2> QED BY <2>1, NoJobRecord DEF JobLedger!LedgerInit
<1>2. ZoneInv /\ [ZoneNext]_zoneVars => [A]_zoneVars
  <2> SUFFICES ASSUME ZoneInv, [ZoneNext]_zoneVars, NEW j \in Jobs
               PROVE  [JobLedger(j)!LedgerNext]_(JobLedger(j)!ledgerVars)
    OBVIOUS
  <2>1. Moves(job[j], job'[j])
    BY ZoneInvStep DEF ZoneStep
  <2> DEFINE r == job[j]
             q == job'[j]
  <2>2. CASE q.intents = r.intents /\ q.writes = r.writes /\ q.outcome = r.outcome
    BY <2>2 DEF JobLedger!ledgerVars
  <2>3. CASE r.outcome # "open" /\ q.outcome = "open" /\ q.intents = 0 /\ q.writes = r.writes
    BY <2>3 DEF JobLedger!LedgerNext, JobLedger!Begin
  <2>4. CASE /\ r.outcome = "open" /\ q.outcome = "open" /\ r.intents = r.writes
             /\ q.intents = r.intents + 1 /\ q.writes = r.writes
    BY <2>4 DEF JobLedger!LedgerNext, JobLedger!Intend
  <2>5. CASE /\ r.outcome = "open" /\ q.outcome = "open" /\ r.writes < r.intents
             /\ q.intents = r.intents /\ q.writes = r.writes + 1
    BY <2>5 DEF JobLedger!LedgerNext, JobLedger!Write
  <2>6. CASE /\ r.outcome = "open" /\ q.outcome \in JobOutcomes \ {"open"}
             /\ q.outcome \in {"BLOCKED", "UNCHANGED"} => r.writes = 0
             /\ q.outcome \in {"VERIFIED", "DIVERGED"} => r.writes > 0
             /\ q.intents = 0 /\ q.writes = 0
    <3>1. q.outcome \in JobLedger(j)!Outcomes /\ q.outcome # "PENDING"
      BY <2>6 DEF JobOutcomes, JobLedger!Outcomes
    <3>2. JobLedger(j)!End(q.outcome)
      BY <2>6, <3>1 DEF JobLedger!End
    <3> QED BY <3>1, <3>2 DEF JobLedger!LedgerNext
  <2> QED BY <2>1, <2>2, <2>3, <2>4, <2>5, <2>6 DEF Moves
<1> QED BY <1>1, <1>2, ZoneInvariant, PTL DEF ZoneSpec, ZoneLedger
=============================================================================
