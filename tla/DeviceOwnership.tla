--------------------------- MODULE DeviceOwnership ---------------------------
(***************************************************************************)
(* Per-device ownership shared by the workers (device_ownership.py), the   *)
(* registry of lock objects each worker keeps (device_policy.device_lock), *)
(* and the nested, multi-target transactions built on it                   *)
(* (device_transactions.py).                                               *)
(*                                                                         *)
(* A worker is an operating-system process; its tasks are asyncio tasks.   *)
(* Within a worker one DeviceOwnership object per device is shared by all  *)
(* tasks: slot[w][d] is its pair (_fd, _owner).  The kernel's flock table  *)
(* is flocks: one record per open lock file that holds the advisory lock.  *)
(* A lock file is named by its path; inode[d] is the file the path of d    *)
(* leads to now, and an external replacement of the namespace changes it.  *)
(*                                                                         *)
(* Code between two awaits of a task runs without interruption by another  *)
(* task of that worker, and what other workers can observe of it is the    *)
(* flock table only, so one such stretch of code is one action.            *)
(***************************************************************************)
EXTENDS Naturals, Sequences, FiniteSets

CONSTANTS
  Workers,     \* worker processes that mount the same lock directory
  Tasks,       \* asyncio tasks
  Devices,     \* stable device identities
  NoTask,      \* Python's None for an owner
  WorkerOf,    \* the worker each task runs in
  Rank,        \* the canonical (sorted) order of the identities
  Replaceable, \* radios whose lock file someone outside may replace
  MaxDepth,    \* bound: nesting of transactions in one task
  MaxInode     \* bound: 1 + the number of replacements of one lock file

ASSUME OwnershipAssumption ==
  /\ WorkerOf \in [Tasks -> Workers]
  /\ NoTask \notin Tasks
  /\ Rank \in [Devices -> Nat]
  /\ \A d, e \in Devices : Rank[d] = Rank[e] => d = e
  /\ Replaceable \subseteq Devices
  /\ MaxDepth \in Nat \ {0}
  /\ MaxInode \in Nat \ {0}

VARIABLES
  inode,    \* [Devices -> inode number the lock path leads to]
  flocks,   \* set of open lock files that hold the kernel lock
  slot,     \* [Workers -> [Devices -> (_fd, _owner)]], the shared lock objects
  fd,       \* [Tasks -> inode of the descriptor open in acquire(), 0 if none]
  active,   \* [Tasks -> value of the context variable _active]
  stack     \* [Tasks -> sequence of entered or entering ownership scopes]

vars == <<inode, flocks, slot, fd, active, stack>>

Inodes == 1 .. MaxInode
Flock == [dev : Devices, ino : Inodes, task : Tasks]
Slot == [ino : 0 .. MaxInode, owner : Tasks \cup {NoTask}]
FreeSlot == [ino |-> 0, owner |-> NoTask]
Active == [task : Tasks \cup {NoTask}, ids : SUBSET Devices]
NoActive == [task |-> NoTask, ids |-> {}]

\* One scope of a task: a device_transaction ("txn"), or locks taken directly
\* with device_lock(...).acquire() ("raw").  need: targets still to acquire;
\* got: targets this scope acquired itself; prev: the context variable's token.
Frame == [kind : {"txn", "raw"}, ids : SUBSET Devices, need : SUBSET Devices,
          got : SUBSET Devices, prev : Active, body : BOOLEAN]

\* Type invariant of the kernel table, the scopes and the shared lock objects.
\* acquire() sets _fd and _owner together and release() clears both: an owner
\* without a descriptor, or the reverse, is not a state of the lock object.
TypeOK ==
  /\ inode \in [Devices -> Inodes]
  /\ flocks \in SUBSET Flock
  /\ slot \in [Workers -> [Devices -> Slot]]
  /\ fd \in [Tasks -> 0 .. MaxInode]
  /\ active \in [Tasks -> Active]
  /\ stack \in [Tasks -> Seq(Frame)]
  /\ \A w \in Workers, d \in Devices :
       slot[w][d].ino = 0 <=> slot[w][d].owner = NoTask

Init ==
  /\ inode = [d \in Devices |-> 1]
  /\ flocks = {}
  /\ slot = [w \in Workers |-> [d \in Devices |-> FreeSlot]]
  /\ fd = [t \in Tasks |-> 0]
  /\ active = [t \in Tasks |-> NoActive]
  /\ stack = [t \in Tasks |-> <<>>]

-----------------------------------------------------------------------------
(***************************************************************************)
(* Helpers of the lock object                                              *)
(***************************************************************************)

SlotOf(t, d) == slot[WorkerOf[t]][d]

\* A borrow check that forgets to compare the owner with the current task.
OwnedByAnyTask(t, d) == SlotOf(t, d).ino # 0

\* owned_by_current_task(): explicit borrowing is limited to the owner task.
OwnedByCurrentTask(t, d) == SlotOf(t, d).ino # 0 /\ SlotOf(t, d).owner = t

\* A flock in shared mode conflicts with nothing.
FlockShared(d, i) == FALSE

\* flock(LOCK_EX | LOCK_NB) would block: another open file holds the lock.
FlockHeld(d, i) == \E r \in flocks : r.dev = d /\ r.ino = i

\* locked(): the worker's own object is owned, or a momentary non-blocking
\* flock of the current lock file fails.
Locked(w, d) == slot[w][d].ino # 0 \/ FlockHeld(d, inode[d])

Top(t) == stack[t][Len(stack[t])]

\* A task is acquiring while its innermost scope has not reached its body.
Acquiring(t) == stack[t] # <<>> /\ ~Top(t).body

\* A task executes its own code outside any scope or in the body of one.
Running(t) == ~Acquiring(t)

\* Targets of raw locks taken in reverse order.
UnsortedTarget(t, d) ==
  /\ d \in Top(t).need
  /\ \A e \in Top(t).need :
       IF Top(t).kind = "raw" THEN Rank[d] >= Rank[e] ELSE Rank[d] <= Rank[e]

\* sorted(identities): the next target is the least one still needed.
NextTarget(t, d) ==
  /\ d \in Top(t).need
  /\ \A e \in Top(t).need : Rank[d] <= Rank[e]

Push(t, f) == stack' = [stack EXCEPT ![t] = Append(@, f)]
ReplaceTop(t, f) == stack' = [stack EXCEPT ![t][Len(stack[t])] = f]

\* The context variable inside the body: the outermost target set of this task.
ActiveInBody(t, f) ==
  IF f.kind = "raw" THEN active[t]
  ELSE [task |-> t, ids |-> IF active[t].task = t THEN active[t].ids ELSE f.ids]

-----------------------------------------------------------------------------
(***************************************************************************)
(* Entering a scope                                                        *)
(***************************************************************************)

\* The inner targets are a subset of those of the task's outer transaction; an
\* inherited context, set by another task, does not count.
WithinOuter(t, ids) == active[t].task = t => ids \subseteq active[t].ids

\* device_transaction(): refuse an expansion of the targets this task already
\* holds, borrow all of them or none, and start acquiring what is not borrowed.
\* A refusal (DeviceBusy, DeviceLockUnavailable) changes no state, so it is the
\* guard.  The callers that hold a raw lock only ever nest a transaction that
\* targets a radio they locked (ssh persistence, reconnect, keepalive, reboot).
EnterTransaction(t, ids) ==
  LET borrowed == {d \in ids : OwnedByCurrentTask(t, d)}
      f == [kind |-> "txn", ids |-> ids, need |-> ids \ borrowed, got |-> {},
            prev |-> active[t], body |-> borrowed = ids]
  IN /\ Running(t)
     /\ Len(stack[t]) < MaxDepth
     /\ ids # {}
     /\ stack[t] # <<>> /\ Top(t).kind = "raw" => ids \cap Top(t).ids # {}
     /\ WithinOuter(t, ids)
     /\ borrowed \in {{}, ids}
     /\ Push(t, f)
     /\ active' = IF f.body THEN [active EXCEPT ![t] = ActiveInBody(t, f)] ELSE active
     /\ UNCHANGED <<inode, flocks, slot, fd>>

\* device_lock(...).acquire() by a task outside any transaction: one radio, or
\* the radios of a reboot batch in sorted order.
EnterRaw(t, ids) ==
  /\ stack[t] = <<>>
  /\ ids # {}
  /\ \A d \in ids : ~OwnedByCurrentTask(t, d)
  /\ Push(t, [kind |-> "raw", ids |-> ids, need |-> ids, got |-> {},
              prev |-> NoActive, body |-> FALSE])
  /\ UNCHANGED <<inode, flocks, slot, fd, active>>

\* acquire(): _open() the lock file of the next target.
OpenLock(t, d) ==
  /\ Acquiring(t)
  /\ NextTarget(t, d)
  /\ fd[t] = 0
  /\ fd' = [fd EXCEPT ![t] = inode[d]]
  /\ UNCHANGED <<inode, flocks, slot, active, stack>>

\* An acquisition that trusts the descriptor it opened before waiting.
NamespaceUnchecked(t, d) == TRUE

\* _same_namespace(): the path still leads to the opened file.
SameNamespace(t, d) == fd[t] = inode[d]

\* acquire(): the non-blocking flock succeeds and _same_namespace() confirms
\* the file is still the one the path leads to; the last target enters the body.
TryLock(t, d) ==
  LET f == [Top(t) EXCEPT !.need = @ \ {d}, !.got = @ \cup {d},
                   !.body = (Top(t).need = {d})]
  IN /\ Acquiring(t)
     /\ NextTarget(t, d)
     /\ fd[t] # 0
     /\ ~FlockHeld(d, fd[t])
     /\ SameNamespace(t, d)
     /\ flocks' = flocks \cup {[dev |-> d, ino |-> fd[t], task |-> t]}
     /\ slot' = [slot EXCEPT ![WorkerOf[t]][d] = [ino |-> fd[t], owner |-> t]]
     /\ fd' = [fd EXCEPT ![t] = 0]
     /\ ReplaceTop(t, f)
     /\ active' = IF f.body THEN [active EXCEPT ![t] = ActiveInBody(t, f)] ELSE active
     /\ UNCHANGED inode

-----------------------------------------------------------------------------
(***************************************************************************)
(* Leaving a scope                                                         *)
(***************************************************************************)

\* The finally block releases the acquired targets in reverse order.  release()
\* raises when the shared object is no longer owned by this task, and the loop
\* ends there: only the targets before the first such one are released.
Released(t) ==
  {d \in Top(t).got :
     \A e \in Top(t).got : Rank[e] >= Rank[d] => OwnedByCurrentTask(t, e)}

\* release(): the descriptor is closed and both fields are cleared.
Cleared(s) == FreeSlot

\* _active.reset(token), when the scope had set it.
RestoredContext(t) ==
  IF Top(t).kind = "txn" /\ Top(t).body THEN Top(t).prev ELSE active[t]

\* Unwind the innermost scope: reset the context variable, release, close.
PopScope(t) ==
  LET rel == Released(t)
      w == WorkerOf[t]
  IN /\ slot' = [slot EXCEPT ![w] = [d \in Devices |->
                   IF d \in rel THEN Cleared(slot[w][d]) ELSE slot[w][d]]]
     /\ flocks' = {r \in flocks : ~(r.task = t /\ r.dev \in rel
                                    /\ r.ino = slot[w][r.dev].ino)}
     /\ active' = [active EXCEPT ![t] = RestoredContext(t)]
     /\ stack' = [stack EXCEPT ![t] = SubSeq(@, 1, Len(@) - 1)]
     /\ fd' = [fd EXCEPT ![t] = 0]
     /\ UNCHANGED inode

\* acquire() gives up: the deadline passed (DeviceBusy) or the task was
\* cancelled in its wait, both only while another open file holds the lock.
GiveUp(t, d) ==
  /\ Acquiring(t)
  /\ NextTarget(t, d)
  /\ fd[t] # 0
  /\ FlockHeld(d, fd[t])
  /\ PopScope(t)

\* acquire() cannot verify ownership (DeviceLockUnavailable): a file of the
\* namespace is unsafe or unreachable, or the flock succeeded on a file the
\* path no longer leads to.
Unavailable(t, d) ==
  /\ Acquiring(t)
  /\ NextTarget(t, d)
  /\ ~FlockHeld(d, fd[t])
  /\ PopScope(t)

\* The body ends, normally, by an exception or by cancellation.
Leave(t) ==
  /\ stack[t] # <<>>
  /\ Top(t).body
  /\ PopScope(t)

-----------------------------------------------------------------------------
(***************************************************************************)
(* Tasks, workers and the file system                                      *)
(***************************************************************************)

\* Something still refers to the Task object u, so no new task is u.
Referenced(u) ==
  \/ \E v \in Tasks : active[v].task = u
  \/ \E v \in Tasks : \E k \in DOMAIN stack[v] : stack[v][k].prev.task = u
  \/ \E r \in flocks : r.task = u

\* A new task u inherits its creator's context, _active included.
Spawn(t, u) ==
  /\ t # u
  /\ WorkerOf[t] = WorkerOf[u]
  /\ Running(t)
  /\ stack[u] = <<>>
  /\ ~Referenced(u)
  /\ active' = [active EXCEPT ![u] = active[t]]
  /\ UNCHANGED <<inode, flocks, slot, fd, stack>>

\* A worker dies: the kernel closes its descriptors and with them its locks.
Crash(w) ==
  LET mine == {t \in Tasks : WorkerOf[t] = w}
  IN /\ flocks' = {r \in flocks : r.task \notin mine}
     /\ slot' = [slot EXCEPT ![w] = [d \in Devices |-> FreeSlot]]
     /\ fd' = [t \in Tasks |-> IF t \in mine THEN 0 ELSE fd[t]]
     /\ active' = [t \in Tasks |-> IF t \in mine THEN NoActive ELSE active[t]]
     /\ stack' = [t \in Tasks |-> IF t \in mine THEN <<>> ELSE stack[t]]
     /\ UNCHANGED inode

\* Someone outside the application replaces the lock file of a device.
ReplaceFile(d) ==
  /\ d \in Replaceable
  /\ inode[d] < MaxInode
  /\ inode' = [inode EXCEPT ![d] = @ + 1]
  /\ UNCHANGED <<flocks, slot, fd, active, stack>>

\* One poll of acquire().
AcquireStep(t) ==
  \E d \in Devices :
    OpenLock(t, d) \/ TryLock(t, d) \/ GiveUp(t, d) \/ Unavailable(t, d)

Next ==
  \/ \E t \in Tasks, ids \in SUBSET Devices : EnterTransaction(t, ids)
  \/ \E t \in Tasks, ids \in SUBSET Devices : EnterRaw(t, ids)
  \/ \E t \in Tasks : AcquireStep(t)
  \/ \E t \in Tasks : Leave(t)
  \/ \E t, u \in Tasks : Spawn(t, u)
  \/ \E w \in Workers : Crash(w)
  \/ \E d \in Devices : ReplaceFile(d)

Spec == Init /\ [][Next]_vars

-----------------------------------------------------------------------------
(***************************************************************************)
(* Properties                                                              *)
(***************************************************************************)

\* Task t executes inside a scope that promises it exclusive use of d.
InBody(t, d) ==
  \E k \in DOMAIN stack[t] : stack[t][k].body /\ d \in stack[t][k].ids

\* device_ownership.py, module docstring: while its lock file is never
\* replaced, a radio is inside the body of at most one task of all workers,
\* nested scopes and borrowed locks included.
ExclusiveBody ==
  \A t, u \in Tasks, d \in Devices :
    InBody(t, d) /\ InBody(u, d) /\ t # u => inode[d] > 1

\* acquire(): two lock objects never own a radio through the same lock file.
OneOwner ==
  \A t, u \in Tasks, d \in Devices :
    /\ OwnedByCurrentTask(t, d)
    /\ OwnedByCurrentTask(u, d)
    /\ SlotOf(t, d).ino = SlotOf(u, d).ino
    => t = u

\* acquire() with _same_namespace(): a waiter that opened its lock file before
\* a replacement is never granted ownership beside an owner of the new file.
GrantNewest ==
  [][\A r \in flocks' \ flocks : \A q \in flocks :
       q.dev = r.dev => q.ino < r.ino]_vars

\* Task t polls a lock file that task u holds locked.
WaitsFor(t, u) ==
  /\ Acquiring(t)
  /\ \E r \in flocks : r.task = u /\ NextTarget(t, r.dev) /\ r.ino = inode[r.dev]

\* device_transactions.py, module docstring: sorted acquisition and no expansion
\* of the target set exclude deadlock. While no lock file is replaced, every
\* set of tasks has a member that waits for none of them.
NoCircularWait ==
  (\A d \in Devices : inode[d] = 1) =>
    \A S \in (SUBSET Tasks) \ {{}} : \E t \in S : \A u \in S : ~WaitsFor(t, u)

=============================================================================
