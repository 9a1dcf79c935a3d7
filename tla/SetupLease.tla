----------------------------- MODULE SetupLease -----------------------------
(***************************************************************************)
(* The one global lease that serialises setup jobs, startup reviews and    *)
(* reboot batches (setup_rebuild/lease.py and the conditional update in    *)
(* radio_reboots.py).  Its decisions are single conditional SQL statements *)
(* on one row, so each is one action here.                                 *)
(*                                                                         *)
(* A holder stands for a pair of owner and job identities.  The expiry     *)
(* time is reduced to live: whether it is still in the future.  It may     *)
(* pass at any moment, because the process that should renew may stall.    *)
(***************************************************************************)
CONSTANTS
  Holders,    \* pairs of an owner and a job
  NoHolder    \* the empty owner and job of a released row

ASSUME LeaseAssumption == NoHolder \notin Holders

VARIABLE lease

FreeLease == [holder |-> NoHolder, live |-> FALSE]
HeldBy(h) == [holder |-> h, live |-> TRUE]

\* Type invariant: a released row has no expiry time.
LeaseTypeOK ==
  /\ lease \in [holder : Holders \cup {NoHolder}, live : BOOLEAN]
  /\ lease.holder = NoHolder => ~lease.live

\* The lease is owned by h and has not expired.
Owns(h) == lease.holder = h /\ lease.live

\* The condition of acquire(): free, expired, or already this holder's.
MayAcquire(h) == lease.holder = NoHolder \/ ~lease.live \/ lease.holder = h

Acquire(h) == MayAcquire(h) /\ lease' = HeldBy(h)

\* renew(): a heartbeat extends an unexpired lease and never revives another.
Renew(h) == Owns(h) /\ lease' = HeldBy(h)

\* A release that clears the row whoever holds it now.
AnyReleased(h) == FreeLease

\* release(): the row is cleared only when it is still this holder's.
Released(h) == IF lease.holder = h THEN FreeLease ELSE lease

Release(h) == lease' = Released(h)

\* The expiry time passes.
Expire ==
  /\ lease.live
  /\ lease' = [lease EXCEPT !.live = FALSE]

LeaseInit == lease = FreeLease

LeaseNext ==
  \/ \E h \in Holders : Acquire(h) \/ Renew(h) \/ Release(h)
  \/ Expire

LeaseSpec == LeaseInit /\ [][LeaseNext]_lease

=============================================================================
