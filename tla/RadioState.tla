----------------------------- MODULE RadioState -----------------------------
(***************************************************************************)
(* A SoundTouch radio as the services see it, and what a request does to   *)
(* it. The radio is outside the program: only what the services read back  *)
(* (RebootSnapshot) and what their comments say of the firmware is kept.   *)
(***************************************************************************)
EXTENDS Naturals, Sequences

VARIABLES
  radio,      \* selection, volume, mute, zone and an unfinished activation
  target      \* version of the stored identity and address (device_fingerprint)

(* "loading" and "playing" are the content the commands ask for, "other"   *)
(* and "stopped" any other content, "invalid" is INVALID_SOURCE. "low" is  *)
(* the volume a command asks for.                                          *)
Selections == {"standby", "other", "stopped", "invalid", "loading", "playing"}

Snapshots == [sel : Selections, vol : {"low", "high"}, mute : BOOLEAN, zone : 0 .. 1]

RadioTypeOK ==
  /\ radio \in [sel : Selections, vol : {"low", "high"}, mute : BOOLEAN,
                zone : 0 .. 1, pend : BOOLEAN]
  /\ target \in Nat

RadioInit ==
  /\ radio \in [sel : {"standby", "other", "playing"}, vol : {"high"}, mute : BOOLEAN,
                zone : 0 .. 1, pend : {FALSE}]
  /\ target = 0

\* A complete HTTP snapshot of the radio.
Snap == [sel |-> radio.sel, vol |-> radio.vol, mute |-> radio.mute, zone |-> radio.zone]

\* A source that starts may bring back its remembered volume and drop the mute.
Activated ==
  {[radio EXCEPT !.sel = "loading", !.vol = v, !.mute = m, !.pend = FALSE] :
     v \in {radio.vol, "high"}, m \in {radio.mute, FALSE}}

\* An acknowledged start takes effect later, out of standby always.
Deferred == [radio EXCEPT !.pend = TRUE]
Started == {Deferred} \cup (IF radio.sel = "standby" THEN {} ELSE Activated)

\* What a request that reaches the radio does to it.
Effect(step) ==
  CASE step = "volume"             -> {[radio EXCEPT !.vol = "low"]}
    [] step = "set"                -> {[radio EXCEPT !.vol = "high"]}
    [] step \in {"mute", "unmute"} -> {[radio EXCEPT !.mute = ~@]}
    [] step \in {"start", "select", "fallback"} -> Started
    [] step \in {"stop", "halt"}   ->
         {[radio EXCEPT !.sel = IF @ = "standby" THEN @ ELSE "stopped", !.pend = FALSE]}
    [] step = "standby"            -> {[radio EXCEPT !.sel = "standby", !.pend = FALSE]}
    [] step = "wake"               -> {[radio EXCEPT !.sel = "other"]}
    [] step = "native"             -> {radio, [radio EXCEPT !.sel = "other"]}
    [] OTHER                       -> {radio}

\* The late effect of a start.
FirmwareActivates == radio.pend /\ radio' \in Activated /\ UNCHANGED target

\* People and controllers the program cannot lock out, and a device moved in
\* the database (a new address or identity).
OutsideChange ==
  \/ /\ \/ radio' = [radio EXCEPT !.vol = "high"]
        \/ radio' = [radio EXCEPT !.mute = ~@]
        \/ \E s \in {"standby", "other", "stopped"} :
             radio' = [radio EXCEPT !.sel = s, !.pend = FALSE]
        \/ radio' = [radio EXCEPT !.zone = 1 - @]
     /\ radio' # radio
     /\ UNCHANGED target
  \/ target' = target + 1 /\ UNCHANGED radio
=============================================================================
