---------------------------- MODULE SetupProofs ----------------------------
(***************************************************************************)
(* Theorems about SetupCoordinator, for any number of processes, jobs,     *)
(* radios, approved plans and faults.                                      *)
(***************************************************************************)
EXTENDS SetupCoordinator, TLAPS

-----------------------------------------------------------------------------
(***************************************************************************)
(* The sequence of a plan                                                  *)
(***************************************************************************)

\* Where an operation stands in every sequence it is part of.
Rank(op) ==
  CASE op = "identify" -> 1 [] op = "presentation_preflight" -> 2 [] op = "backup" -> 3
    [] op = "save" -> 4 [] op = "restore_prepare" -> 5 [] op = "restore_activate" -> 6
    [] op = "ssh_status" -> 7 [] op = "activate_ssh" -> 8 [] op = "persist_ssh" -> 9
    [] op = "reboot_verify_ssh" -> 10 [] op = "presentation_prepare" -> 11
    [] op = "backup_routing" -> 12 [] op = "route" -> 13
    [] op = "presentation_activate" -> 14 [] op = "reboot" -> 15 [] op = "reconnect" -> 16
    [] op = "restore_verify" -> 17 [] op = "presentation_verify" -> 18
    [] op = "configure_defaults" -> 19 [] op = "pair_account" -> 20
    [] op = "read_presets" -> 21 [] op = "playback_test" -> 22 [] OTHER -> 0

Steps == [to : SetupState \ {"UNKNOWN", "ROLLED_BACK"}, op : Operations \cup {"none", "save"}]

\* A part of a sequence, of at most n steps: its operations have ranks from a to
\* b, each greater than the one before.  Only the last part ends in VERIFIED.
Part(s, a, b, n, e) ==
  /\ s \in Seq(Steps)
  /\ Len(s) <= n
  /\ e = "last" => Len(s) > 0 /\ s[Len(s)].to = "VERIFIED"
  /\ \A i \in 1 .. Len(s) :
       /\ s[i].to = "VERIFIED" => e = "last" /\ i = Len(s) /\ s[i].op = "none"
       /\ s[i].op # "none" => Rank(s[i].op) \in a .. b
       /\ \A m \in 1 .. Len(s) : m < i /\ s[i].op # "none" /\ s[m].op # "none"
                                   => Rank(s[m].op) < Rank(s[i].op)

\* The elements of a concatenation.
LEMMA Concatenation ==
  ASSUME NEW S, NEW s \in Seq(S), NEW t \in Seq(S)
  PROVE  /\ s \o t \in Seq(S) /\ Len(s \o t) = Len(s) + Len(t)
         /\ Len(s) \in Nat /\ Len(t) \in Nat
         /\ \A i \in 1 .. Len(s) : (s \o t)[i] = s[i]
         /\ \A i \in 1 .. Len(t) : (s \o t)[Len(s) + i] = t[i]
OBVIOUS

\* Parts follow each other.
LEMMA PartsJoin ==
  ASSUME NEW s, NEW t, NEW a \in Nat, NEW b \in Nat, NEW c \in Nat, NEW d \in Nat,
         NEW n \in Nat, NEW m \in Nat, NEW e,
         Part(s, a, b, n, "middle"), Part(t, c, d, m, e), b < c, a <= c, b <= d
  PROVE  Part(s \o t, a, d, n + m, e)
<1> DEFINE r == s \o t
<1>1. s \in Seq(Steps) /\ t \in Seq(Steps) /\ Len(s) \in Nat /\ Len(t) \in Nat
  BY DEF Part
<1>2. /\ r \in Seq(Steps) /\ Len(r) = Len(s) + Len(t)
      /\ \A i \in 1 .. Len(s) : r[i] = s[i]
      /\ \A i \in 1 .. Len(t) : r[Len(s) + i] = t[i]
  BY <1>1
<1>3. \A i \in 1 .. Len(r) : \/ i \in 1 .. Len(s)
                             \/ /\ i > Len(s) /\ i - Len(s) \in 1 .. Len(t)
                                /\ r[i] = t[i - Len(s)]
  BY <1>1, <1>2
<1> HIDE DEF r
<1>4. ASSUME NEW i \in 1 .. Len(r)
      PROVE  /\ r[i].to = "VERIFIED" => e = "last" /\ i = Len(r) /\ r[i].op = "none"
             /\ r[i].op # "none" => Rank(r[i].op) \in a .. d
  <2>1. CASE i \in 1 .. Len(s)
    BY <1>2, <2>1 DEF Part
  <2>2. CASE i \notin 1 .. Len(s)
    <3> DEFINE x == i - Len(s)
    <3>1. x \in 1 .. Len(t) /\ r[i] = t[x] /\ (x = Len(t) => i = Len(r))
      BY <1>1, <1>2, <1>3, <2>2
    <3> HIDE DEF x
    <3> QED BY <3>1 DEF Part
  <2> QED BY <2>1, <2>2
<1>5. ASSUME NEW i \in 1 .. Len(r), NEW k \in 1 .. Len(r), k < i, r[i].op # "none",
             r[k].op # "none"
      PROVE  Rank(r[k].op) < Rank(r[i].op)
  <2>1. CASE i \in 1 .. Len(s)
    <3>1. k \in 1 .. Len(s)
      BY <1>1, <1>5, <2>1
    <3> QED BY <1>2, <1>5, <2>1, <3>1 DEF Part
  <2>2. CASE i \notin 1 .. Len(s) /\ k \in 1 .. Len(s)
    <3>1. Rank(r[k].op) \in a .. b
      BY <1>2, <1>5, <2>2 DEF Part
    <3>2. Rank(r[i].op) \in c .. d
      BY <1>3, <1>5, <2>2 DEF Part
    <3> QED BY <3>1, <3>2
  <2>3. CASE i \notin 1 .. Len(s) /\ k \notin 1 .. Len(s)
    <3> DEFINE x == i - Len(s)
               y == k - Len(s)
    <3>1. x \in 1 .. Len(t) /\ y \in 1 .. Len(t) /\ r[i] = t[x] /\ r[k] = t[y] /\ y < x
      BY <1>1, <1>2, <1>3, <1>5, <2>3
    <3> HIDE DEF x, y
    <3> QED BY <1>5, <3>1 DEF Part
  <2> QED BY <2>1, <2>2, <2>3
<1>6. Len(r) <= n + m /\ (e = "last" => Len(r) > 0 /\ r[Len(r)].to = "VERIFIED")
  <2>1. Len(s) <= n /\ Len(t) <= m /\ (e = "last" => Len(t) > 0 /\ t[Len(t)].to = "VERIFIED")
    BY DEF Part
  <2> QED BY <1>1, <1>2, <2>1
<1> QED BY <1>2, <1>4, <1>5, <1>6 DEF Part, r

\* What a step may reach and do.
Reached == {"DISCOVERED", "IDENTIFIED", "PRESENTATION_PREFLIGHT", "BACKUP_PENDING", "BACKUP_COMPLETE",
            "ORIGINAL_PREPARED", "ORIGINAL_CONFIGURED", "ORIGINAL_VERIFIED", "SSH_STATUS_PENDING",
            "SSH_ALREADY_ACTIVE", "SSH_ACTIVATION_PENDING", "SSH_TEMPORARY_ACTIVE",
            "SSH_PERSISTENCE_PENDING", "SSH_REBOOT_PENDING", "SSH_VERIFIED", "PRESENTATION_PREPARED",
            "ROUTING_BACKUP_COMPLETE", "BASSWIESN_ROUTE_PENDING", "BASSWIESN_ROUTE_ACTIVE",
            "PRESENTATION_CONFIGURED", "RADIO_REBOOT_PENDING", "RADIO_REBOOTED",
            "RADIO_RECONNECT_PENDING", "RADIO_REACHABLE", "PRESENTATION_VERIFIED",
            "MARGE_ACCOUNT_PENDING", "MARGE_ACCOUNT_ACTIVE", "PRESETS_READABLE", "PLAYBACK_READY",
            "VERIFIED"}
Done == Operations \cup {"none", "save"}

\* The ranks, one by one.
LEMMA Ranks ==
  /\ Rank("identify") = 1 /\ Rank("presentation_preflight") = 2
  /\ Rank("backup") = 3 /\ Rank("save") = 4
  /\ Rank("restore_prepare") = 5 /\ Rank("restore_activate") = 6
  /\ Rank("ssh_status") = 7 /\ Rank("activate_ssh") = 8
  /\ Rank("persist_ssh") = 9 /\ Rank("reboot_verify_ssh") = 10
  /\ Rank("presentation_prepare") = 11 /\ Rank("backup_routing") = 12
  /\ Rank("route") = 13 /\ Rank("presentation_activate") = 14
  /\ Rank("reboot") = 15 /\ Rank("reconnect") = 16
  /\ Rank("restore_verify") = 17 /\ Rank("presentation_verify") = 18
  /\ Rank("configure_defaults") = 19 /\ Rank("pair_account") = 20
  /\ Rank("read_presets") = 21 /\ Rank("playback_test") = 22
BY DEF Rank

\* A step of the sequence.
LEMMA StepType ==
  ASSUME NEW to \in Reached, NEW op \in Done
  PROVE  Step(to, op) \in Steps /\ Step(to, op).to = to /\ Step(to, op).op = op
<1>1. to \in SetupState \ {"UNKNOWN", "ROLLED_BACK"}
  BY DEF Reached, SetupState, Successors
<1> QED BY <1>1 DEF Step, Steps, Done

\* Their names.
LEMMA Names ==
  /\ "DISCOVERED" \in Reached /\ "IDENTIFIED" \in Reached
  /\ "PRESENTATION_PREFLIGHT" \in Reached /\ "BACKUP_PENDING" \in Reached
  /\ "BACKUP_COMPLETE" \in Reached /\ "ORIGINAL_PREPARED" \in Reached
  /\ "ORIGINAL_CONFIGURED" \in Reached /\ "ORIGINAL_VERIFIED" \in Reached
  /\ "SSH_STATUS_PENDING" \in Reached /\ "SSH_ALREADY_ACTIVE" \in Reached
  /\ "SSH_ACTIVATION_PENDING" \in Reached /\ "SSH_TEMPORARY_ACTIVE" \in Reached
  /\ "SSH_PERSISTENCE_PENDING" \in Reached /\ "SSH_REBOOT_PENDING" \in Reached
  /\ "SSH_VERIFIED" \in Reached /\ "PRESENTATION_PREPARED" \in Reached
  /\ "ROUTING_BACKUP_COMPLETE" \in Reached /\ "BASSWIESN_ROUTE_PENDING" \in Reached
  /\ "BASSWIESN_ROUTE_ACTIVE" \in Reached /\ "PRESENTATION_CONFIGURED" \in Reached
  /\ "RADIO_REBOOT_PENDING" \in Reached /\ "RADIO_REBOOTED" \in Reached
  /\ "RADIO_RECONNECT_PENDING" \in Reached /\ "RADIO_REACHABLE" \in Reached
  /\ "PRESENTATION_VERIFIED" \in Reached /\ "MARGE_ACCOUNT_PENDING" \in Reached
  /\ "MARGE_ACCOUNT_ACTIVE" \in Reached /\ "PRESETS_READABLE" \in Reached
  /\ "PLAYBACK_READY" \in Reached /\ "VERIFIED" \in Reached
  /\ "identify" \in Done /\ "presentation_preflight" \in Done /\ "backup" \in Done
  /\ "save" \in Done /\ "restore_prepare" \in Done /\ "restore_activate" \in Done
  /\ "ssh_status" \in Done /\ "activate_ssh" \in Done /\ "persist_ssh" \in Done
  /\ "reboot_verify_ssh" \in Done /\ "presentation_prepare" \in Done
  /\ "backup_routing" \in Done /\ "route" \in Done /\ "presentation_activate" \in Done
  /\ "reboot" \in Done /\ "reconnect" \in Done /\ "restore_verify" \in Done
  /\ "presentation_verify" \in Done /\ "configure_defaults" \in Done /\ "pair_account" \in Done
  /\ "read_presets" \in Done /\ "playback_test" \in Done /\ "none" \in Done
BY DEF Reached, Done, Operations, Writes

\* Parts of one, two and three steps.
PairOf(t, o, u, p) == <<Step(t, o), Step(u, p)>>
TripleOf(t, o, u, p, v, q) == <<Step(t, o), Step(u, p), Step(v, q)>>

\* A part of one step.
LEMMA OnePart ==
  ASSUME NEW t \in Reached, NEW o \in Done, t # "VERIFIED", NEW a \in Nat, NEW b \in Nat,
         o # "none" => Rank(o) \in a .. b, NEW n \in Nat \ {0}
  PROVE  Part(<<Step(t, o)>>, a, b, n, "middle")
<1> DEFINE s == <<Step(t, o)>>
<1>1. s \in Seq(Steps) /\ Len(s) = 1 /\ s[1].to = t /\ s[1].op = o
  BY StepType
<1> HIDE DEF s
<1>2. Part(s, a, b, n, "middle")
  BY <1>1 DEF Part
<1> QED BY <1>2 DEF s

\* A part of two steps.
LEMMA TwoPart ==
  ASSUME NEW t \in Reached, NEW o \in Done, NEW u \in Reached, NEW p \in Done,
         t # "VERIFIED", u # "VERIFIED", NEW a \in Nat, NEW b \in Nat,
         o # "none" => Rank(o) \in a .. b, p # "none" => Rank(p) \in a .. b,
         o # "none" /\ p # "none" => Rank(o) < Rank(p)
  PROVE  Part(PairOf(t, o, u, p), a, b, 2, "middle")
<1> DEFINE s == <<Step(t, o), Step(u, p)>>
<1>1. /\ s \in Seq(Steps) /\ Len(s) = 2
      /\ s[1].to = t /\ s[1].op = o /\ s[2].to = u /\ s[2].op = p
  BY StepType
<1>2. \A i \in 1 .. 2 : i = 1 \/ i = 2
  OBVIOUS
<1> HIDE DEF s
<1>3. Part(s, a, b, 2, "middle")
  BY <1>1, <1>2 DEF Part
<1> QED BY <1>3 DEF s, PairOf

\* A part of three steps.
LEMMA ThreePart ==
  ASSUME NEW t \in Reached, NEW o \in Done, NEW u \in Reached, NEW p \in Done,
         NEW v \in Reached, NEW q \in Done, NEW e, NEW a \in Nat, NEW b \in Nat,
         t # "VERIFIED", u # "VERIFIED", v = "VERIFIED" <=> e = "last", v = "VERIFIED" => q = "none",
         o # "none" => Rank(o) \in a .. b, p # "none" => Rank(p) \in a .. b,
         q # "none" => Rank(q) \in a .. b,
         o # "none" /\ p # "none" => Rank(o) < Rank(p),
         o # "none" /\ q # "none" => Rank(o) < Rank(q),
         p # "none" /\ q # "none" => Rank(p) < Rank(q)
  PROVE  Part(TripleOf(t, o, u, p, v, q), a, b, 3, e)
<1> DEFINE s == <<Step(t, o), Step(u, p), Step(v, q)>>
<1>1. /\ s \in Seq(Steps) /\ Len(s) = 3
      /\ s[1].to = t /\ s[1].op = o /\ s[2].to = u /\ s[2].op = p /\ s[3].to = v /\ s[3].op = q
  BY StepType
<1>2. \A i \in 1 .. 3 : i = 1 \/ i = 2 \/ i = 3
  OBVIOUS
<1> HIDE DEF s
<1>3. Part(s, a, b, 3, e)
  BY <1>1, <1>2 DEF Part
<1> QED BY <1>3 DEF s, TripleOf

\* The last part.
LEMMA VerifiedPart == Part(<<Mark("VERIFIED")>>, 23, 23, 1, "last")
<1> DEFINE s == <<Mark("VERIFIED")>>
<1>1. s \in Seq(Steps) /\ Len(s) = 1 /\ s[1].to = "VERIFIED" /\ s[1].op = "none"
  BY Names, StepType DEF Mark
<1> HIDE DEF s
<1>2. Part(s, 23, 23, 1, "last")
  BY <1>1 DEF Part
<1> QED BY <1>2 DEF s

\* The restart of the radio.
LEMMA RebootPart == Part(RebootSteps, 15, 15, 3, "middle")
<1>1. Part(TripleOf("RADIO_REBOOT_PENDING", "none", "RADIO_REBOOTED", "reboot",
                    "RADIO_RECONNECT_PENDING", "none"), 15, 15, 3, "middle")
  <2>1. /\ "RADIO_REBOOT_PENDING" \in Reached /\ "RADIO_REBOOTED" \in Reached
        /\ "RADIO_RECONNECT_PENDING" \in Reached
        /\ "none" \in Done /\ "reboot" \in Done
        /\ Rank("reboot") = 15
    BY Names, Ranks
  <2> QED BY <2>1, ThreePart
<1> QED BY <1>1 DEF TripleOf, RebootSteps, Mark

\* An optional part.
LEMMA OptionalPart ==
  ASSUME NEW s, NEW a, NEW b, NEW n \in Nat, NEW c \in BOOLEAN, Part(s, a, b, n, "middle")
  PROVE  Part(When(c, s), a, b, n, "middle")
<1>1. Part(<<>>, a, b, n, "middle")
  BY DEF Part
<1> QED BY <1>1 DEF When

\* The identification and the backup, up to the commit of its path.
LEMMA PreparationPart ==
  ASSUME NEW pl \in Plan
  PROVE  LET s == Preparation(pl, TRUE)
         IN /\ Part(s, 1, 4, 6, "middle")
            /\ Len(s) > 0 /\ s[Len(s)].op = "save"
            /\ s[1] = Step("DISCOVERED", "identify")
<1> DEFINE A == PairOf("DISCOVERED", "identify", "IDENTIFIED", "none")
           B == <<Step("PRESENTATION_PREFLIGHT", "presentation_preflight")>>
           C == PairOf("BACKUP_PENDING", "none", "BACKUP_COMPLETE", "backup")
           D == <<Step("BACKUP_COMPLETE", "save")>>
           b == When(pl.mode # "normal", B)
           s == A \o b \o C \o D
<1>0. Part(A, 1, 1, 2, "middle")
  <2>1. /\ "DISCOVERED" \in Reached /\ "IDENTIFIED" \in Reached
        /\ "identify" \in Done /\ "none" \in Done
        /\ Rank("identify") = 1
    BY Names, Ranks
  <2> QED BY <2>1, TwoPart
<1>1. Part(B, 2, 2, 1, "middle")
  BY Names, Ranks, OnePart
<1>2. Part(C, 3, 3, 2, "middle") /\ Part(D, 4, 4, 1, "middle")
  <2>1. Part(C, 3, 3, 2, "middle")
    <3>1. /\ "BACKUP_PENDING" \in Reached /\ "BACKUP_COMPLETE" \in Reached
          /\ "none" \in Done /\ "backup" \in Done
          /\ Rank("backup") = 3
      BY Names, Ranks
    <3> QED BY <3>1, TwoPart
  <2>2. Part(D, 4, 4, 1, "middle")
    BY Names, Ranks, OnePart
  <2> QED BY <2>1, <2>2
<1>3. Len(A) = 2 /\ Len(D) = 1
  BY DEF PairOf
<1>14. A[1] = Step("DISCOVERED", "identify") /\ D[1].op = "save"
  BY DEF PairOf, Step
<1>4. Preparation(pl, TRUE) = s
  BY DEF Preparation, When, PairOf, Mark
<1> HIDE DEF A, B, C, D
<1>5. Part(b, 2, 2, 1, "middle")
  BY <1>1, OptionalPart
<1> HIDE DEF b
<1>6. Part(A \o b, 1, 2, 3, "middle")
  BY <1>0, <1>5, PartsJoin
<1>7. Part(A \o b \o C, 1, 3, 5, "middle")
  BY <1>2, <1>6, PartsJoin
<1>8. Part(s, 1, 4, 6, "middle")
  BY <1>2, <1>7, PartsJoin
<1> DEFINE Q == A \o b \o C
<1>9. A \in Seq(Steps) /\ b \in Seq(Steps) /\ C \in Seq(Steps) /\ D \in Seq(Steps)
  BY <1>0, <1>2, <1>5 DEF Part
<1>10. Q \in Seq(Steps) /\ Len(Q) >= 2 /\ Q[1] = A[1]
  <2>1. /\ A \o b \in Seq(Steps) /\ Len(A \o b) >= 2 /\ (A \o b)[1] = A[1]
    BY <1>3, <1>9, Concatenation
  <2> QED BY <1>9, <2>1, Concatenation
<1> HIDE DEF Q
<1>11. Len(Q \o D) = Len(Q) + 1 /\ (Q \o D)[Len(Q) + 1] = D[1] /\ (Q \o D)[1] = Q[1]
  <2>1. 1 \in 1 .. Len(Q) /\ 1 \in 1 .. Len(D)
    BY <1>3, <1>9, <1>10
  <2>2. /\ Len(Q \o D) = Len(Q) + Len(D)
        /\ \A i \in 1 .. Len(Q) : (Q \o D)[i] = Q[i]
        /\ \A i \in 1 .. Len(D) : (Q \o D)[Len(Q) + i] = D[i]
    BY <1>9, <1>10, Concatenation
  <2> QED BY <1>3, <2>1, <2>2
<1>12. s = Q \o D
  BY DEF Q
<1> HIDE DEF s
<1>13. Len(s) > 0 /\ s[Len(s)].op = "save" /\ s[1] = Step("DISCOVERED", "identify")
  BY <1>10, <1>11, <1>12, <1>14
<1> QED BY <1>4, <1>8, <1>13

\* The restore of the original.
LEMMA RestorePart == Part(RestoreSteps, 5, 17, 8, "last")
<1> DEFINE A == PairOf("ORIGINAL_PREPARED", "restore_prepare", "ORIGINAL_CONFIGURED", "restore_activate")
           C == TripleOf("RADIO_REACHABLE", "reconnect", "ORIGINAL_VERIFIED", "restore_verify",
                         "VERIFIED", "none")
<1>1. Part(A, 5, 6, 2, "middle")
  <2>1. /\ "ORIGINAL_PREPARED" \in Reached /\ "ORIGINAL_CONFIGURED" \in Reached
        /\ "restore_prepare" \in Done /\ "restore_activate" \in Done
        /\ Rank("restore_prepare") = 5 /\ Rank("restore_activate") = 6
    BY Names, Ranks
  <2> QED BY <2>1, TwoPart
<1>2. Part(C, 16, 17, 3, "last")
  <2>1. /\ "RADIO_REACHABLE" \in Reached /\ "ORIGINAL_VERIFIED" \in Reached
        /\ "VERIFIED" \in Reached
        /\ "reconnect" \in Done /\ "restore_verify" \in Done /\ "none" \in Done
        /\ Rank("reconnect") = 16 /\ Rank("restore_verify") = 17
    BY Names, Ranks
  <2> QED BY <2>1, ThreePart
<1>3. Part(RebootSteps, 15, 15, 3, "middle")
  BY RebootPart
<1>4. RestoreSteps = A \o RebootSteps \o C
  BY DEF RestoreSteps, PairOf, TripleOf, Mark
<1> HIDE DEF A, C
<1>5. Part(A \o RebootSteps, 5, 15, 5, "middle")
  BY <1>1, <1>3, PartsJoin
<1>6. Part(A \o RebootSteps \o C, 5, 17, 8, "last")
  BY <1>2, <1>5, PartsJoin
<1> QED BY <1>4, <1>6

\* The activation of SSH, in both of its forms.
LEMMA SshPart ==
  ASSUME NEW ssh
  PROVE  Part(SshSteps(ssh), 7, 10, 7, "middle")
<1> DEFINE A == PairOf("SSH_STATUS_PENDING", "none", "SSH_STATUS_PENDING", "ssh_status")
           B == <<Mark("SSH_ALREADY_ACTIVE")>>
           C == PairOf("SSH_ACTIVATION_PENDING", "none", "SSH_TEMPORARY_ACTIVE", "activate_ssh")
           D == TripleOf("SSH_PERSISTENCE_PENDING", "persist_ssh", "SSH_REBOOT_PENDING",
                         "reboot_verify_ssh", "SSH_VERIFIED", "none")
           m == IF ssh = "active" THEN B ELSE C
<1>1. Part(A, 7, 7, 2, "middle") /\ Part(B, 8, 8, 2, "middle")
  <2>1. Part(A, 7, 7, 2, "middle")
    <3>1. /\ "SSH_STATUS_PENDING" \in Reached
          /\ "none" \in Done /\ "ssh_status" \in Done
          /\ Rank("ssh_status") = 7
      BY Names, Ranks
    <3> QED BY <3>1, TwoPart
  <2>2. Part(B, 8, 8, 2, "middle")
    BY Names, OnePart DEF Mark
  <2> QED BY <2>1, <2>2
<1>2. Part(C, 8, 8, 2, "middle")
  <2>1. /\ "SSH_ACTIVATION_PENDING" \in Reached /\ "SSH_TEMPORARY_ACTIVE" \in Reached
        /\ "none" \in Done /\ "activate_ssh" \in Done
        /\ Rank("activate_ssh") = 8
    BY Names, Ranks
  <2> QED BY <2>1, TwoPart
<1>3. Part(D, 9, 10, 3, "middle")
  <2>1. /\ "SSH_PERSISTENCE_PENDING" \in Reached /\ "SSH_REBOOT_PENDING" \in Reached
        /\ "SSH_VERIFIED" \in Reached
        /\ "persist_ssh" \in Done /\ "reboot_verify_ssh" \in Done /\ "none" \in Done
        /\ Rank("persist_ssh") = 9 /\ Rank("reboot_verify_ssh") = 10
    BY Names, Ranks
  <2> QED BY <2>1, ThreePart
<1>4. SshSteps(ssh) = A \o m \o D
  BY DEF SshSteps, PairOf, TripleOf, Mark
<1> HIDE DEF A, B, C, D
<1>5. Part(m, 8, 8, 2, "middle")
  BY <1>1, <1>2
<1> HIDE DEF m
<1>6. Part(A \o m, 7, 8, 4, "middle")
  BY <1>1, <1>5, PartsJoin
<1>7. Part(A \o m \o D, 7, 10, 7, "middle")
  BY <1>3, <1>6, PartsJoin
<1> QED BY <1>4, <1>7

\* The installation, with every choice of its options.
LEMMA InstallPart ==
  ASSUME NEW pl \in Plan
  PROVE  Part(InstallSteps(pl), 7, 23, 23, "last")
<1> DEFINE patched == pl.mode = "patched"
           S == When(pl.ssh # "no", SshSteps(pl.ssh))
           A == <<Step("PRESENTATION_PREPARED", "presentation_prepare")>>
           B == TripleOf("ROUTING_BACKUP_COMPLETE", "backup_routing", "BASSWIESN_ROUTE_PENDING", "none",
                         "BASSWIESN_ROUTE_ACTIVE", "route")
           C == <<Step("PRESENTATION_CONFIGURED", "presentation_activate")>>
           D == PairOf("RADIO_RECONNECT_PENDING", "reconnect", "RADIO_REACHABLE", "none")
           E == <<Step("PRESENTATION_VERIFIED", "presentation_verify")>>
           F == <<Step("RADIO_REACHABLE", "configure_defaults")>>
           G == PairOf("MARGE_ACCOUNT_PENDING", "none", "MARGE_ACCOUNT_ACTIVE", "pair_account")
           H == <<Step("PRESETS_READABLE", "read_presets")>>
           I == <<Step("PLAYBACK_READY", "playback_test")>>
           K == <<Mark("VERIFIED")>>
           a == When(patched, A)
           c == When(patched, C)
           ef == IF patched THEN E ELSE F
           g == When(pl.pair, G)
           i == When(pl.playback, I)
<1>1. Part(A, 11, 11, 1, "middle") /\ Part(C, 14, 14, 1, "middle")
  <2>1. Part(A, 11, 11, 1, "middle")
    BY Names, Ranks, OnePart
  <2>2. Part(C, 14, 14, 1, "middle")
    BY Names, Ranks, OnePart
  <2> QED BY <2>1, <2>2
<1>2. Part(B, 12, 13, 3, "middle")
  <2>1. /\ "ROUTING_BACKUP_COMPLETE" \in Reached /\ "BASSWIESN_ROUTE_PENDING" \in Reached
        /\ "BASSWIESN_ROUTE_ACTIVE" \in Reached
        /\ "backup_routing" \in Done /\ "none" \in Done /\ "route" \in Done
        /\ Rank("backup_routing") = 12 /\ Rank("route") = 13
    BY Names, Ranks
  <2> QED BY <2>1, ThreePart
<1>3. Part(D, 16, 16, 2, "middle") /\ Part(G, 20, 20, 2, "middle")
  <2>1. Part(D, 16, 16, 2, "middle")
    <3>1. /\ "RADIO_RECONNECT_PENDING" \in Reached /\ "RADIO_REACHABLE" \in Reached
          /\ "reconnect" \in Done /\ "none" \in Done
          /\ Rank("reconnect") = 16
      BY Names, Ranks
    <3> QED BY <3>1, TwoPart
  <2>2. Part(G, 20, 20, 2, "middle")
    <3>1. /\ "MARGE_ACCOUNT_PENDING" \in Reached /\ "MARGE_ACCOUNT_ACTIVE" \in Reached
          /\ "none" \in Done /\ "pair_account" \in Done
          /\ Rank("pair_account") = 20
      BY Names, Ranks
    <3> QED BY <3>1, TwoPart
  <2> QED BY <2>1, <2>2
<1>4. Part(E, 18, 19, 1, "middle") /\ Part(F, 18, 19, 1, "middle")
  <2>1. Part(E, 18, 19, 1, "middle")
    BY Names, Ranks, OnePart
  <2>2. Part(F, 18, 19, 1, "middle")
    BY Names, Ranks, OnePart
  <2> QED BY <2>1, <2>2
<1>5. Part(H, 21, 21, 1, "middle") /\ Part(I, 22, 22, 1, "middle")
  <2>1. Part(H, 21, 21, 1, "middle")
    BY Names, Ranks, OnePart
  <2>2. Part(I, 22, 22, 1, "middle")
    BY Names, Ranks, OnePart
  <2> QED BY <2>1, <2>2
<1>6. Part(K, 23, 23, 1, "last")
  BY VerifiedPart
<1>7. Part(RebootSteps, 15, 15, 3, "middle")
  BY RebootPart
<1>8. InstallSteps(pl) = S \o a \o B \o c \o RebootSteps \o D \o ef \o g \o H \o i \o K
  BY DEF InstallSteps, PairOf, TripleOf, Mark
<1>9. pl.pair \in BOOLEAN /\ pl.playback \in BOOLEAN
  BY DEF Plan
<1> HIDE DEF A, B, C, D, E, F, G, H, I, K
<1>10. Part(S, 7, 10, 7, "middle")
  BY SshPart, OptionalPart
<1>11. Part(a, 11, 11, 1, "middle") /\ Part(c, 14, 14, 1, "middle")
  BY <1>1, OptionalPart
<1>12. Part(ef, 18, 19, 1, "middle")
  BY <1>4
<1>13. Part(g, 20, 20, 2, "middle") /\ Part(i, 22, 22, 1, "middle")
  BY <1>3, <1>5, <1>9, OptionalPart
<1> HIDE DEF S, a, c, ef, g, i
<1>14. Part(S \o a, 7, 11, 8, "middle")
  BY <1>10, <1>11, PartsJoin
<1>15. Part(S \o a \o B, 7, 13, 11, "middle")
  BY <1>2, <1>14, PartsJoin
<1>16. Part(S \o a \o B \o c, 7, 14, 12, "middle")
  BY <1>11, <1>15, PartsJoin
<1>17. Part(S \o a \o B \o c \o RebootSteps, 7, 15, 15, "middle")
  BY <1>7, <1>16, PartsJoin
<1>18. Part(S \o a \o B \o c \o RebootSteps \o D, 7, 16, 17, "middle")
  BY <1>3, <1>17, PartsJoin
<1>19. Part(S \o a \o B \o c \o RebootSteps \o D \o ef, 7, 19, 18, "middle")
  BY <1>12, <1>18, PartsJoin
<1>20. Part(S \o a \o B \o c \o RebootSteps \o D \o ef \o g, 7, 20, 20, "middle")
  <2>1. Part(g, 20, 20, 2, "middle")
    BY <1>13
  <2> QED BY <2>1, <1>19, PartsJoin
<1>21. Part(S \o a \o B \o c \o RebootSteps \o D \o ef \o g \o H, 7, 21, 21, "middle")
  BY <1>5, <1>20, PartsJoin
<1>22. Part(S \o a \o B \o c \o RebootSteps \o D \o ef \o g \o H \o i, 7, 22, 22, "middle")
  <2>1. Part(i, 22, 22, 1, "middle")
    BY <1>13
  <2> QED BY <2>1, <1>21, PartsJoin
<1>23. Part(S \o a \o B \o c \o RebootSteps \o D \o ef \o g \o H \o i \o K, 7, 23, 23, "last")
  BY <1>6, <1>22, PartsJoin
<1> QED BY <1>8, <1>23

\* Where the path of the backup is durable.
SavedAt(pl) == Len(Preparation(pl, TRUE))

\* What the proofs below use of _run_device()'s sequence, whatever is approved:
\* it begins with the identification, no write precedes the durable backup, no
\* operation comes twice, and VERIFIED is its last mark and nothing else.
SequenceFacts(s, n) ==
  /\ s \in Seq(Steps) /\ Len(s) <= 40 /\ n \in 1 .. Len(s)
  /\ s[1] = Step("DISCOVERED", "identify")
  /\ s[n].op = "save"
  /\ \A i \in 1 .. n : s[i].op \notin Writes
  /\ \A i \in 1 .. Len(s) :
       /\ s[i].to = "VERIFIED" => i = Len(s) /\ s[i].op = "none"
       /\ s[i].op # "none" => \A m \in 1 .. (i - 1) : s[m].op # s[i].op

\* Every approved plan has such a sequence.
LEMMA SequenceOfPlan ==
  ASSUME NEW pl \in Plan
  PROVE  SequenceFacts(Sequence(pl), SavedAt(pl))
<1> DEFINE P == Preparation(pl, TRUE)
           R == IF pl.mode = "original" THEN RestoreSteps ELSE InstallSteps(pl)
           s == P \o R
           n == Len(P)
<1>1. /\ Part(P, 1, 4, 6, "middle") /\ n > 0 /\ P[n].op = "save"
      /\ P[1] = Step("DISCOVERED", "identify")
  BY PreparationPart
<1>2. Part(R, 5, 23, 23, "last")
  <2>1. Part(RestoreSteps, 5, 23, 23, "last")
    BY RestorePart DEF Part
  <2>2. Part(InstallSteps(pl), 5, 23, 23, "last")
    BY InstallPart DEF Part
  <2> QED BY <2>1, <2>2
<1>3. Sequence(pl) = s /\ SavedAt(pl) = n
  BY DEF Sequence, SavedAt
<1> HIDE DEF P, R
<1>4. Part(s, 1, 23, 29, "last")
  <2>1. Part(P, 1, 4, 6, "middle") /\ Part(R, 5, 23, 23, "last")
    BY <1>1, <1>2
  <2>2. Part(P \o R, 1, 23, 6 + 23, "last")
    BY <2>1, PartsJoin
  <2> QED BY <2>2
<1>5. P \in Seq(Steps) /\ R \in Seq(Steps) /\ Len(P) \in Nat /\ Len(R) \in Nat
  BY <1>1, <1>2 DEF Part
<1>6. /\ Len(s) = n + Len(R) /\ \A i \in 1 .. n : s[i] = P[i]
  BY <1>5
<1>11. n \in 1 .. Len(s) /\ Len(s) \in Nat /\ Len(s) >= 1
  BY <1>1, <1>5
<1> HIDE DEF s, n
<1>7. \A i \in 1 .. n : s[i].op \notin Writes
  <2> SUFFICES ASSUME NEW i \in 1 .. n, s[i].op \in Writes PROVE FALSE
    OBVIOUS
  <2>1. s[i].op # "none" /\ s[i] = P[i] /\ i \in 1 .. Len(P)
    BY <1>6 DEF Writes, n
  <2>2. Rank(s[i].op) \in 1 .. 4
    BY <1>1, <2>1 DEF Part
  <2>3. Rank(s[i].op) \in 5 .. 23
    BY DEF Rank, Writes
  <2> QED BY <2>2, <2>3
<1>8. s \in Seq(Steps) /\ Len(s) <= 40
  <2>1. s \in Seq(Steps) /\ Len(s) <= 29
    BY <1>4 DEF Part
  <2> DEFINE l == Len(s)
  <2>2. l \in Nat /\ l <= 29
    BY <1>11, <2>1
  <2> HIDE DEF l
  <2>3. l <= 40
    BY <2>2
  <2> QED BY <2>1, <2>3 DEF l
<1>9. ASSUME NEW i \in 1 .. Len(s)
      PROVE  /\ s[i].to = "VERIFIED" => i = Len(s) /\ s[i].op = "none"
             /\ s[i].op # "none" => \A m \in 1 .. (i - 1) : s[m].op # s[i].op
  <2>1. s[i].to = "VERIFIED" => i = Len(s) /\ s[i].op = "none"
    BY <1>4 DEF Part
  <2>2. ASSUME s[i].op # "none", NEW m \in 1 .. (i - 1), s[m].op = s[i].op
        PROVE  FALSE
    <3>1. m \in 1 .. Len(s) /\ m < i
      BY <1>11
    <3>2. Rank(s[m].op) < Rank(s[i].op) /\ Rank(s[i].op) \in 1 .. 23
      BY <1>4, <2>2, <3>1 DEF Part
    <3> DEFINE r == Rank(s[i].op)
    <3>3. Rank(s[m].op) = r
      BY <2>2
    <3>4. r < r /\ r \in 1 .. 23
      BY <3>2, <3>3
    <3> HIDE DEF r
    <3> QED BY <3>4
  <2> QED BY <2>1, <2>2
<1>10. s[1] = Step("DISCOVERED", "identify") /\ s[n].op = "save"
  BY <1>1, <1>6 DEF n
<1> QED BY <1>3, <1>7, <1>8, <1>9, <1>10, <1>11 DEF SequenceFacts

-----------------------------------------------------------------------------
(***************************************************************************)
(* The inductive invariant                                                 *)
(***************************************************************************)

RunPcs == {"row", "check", "op", "bad"}
Inside == {"check", "op", "bad"}
Back == {"rb_check", "rb_op", "rb_after"}

\* The operations of the first n steps of a job's sequence, and all of them.
OpsTo(j, n) == {Program(j)[m].op : m \in 1 .. n} \ {"none", "save"}
AllOps(j) == OpsTo(j, Len(Program(j)))

\* Nothing but an identification was ever begun for a radio of a job.
Fresh(j, d) ==
  /\ ~row[j][d].backup
  /\ begun[j][d] \subseteq {"identify"}
  /\ d \notin changed[j]

\* Only a started job has executors, and only its owner runs it.
OwnerRuns ==
  \A p \in Procs, j \in Jobs :
    /\ ex[p][j].pc # "idle" => job[j].status # "none"
    /\ ex[p][j].pc \in RunPcs => job[j].owner = p

\* What a durable row says of its radio.
RowTruthful(j, d) ==
  /\ row[j][d].state = "UNKNOWN" => Fresh(j, d)
  /\ row[j][d].state = "ROLLED_BACK" => row[j][d].backup /\ d \notin changed[j]
  /\ row[j][d].state = "VERIFIED" => AllOps(j) \subseteq begun[j][d]
  /\ begun[j][d] \cap Writes # {} => row[j][d].backup
RowsTruthful == \A j \in Jobs, d \in Radios : RowTruthful(j, d)

\* The radios ahead of a running executor were not touched by its job.
AheadFresh ==
  \A p \in Procs, j \in Jobs :
    /\ ex[p][j].pc = "row" => ex[p][j].k = 0
    /\ ex[p][j].pc \in RunPcs =>
         \A d \in Radios : d > ex[p][j].i \/ (d = ex[p][j].i /\ ex[p][j].pc = "row")
                             => Fresh(j, d)

\* An executor e inside a radio of job j has begun exactly the operations of its
\* place, the path of the backup is durable behind it, and no rollback passed.
StepsBegun(e) == IF e.pc = "op" THEN e.k + 1 ELSE e.k
PlaceAt(j, e) ==
  /\ StepsBegun(e) <= Len(Program(j))
  /\ e.pc = "op" => /\ Program(j)[e.k + 1].op \notin {"none", "save"}
                    /\ Program(j)[e.k + 1].op = "route" => e.i \in changed[j]
  /\ OpsTo(j, StepsBegun(e)) \subseteq begun[j][e.i]
  /\ begun[j][e.i] \subseteq OpsTo(j, StepsBegun(e)) \cup {"identify"}
  /\ e.k >= SavedAt(job[j].plan) => row[j][e.i].backup
  /\ e.k >= 1 => row[j][e.i].state # "UNKNOWN"
  /\ row[j][e.i].state # "ROLLED_BACK"
PlaceTruthful ==
  \A p \in Procs, j \in Jobs : ex[p][j].pc \in Inside => PlaceAt(j, ex[p][j])

\* A rollback inside a radio has a backup to go back to.
BackTruthful ==
  \A p \in Procs, j \in Jobs : ex[p][j].pc \in Back => row[j][ex[p][j].i].backup

\* A job that is reported complete ran everything.
CompletedTruthful ==
  \A j \in Jobs : job[j].status = "completed" => \A d \in Radios : AllOps(j) \subseteq begun[j][d]

\* The inductive invariant of the coordinator.
SetupInv ==
  /\ SetupTypeOK
  /\ OwnerRuns
  /\ RowsTruthful
  /\ AheadFresh
  /\ PlaceTruthful
  /\ BackTruthful
  /\ CompletedTruthful

\* The sequence of every job is one of those above.
LEMMA ProgramFacts ==
  ASSUME SetupInv, NEW j \in Jobs
  PROVE  SequenceFacts(Program(j), SavedAt(job[j].plan))
<1>1. job[j].plan \in Plans /\ job[j].plan \in Plan
  BY SetupAssumption DEF SetupInv, SetupTypeOK
<1>2. Program(j) = Sequence(job[j].plan)
  BY <1>1 DEF Program, Programs
<1> QED BY <1>1, <1>2, SequenceOfPlan

\* A step that keeps the operations begun and the plans, and writes only states
\* that promise nothing into the rows.
CalmRows ==
  /\ begun' = begun
  /\ changed' = changed
  /\ \A l \in Jobs : job'[l].plan = job[l].plan
  /\ \A l \in Jobs, d \in Radios :
       /\ row'[l][d].backup = row[l][d].backup
       /\ row'[l][d].state # row[l][d].state =>
            row'[l][d].state \notin {"UNKNOWN", "ROLLED_BACK", "VERIFIED"}

\* How the executor of q for l may move meanwhile.
Stays(q, l) ==
  /\ ex'[q][l].pc = ex[q][l].pc
  /\ ex'[q][l].i = ex[q][l].i
  /\ ex'[q][l].k = ex[q][l].k
Leaves(q, l) == ex'[q][l].pc \notin RunPcs \cup Back
NextRow(q, l) ==
  /\ ex'[q][l].pc = "row"
  /\ ex'[q][l].k = 0
  /\ \A d \in Radios : d > ex'[q][l].i \/ d = ex'[q][l].i => Fresh(l, d)
Enters(q, l) ==
  /\ ex[q][l].pc = "row"
  /\ ex'[q][l].pc = "check"
  /\ ex'[q][l].i = ex[q][l].i
  /\ ex'[q][l].k = ex[q][l].k
  /\ ex[q][l].i \in Radios
Returns(q, l) ==
  /\ ex[q][l].pc = "op"
  /\ ex'[q][l].pc \in {"check", "bad"}
  /\ ex'[q][l].i = ex[q][l].i
  /\ ex'[q][l].k = ex[q][l].k + 1
  /\ row'[l][ex[q][l].i].state # "UNKNOWN"
GoesBack(q, l) ==
  /\ ex'[q][l].pc \in Back
  /\ ex'[q][l].i \in Radios
  /\ row[l][ex'[q][l].i].backup

Moves(q, l) ==
  \/ Stays(q, l) \/ Leaves(q, l) \/ NextRow(q, l) \/ Enters(q, l) \/ Returns(q, l)
  \/ GoesBack(q, l)

\* Calm rows and such moves keep what rows and places say.
LEMMA CalmStep ==
  ASSUME SetupInv, CalmRows, \A q \in Procs, l \in Jobs : Moves(q, l)
  PROVE  RowsTruthful' /\ AheadFresh' /\ PlaceTruthful' /\ BackTruthful'
<1>1. \A l \in Jobs : /\ Program(l)' = Program(l)
                      /\ \A n : OpsTo(l, n)' = OpsTo(l, n)
                      /\ AllOps(l)' = AllOps(l)
  BY DEF CalmRows, Program, OpsTo, AllOps
<1>2. \A l \in Jobs, d \in Radios : Fresh(l, d)' <=> Fresh(l, d)
  BY DEF CalmRows, Fresh
<1>3. RowsTruthful'
  BY <1>1, <1>2 DEF SetupInv, RowsTruthful, RowTruthful, CalmRows
<1>4. AheadFresh'
  <2> SUFFICES ASSUME NEW q \in Procs, NEW l \in Jobs
               PROVE  /\ ex'[q][l].pc = "row" => ex'[q][l].k = 0
                      /\ ex'[q][l].pc \in RunPcs =>
                           \A d \in Radios :
                             d > ex'[q][l].i \/ (d = ex'[q][l].i /\ ex'[q][l].pc = "row")
                               => Fresh(l, d)
    BY <1>2 DEF AheadFresh
  <2>1. CASE Stays(q, l) \/ Leaves(q, l) \/ Returns(q, l) \/ Enters(q, l)
    BY <2>1 DEF SetupInv, AheadFresh, Stays, Leaves, Returns, Enters, RunPcs
  <2>2. CASE NextRow(q, l)
    BY <2>2 DEF NextRow
  <2>3. CASE GoesBack(q, l)
    BY <2>3 DEF GoesBack, Back, RunPcs
  <2> QED BY <2>1, <2>2, <2>3 DEF Moves
<1>5. BackTruthful'
  <2> SUFFICES ASSUME NEW q \in Procs, NEW l \in Jobs, ex'[q][l].pc \in Back
               PROVE  row'[l][ex'[q][l].i].backup
    BY DEF BackTruthful
  <2>1. CASE Stays(q, l)
    BY <2>1 DEF SetupInv, SetupTypeOK, BackTruthful, Stays, Back, CalmRows
  <2>2. CASE GoesBack(q, l)
    BY <2>2 DEF GoesBack, CalmRows
  <2> QED BY <2>1, <2>2 DEF Moves, Leaves, NextRow, Enters, Returns, Back
<1>6. PlaceTruthful'
  <2> SUFFICES ASSUME NEW q \in Procs, NEW l \in Jobs, ex'[q][l].pc \in Inside
               PROVE  PlaceAt(l, ex[q][l])'
    BY DEF PlaceTruthful
  <2> DEFINE e == ex[q][l]
             f == ex'[q][l]
  <2>1. /\ Program(l)' = Program(l) /\ \A n : OpsTo(l, n)' = OpsTo(l, n)
        /\ begun' = begun /\ changed' = changed
        /\ SavedAt(job[l].plan)' = SavedAt(job[l].plan)
    BY <1>1 DEF CalmRows, SavedAt
  <2>2. e.pc \in Inside => PlaceAt(l, e) /\ e.i \in Radios
    BY DEF SetupInv, PlaceTruthful, SetupTypeOK, Inside
  <2>3. SequenceFacts(Program(l), SavedAt(job[l].plan))
    BY ProgramFacts
  <2>4. e.k \in Nat
    <3>1. ex[q][l] \in Executor
      BY DEF SetupInv, SetupTypeOK
    <3> QED BY <3>1 DEF Executor
  <2>5. \A d \in Radios : /\ row'[l][d].backup = row[l][d].backup
                          /\ row'[l][d].state # row[l][d].state =>
                               row'[l][d].state \notin {"UNKNOWN", "ROLLED_BACK", "VERIFIED"}
    BY DEF CalmRows
  <2> HIDE DEF e, f
  <2>6. PlaceAt(l, ex[q][l])' <=>
          /\ StepsBegun(f) <= Len(Program(l))
          /\ f.pc = "op" => /\ Program(l)[f.k + 1].op \notin {"none", "save"}
                            /\ Program(l)[f.k + 1].op = "route" => f.i \in changed[l]
          /\ OpsTo(l, StepsBegun(f)) \subseteq begun[l][f.i]
          /\ begun[l][f.i] \subseteq OpsTo(l, StepsBegun(f)) \cup {"identify"}
          /\ f.k >= SavedAt(job[l].plan) => row'[l][f.i].backup
          /\ f.k >= 1 => row'[l][f.i].state # "UNKNOWN"
          /\ row'[l][f.i].state # "ROLLED_BACK"
    <3>1. PlaceAt(l, ex[q][l])' <=>
            /\ StepsBegun(f) <= Len(Program(l)')
            /\ f.pc = "op" => /\ Program(l)'[f.k + 1].op \notin {"none", "save"}
                              /\ Program(l)'[f.k + 1].op = "route" => f.i \in changed'[l]
            /\ OpsTo(l, StepsBegun(ex[q][l]))' \subseteq begun'[l][f.i]
            /\ begun'[l][f.i] \subseteq OpsTo(l, StepsBegun(ex[q][l]))' \cup {"identify"}
            /\ f.k >= SavedAt(job[l].plan)' => row'[l][f.i].backup
            /\ f.k >= 1 => row'[l][f.i].state # "UNKNOWN"
            /\ row'[l][f.i].state # "ROLLED_BACK"
      BY Zenon DEF PlaceAt, StepsBegun, f
    <3>2. OpsTo(l, StepsBegun(ex[q][l]))' = OpsTo(l, StepsBegun(f))
      BY <2>1, Zenon DEF OpsTo, StepsBegun, f
    <3> QED BY <2>1, <3>1, <3>2, Zenon
  <2>7. CASE Stays(q, l)
    <3>1. f.pc = e.pc /\ f.i = e.i /\ f.k = e.k /\ e.pc \in Inside
      BY <2>7 DEF Stays, e, f
    <3> QED BY <2>2, <2>5, <2>6, <3>1 DEF PlaceAt, StepsBegun
  <2>8. CASE Enters(q, l)
    <3>1. f.pc = "check" /\ f.i = e.i /\ f.k = 0 /\ e.i \in Radios /\ e.pc = "row"
      BY <2>8 DEF Enters, e, f, SetupInv, AheadFresh
    <3>2. Fresh(l, e.i)
      BY <3>1 DEF SetupInv, AheadFresh, RunPcs, e
    <3>3. row[l][e.i].state # "ROLLED_BACK"
      BY <3>1, <3>2 DEF SetupInv, RowsTruthful, RowTruthful, Fresh
    <3>4. StepsBegun(f) = 0 /\ OpsTo(l, 0) = {}
      BY <3>1 DEF StepsBegun, OpsTo
    <3> QED BY <2>3, <2>5, <2>6, <3>1, <3>2, <3>3, <3>4 DEF SequenceFacts, Fresh
  <2>9. CASE Returns(q, l)
    <3>1. /\ f.pc \in {"check", "bad"} /\ f.i = e.i /\ f.k = e.k + 1 /\ e.pc = "op"
          /\ row'[l][e.i].state # "UNKNOWN"
      BY <2>9 DEF Returns, e, f
    <3>2. StepsBegun(f) = e.k + 1 /\ StepsBegun(e) = e.k + 1 /\ PlaceAt(l, e) /\ e.i \in Radios
      BY <2>2, <3>1 DEF StepsBegun, Inside
    <3>3. f.k >= SavedAt(job[l].plan) => e.k >= SavedAt(job[l].plan)
      <4>1. e.k + 1 # SavedAt(job[l].plan)
        BY <2>3, <3>1, <3>2 DEF PlaceAt, SequenceFacts
      <4>2. SavedAt(job[l].plan) \in Nat
        BY <2>3 DEF SequenceFacts
      <4> QED BY <2>4, <3>1, <4>1, <4>2
    <3>4. f.pc # "op"
      BY <3>1
    <3> QED BY <2>5, <2>6, <3>1, <3>2, <3>3, <3>4 DEF PlaceAt
  <2> QED BY <2>7, <2>8, <2>9 DEF Moves, Leaves, NextRow, GoesBack, Inside, RunPcs, Back
<1> QED BY <1>3, <1>4, <1>5, <1>6

-----------------------------------------------------------------------------
(***************************************************************************)
(* The lease                                                               *)
(***************************************************************************)

\* Every decision of the coordinator about the lease is one of the lease's own,
\* made for an identity that is a holder.
LEMMA LeaseStep ==
  ASSUME LeaseTypeOK, [Next]_svars
  PROVE  LeaseTypeOK' /\ [LeaseNext]_lease
<1>1. \A p \in Procs, j \in Jobs \cup {Review} : <<p, j>> \in Holders
  BY SetupAssumption
<1>2. ASSUME NEW h \in Holders, Acquire(h) \/ Renew(h) \/ Release(h)
      PROVE  LeaseTypeOK' /\ [LeaseNext]_lease
  <2>1. LeaseNext
    BY <1>2 DEF LeaseNext
  <2>2. HeldBy(h) \in [holder : Holders \cup {NoHolder}, live : BOOLEAN]
        /\ HeldBy(h).holder # NoHolder
    BY LeaseAssumption DEF HeldBy
  <2>3. FreeLease \in [holder : Holders \cup {NoHolder}, live : BOOLEAN] /\ ~FreeLease.live
    BY DEF FreeLease
  <2>4. lease' \in {HeldBy(h), FreeLease, lease}
    BY <1>2 DEF Acquire, Renew, Release, Released
  <2> QED BY <2>1, <2>2, <2>3, <2>4 DEF LeaseTypeOK
<1>3. ASSUME lease' = FreeLease
      PROVE  LeaseTypeOK' /\ [LeaseNext]_lease
  <2>1. LeaseTypeOK'
    BY <1>3 DEF LeaseTypeOK, FreeLease
  <2>2. CASE lease.holder = NoHolder
    <3>1. lease = [holder |-> NoHolder, live |-> FALSE]
      BY <2>2 DEF LeaseTypeOK
    <3> QED BY <1>3, <2>1, <3>1 DEF FreeLease
  <2>3. CASE lease.holder # NoHolder
    <3>1. lease.holder \in Holders
      BY <2>3 DEF LeaseTypeOK
    <3>2. Release(lease.holder)
      BY <1>3 DEF Release, Released
    <3> QED BY <2>1, <3>1, <3>2 DEF LeaseNext
  <2> QED BY <2>2, <2>3
<1>4. ASSUME Expire
      PROVE  LeaseTypeOK' /\ [LeaseNext]_lease
  BY <1>4 DEF Expire, LeaseTypeOK, LeaseNext
<1>5. ASSUME UNCHANGED lease
      PROVE  LeaseTypeOK' /\ [LeaseNext]_lease
  BY <1>5 DEF LeaseTypeOK
<1>6. ASSUME NEW p \in Procs, NEW j \in Jobs, Start(p, j) \/ Execute(p, j) \/ Rollback(p, j)
      PROVE  LeaseTypeOK' /\ [LeaseNext]_lease
  BY <1>1, <1>2, <1>6 DEF Start, Execute, Rollback
<1>7. ASSUME NEW p \in Procs, NEW j \in Jobs, ExecuteDenied(p, j)
      PROVE  LeaseTypeOK' /\ [LeaseNext]_lease
  BY <1>3, <1>7 DEF ExecuteDenied
<1>8. ASSUME NEW p \in Procs, NEW j \in Jobs,
             ExecutorStep(p, j) \/ HeartbeatLost(p, j) \/ CommitFails(p, j)
      PROVE  LeaseTypeOK' /\ [LeaseNext]_lease
  <2>1. CASE ReleaseLease(p, j)
    BY <1>1, <1>2, <2>1 DEF ReleaseLease
  <2>2. CASE ~ReleaseLease(p, j)
    BY <1>5, <1>8, <2>2 DEF ExecutorStep, HeartbeatLost, CommitFails, EnterRadio,
       RadioDenied, CancelledAtRow, Finish, MarkState, BeginOperation, OperationReturns,
       RowFails, LeaseLost, CancelledAtCheckpoint, RowDone, SkipRow, RollbackEnters,
       RollbackRaises, RollbackBegins, RollbackReturns, RollbackNext, RollbackLost,
       RollbackFinish
  <2> QED BY <2>1, <2>2
<1>9. ASSUME NEW p \in Procs,
             Boot(p) \/ Die(p) \/ ReviewAcquires(p) \/ ReviewGivesUp(p) \/ ReviewJobs(p)
      PROVE  LeaseTypeOK' /\ [LeaseNext]_lease
  <2>1. CASE Boot(p) \/ ReviewGivesUp(p)
    BY <1>5, <2>1 DEF Boot, ReviewGivesUp
  <2>2. CASE Die(p)
    BY <1>1, <1>2, <1>5, <2>2 DEF Die
  <2>3. CASE ReviewAcquires(p) \/ ReviewJobs(p)
    BY <1>1, <1>2, <2>3 DEF ReviewAcquires, ReviewJobs
  <2> QED BY <1>9, <2>1, <2>2, <2>3
<1>10. CASE \E j \in Jobs : RequestCancel(j)
  BY <1>5, <1>10 DEF RequestCancel
<1>11. CASE LeaseExpires
  BY <1>4, <1>11 DEF LeaseExpires
<1>12. CASE UNCHANGED svars
  BY <1>5, <1>12 DEF svars
<1> QED BY <1>6, <1>7, <1>8, <1>9, <1>10, <1>11, <1>12 DEF Next

\* lease.py: jobs, rollbacks, reviews, deaths and stalls use the lease only as
\* its contract allows, for any number of processes and jobs.
THEOREM SetupImplementsLease == Spec => LeaseSpec
<1>1. Init => LeaseInit /\ LeaseTypeOK
  BY DEF Init, LeaseInit, LeaseTypeOK, FreeLease
<1>2. LeaseTypeOK /\ [Next]_svars => LeaseTypeOK' /\ [LeaseNext]_lease
  BY LeaseStep
<1> QED BY <1>1, <1>2, PTL DEF Spec, LeaseSpec

\* A review that is not suspended beyond its lease holds it until it is done.
ReviewHolds == \A p \in Procs : proc[p] = "holding" => lease = HeldBy(<<p, Review>>)

\* No one else takes, releases or clears the lease of such a review.
LEMMA ReviewHoldsStep ==
  ASSUME ~SlowReview, ReviewHolds, [Next]_svars,
         proc \in [Procs -> {"unborn", "waiting", "holding", "up", "dead"}]
  PROVE  ReviewHolds'
<1>1. \A p \in Procs : <<p, Review>> \in Holders /\ <<p, Review>> # NoHolder
  BY SetupAssumption, LeaseAssumption
<1>2. \A p, q \in Procs, j \in Jobs : <<q, j>> # <<p, Review>>
  BY SetupAssumption
<1>3. ASSUME NEW p \in Procs, NEW q \in Procs, NEW j \in Jobs, proc[p] = "holding"
      PROVE  ~MayAcquire(<<q, j>>) /\ Released(<<q, j>>) = lease
  BY <1>1, <1>2, <1>3 DEF ReviewHolds, MayAcquire, Released, HeldBy
<1>4. ASSUME proc' = proc, \A p \in Procs : proc[p] = "holding" => lease' = lease
      PROVE  ReviewHolds'
  BY <1>4 DEF ReviewHolds
<1>5. ASSUME NEW p \in Procs, NEW j \in Jobs,
             Start(p, j) \/ Execute(p, j) \/ ExecuteDenied(p, j) \/ Rollback(p, j)
      PROVE  ReviewHolds'
  BY <1>3, <1>4, <1>5 DEF Start, Execute, ExecuteDenied, Rollback, Acquire
<1>6. ASSUME NEW p \in Procs, NEW j \in Jobs,
             ExecutorStep(p, j) \/ HeartbeatLost(p, j) \/ CommitFails(p, j)
      PROVE  ReviewHolds'
  <2>1. CASE ReleaseLease(p, j)
    BY <1>3, <1>4, <2>1 DEF ReleaseLease, Release
  <2>2. CASE ~ReleaseLease(p, j)
    BY <1>4, <1>6, <2>2 DEF ExecutorStep, HeartbeatLost, CommitFails, EnterRadio,
       RadioDenied, CancelledAtRow, Finish, MarkState, BeginOperation, OperationReturns,
       RowFails, LeaseLost, CancelledAtCheckpoint, RowDone, SkipRow, RollbackEnters,
       RollbackRaises, RollbackBegins, RollbackReturns, RollbackNext, RollbackLost,
       RollbackFinish
  <2> QED BY <2>1, <2>2
<1>7. ASSUME NEW p \in Procs,
             Boot(p) \/ Die(p) \/ ReviewAcquires(p) \/ ReviewGivesUp(p) \/ ReviewJobs(p)
      PROVE  ReviewHolds'
  <2>1. CASE Boot(p) \/ ReviewGivesUp(p)
    BY <2>1 DEF Boot, ReviewGivesUp, ReviewHolds
  <2>2. CASE Die(p)
    BY <1>3, <2>2 DEF Die, Release, ReviewHolds
  <2>3. CASE ReviewAcquires(p)
    <3>1. \A q \in Procs : proc[q] = "holding" => q = p
      BY <1>1, <2>3 DEF ReviewHolds, ReviewAcquires, Acquire, MayAcquire, HeldBy
    <3> QED BY <2>3, <3>1 DEF ReviewHolds, ReviewAcquires, Acquire
  <2>4. CASE ReviewJobs(p)
    <3>1. \A q \in Procs : proc[q] = "holding" => q = p
      BY <2>4 DEF ReviewHolds, ReviewJobs, HeldBy
    <3> QED BY <2>4, <3>1 DEF ReviewHolds, ReviewJobs
  <2> QED BY <1>7, <2>1, <2>2, <2>3, <2>4
<1>8. CASE \E j \in Jobs : RequestCancel(j)
  BY <1>4, <1>8 DEF RequestCancel
<1>9. CASE LeaseExpires
  BY <1>9 DEF LeaseExpires, ReviewHolds, HeldBy
<1>10. CASE UNCHANGED svars
  BY <1>4, <1>10 DEF svars
<1> QED BY <1>5, <1>6, <1>7, <1>8, <1>9, <1>10 DEF Next

\* coordinator.py, "Active jobs are left untouched": as long as a review ends
\* within its own lease, it never ends a job whose executor holds the lease.
THEOREM ActiveUntouchedHolds ==
  ASSUME ~SlowReview
  PROVE  Spec => ActiveUntouched
<1> DEFINE Lives == proc \in [Procs -> {"unborn", "waiting", "holding", "up", "dead"}]
           A == \A p \in Procs, j \in Jobs :
                  ReviewJobs(p) /\ job'[j] # job[j] => \A q \in Procs : ~Owns(<<q, j>>)
<1>1. Init => ReviewHolds /\ Lives
  BY DEF Init, ReviewHolds
<1>2. Lives /\ [Next]_svars => Lives'
  <2> SUFFICES ASSUME Lives, [Next]_svars PROVE Lives'
    OBVIOUS
  <2>1. ASSUME NEW p \in Procs, NEW j \in Jobs,
               \/ Start(p, j) \/ Execute(p, j) \/ ExecuteDenied(p, j) \/ Rollback(p, j)
               \/ ExecutorStep(p, j) \/ HeartbeatLost(p, j) \/ CommitFails(p, j)
        PROVE  proc' = proc
    BY <2>1 DEF Start, Execute, ExecuteDenied, Rollback, ExecutorStep, HeartbeatLost,
       CommitFails, EnterRadio, RadioDenied, CancelledAtRow, Finish, ReleaseLease, MarkState,
       BeginOperation, OperationReturns, RowFails, LeaseLost, CancelledAtCheckpoint,
       RowDone, SkipRow, RollbackEnters, RollbackRaises, RollbackBegins, RollbackReturns,
       RollbackNext, RollbackLost, RollbackFinish
  <2>2. ASSUME NEW p \in Procs,
               Boot(p) \/ Die(p) \/ ReviewAcquires(p) \/ ReviewGivesUp(p) \/ ReviewJobs(p)
        PROVE  Lives'
    BY <2>2 DEF Boot, Die, ReviewAcquires, ReviewGivesUp, ReviewJobs
  <2>3. CASE (\E j \in Jobs : RequestCancel(j)) \/ LeaseExpires \/ UNCHANGED svars
    BY <2>3 DEF RequestCancel, LeaseExpires, svars
  <2> QED BY <2>1, <2>2, <2>3 DEF Next
<1>3. ReviewHolds /\ Lives /\ [Next]_svars => ReviewHolds'
  BY ReviewHoldsStep
<1>4. ReviewHolds => A
  <2> SUFFICES ASSUME ReviewHolds, NEW p \in Procs, NEW j \in Jobs, ReviewJobs(p),
                      NEW q \in Procs, Owns(<<q, j>>)
               PROVE  FALSE
    OBVIOUS
  <2>1. lease = HeldBy(<<p, Review>>)
    BY DEF ReviewHolds, ReviewJobs
  <2>2. <<q, j>> = <<p, Review>>
    BY <2>1 DEF Owns, HeldBy
  <2> QED BY <2>2, SetupAssumption
<1> QED BY <1>1, <1>2, <1>3, <1>4, PTL DEF Spec, ActiveUntouched

-----------------------------------------------------------------------------
(***************************************************************************)
(* The steps of the executors                                              *)
(***************************************************************************)

Holding == Inside \cup Back

\* One executor moves and the others rest.
LEMMA ExecutorSet ==
  ASSUME ex \in [Procs -> [Jobs -> Executor]], NEW p \in Procs, NEW j \in Jobs,
         NEW e \in Executor, SetEx(p, j, e)
  PROVE  /\ ex' \in [Procs -> [Jobs -> Executor]]
         /\ ex'[p][j] = e
         /\ \A q \in Procs, l \in Jobs : q # p \/ l # j => ex'[q][l] = ex[q][l]
BY DEF SetEx

\* How an executor takes, keeps and gives back its radio.
LockMoves(p, j, e) ==
  \/ /\ lock' = lock
     /\ e.pc \in Holding => ex[p][j].pc \in Holding /\ e.i = ex[p][j].i
  \/ /\ ex[p][j].pc \in Holding
     /\ e.pc \notin Holding
     /\ lock' = Unlocked(ex[p][j].i)
  \/ /\ e.pc \in Holding
     /\ e.i \in Radios
     /\ lock[e.i] = NoExecutor
     /\ lock' = [lock EXCEPT ![e.i] = <<p, j>>]

\* Whoever holds a radio still does.
LEMMA LockStep ==
  ASSUME SetupTypeOK, NEW p \in Procs, NEW j \in Jobs, NEW e \in Executor, SetEx(p, j, e),
         LockMoves(p, j, e)
  PROVE  /\ lock' \in [Radios -> (Procs \X Jobs) \cup {NoExecutor}]
         /\ \A q \in Procs, l \in Jobs :
              ex'[q][l].pc \in Holding => /\ ex'[q][l].i \in Radios
                                          /\ lock'[ex'[q][l].i] = <<q, l>>
<1>1. /\ ex'[p][j] = e
      /\ \A q \in Procs, l \in Jobs : q # p \/ l # j => ex'[q][l] = ex[q][l]
  BY ExecutorSet DEF SetupTypeOK
<1>2. /\ lock \in [Radios -> (Procs \X Jobs) \cup {NoExecutor}]
      /\ \A q \in Procs, l \in Jobs : ex[q][l].pc \in Holding =>
           ex[q][l].i \in Radios /\ lock[ex[q][l].i] = <<q, l>>
  BY DEF SetupTypeOK, Holding, Inside, Back
<1>3. lock' \in [Radios -> (Procs \X Jobs) \cup {NoExecutor}]
  <2>1. NoExecutor \in (Procs \X Jobs) \cup {NoExecutor}
        /\ <<p, j>> \in (Procs \X Jobs) \cup {NoExecutor}
    OBVIOUS
  <2>2. \/ lock' = lock
        \/ \E d \in Radios : lock' = [lock EXCEPT ![d] = NoExecutor]
        \/ \E d \in Radios : lock' = [lock EXCEPT ![d] = <<p, j>>]
    BY <1>2 DEF LockMoves, Unlocked
  <2> QED BY <1>2, <2>1, <2>2
<1>4. ASSUME NEW q \in Procs, NEW l \in Jobs, ex'[q][l].pc \in Holding
      PROVE  ex'[q][l].i \in Radios /\ lock'[ex'[q][l].i] = <<q, l>>
  <2>1. CASE q = p /\ l = j
    BY <1>1, <1>2, <1>4, <2>1 DEF LockMoves
  <2>2. CASE q # p \/ l # j
    <3>1. /\ ex'[q][l] = ex[q][l] /\ ex[q][l].i \in Radios
          /\ lock[ex[q][l].i] = <<q, l>> /\ <<q, l>> # <<p, j>> /\ <<q, l>> # NoExecutor
      BY <1>1, <1>2, <1>4, <2>2 DEF NoExecutor
    <3>2. \/ lock' = lock
          \/ /\ lock[ex[p][j].i] = <<p, j>>
             /\ lock' = [lock EXCEPT ![ex[p][j].i] = NoExecutor]
          \/ lock[e.i] = NoExecutor /\ lock' = [lock EXCEPT ![e.i] = <<p, j>>]
      BY <1>2 DEF LockMoves, Unlocked
    <3>3. lock'[ex[q][l].i] = lock[ex[q][l].i]
      BY <1>2, <3>1, <3>2
    <3> QED BY <3>1, <3>3
  <2> QED BY <2>1, <2>2
<1> QED BY <1>3, <1>4

\* The status that a step of an executor may give to its job.
StatusMoves(j) ==
  \/ job' = job
  \/ \E s \in Finals : SetStatus(j, s) /\ (s = "completed" => AllVerified(j))

\* Such a step leaves the jobs well formed, and only their statuses new.
LEMMA StatusStep ==
  ASSUME NEW T, job \in [Jobs -> [status : Finals \cup {"none", "running"}, owner : T,
                                 cancel : BOOLEAN, plan : Plans]],
         NEW j \in Jobs, StatusMoves(j)
  PROVE  /\ job' \in [Jobs -> [status : Finals \cup {"none", "running"}, owner : T,
                               cancel : BOOLEAN, plan : Plans]]
         /\ \A l \in Jobs : /\ job'[l].owner = job[l].owner
                            /\ job'[l].plan = job[l].plan
                            /\ job'[l].status = "none" => job[l].status = "none"
                            /\ job'[l].status = "completed" =>
                                 job[l].status = "completed" \/ AllVerified(l)
<1>1. CASE job' = job
  BY <1>1
<1>2. ASSUME NEW s \in Finals, SetStatus(j, s), s = "completed" => AllVerified(j)
      PROVE  /\ job' \in [Jobs -> [status : Finals \cup {"none", "running"}, owner : T,
                                   cancel : BOOLEAN, plan : Plans]]
             /\ \A l \in Jobs : /\ job'[l].owner = job[l].owner
                                /\ job'[l].plan = job[l].plan
                                /\ job'[l].status = "none" => job[l].status = "none"
                                /\ job'[l].status = "completed" =>
                                     job[l].status = "completed" \/ AllVerified(l)
  <2>1. s \in Finals \cup {"none", "running"} /\ s # "none"
    BY <1>2 DEF Finals
  <2>2. job' = [job EXCEPT ![j] = [job[j] EXCEPT !.status = s]]
    BY <1>2 DEF SetStatus
  <2>3. /\ job'[j].status = s /\ job'[j].owner = job[j].owner /\ job'[j].plan = job[j].plan
        /\ \A l \in Jobs : l # j => job'[l] = job[l]
    BY <2>2
  <2>4. job' \in [Jobs -> [status : Finals \cup {"none", "running"}, owner : T,
                          cancel : BOOLEAN, plan : Plans]]
    BY <2>1, <2>2
  <2> QED BY <1>2, <2>1, <2>3, <2>4
<1> QED BY <1>1, <1>2 DEF StatusMoves

\* A step of one executor that leaves the rows calm keeps the invariant.
LEMMA ExecutorCalm ==
  ASSUME SetupInv, LeaseTypeOK', NEW p \in Procs, NEW j \in Jobs, NEW e \in Executor,
         SetEx(p, j, e), Moves(p, j), LockMoves(p, j, e), StatusMoves(j), CalmRows,
         row' \in [Jobs -> [Radios -> [state : SetupState, backup : BOOLEAN]]],
         proc' = proc, faults' \in 0 .. MaxFaults, job[j].status # "none",
         e.pc \in RunPcs => job[j].owner = p
  PROVE  SetupInv'
<1>1. /\ ex' \in [Procs -> [Jobs -> Executor]] /\ ex'[p][j] = e
      /\ \A q \in Procs, l \in Jobs : q # p \/ l # j => ex'[q][l] = ex[q][l]
  BY ExecutorSet DEF SetupInv, SetupTypeOK
<1>2. \A q \in Procs, l \in Jobs : Moves(q, l)
  BY <1>1 DEF Moves, Stays
<1>3. RowsTruthful' /\ AheadFresh' /\ PlaceTruthful' /\ BackTruthful'
  BY <1>2, CalmStep
<1>4. /\ job' \in [Jobs -> [status : Finals \cup {"none", "running"},
                            owner : Procs \cup {NoHolder}, cancel : BOOLEAN, plan : Plans]]
      /\ \A l \in Jobs : /\ job'[l].owner = job[l].owner
                         /\ job'[l].status = "none" => job[l].status = "none"
                         /\ job'[l].status = "completed" =>
                              job[l].status = "completed" \/ AllVerified(l)
  BY StatusStep DEF SetupInv, SetupTypeOK
<1>5. SetupTypeOK'
  <2>1. begun' = begun /\ changed' = changed
    BY DEF CalmRows
  <2>2. /\ lock' \in [Radios -> (Procs \X Jobs) \cup {NoExecutor}]
        /\ \A q \in Procs, l \in Jobs :
             ex'[q][l].pc \in Holding => /\ ex'[q][l].i \in Radios
                                         /\ lock'[ex'[q][l].i] = <<q, l>>
    BY LockStep DEF SetupInv
  <2> QED BY <1>1, <1>4, <2>1, <2>2 DEF SetupInv, SetupTypeOK, Holding, Inside, Back
<1>6. OwnerRuns'
  <2> SUFFICES ASSUME NEW q \in Procs, NEW l \in Jobs
               PROVE  /\ ex'[q][l].pc # "idle" => job'[l].status # "none"
                      /\ ex'[q][l].pc \in RunPcs => job'[l].owner = q
    BY DEF OwnerRuns
  <2>1. CASE q = p /\ l = j
    BY <1>1, <1>4, <2>1
  <2>2. CASE q # p \/ l # j
    <3>1. ex'[q][l] = ex[q][l]
      BY <1>1, <2>2
    <3>2. /\ ex[q][l].pc # "idle" => job[l].status # "none"
          /\ ex[q][l].pc \in RunPcs => job[l].owner = q
      BY DEF SetupInv, OwnerRuns
    <3> QED BY <1>4, <3>1, <3>2
  <2> QED BY <2>1, <2>2
<1>7. CompletedTruthful'
  <2> SUFFICES ASSUME NEW l \in Jobs, job'[l].status = "completed", NEW d \in Radios
               PROVE  AllOps(l)' \subseteq begun'[l][d]
    BY DEF CompletedTruthful
  <2>1. AllOps(l)' = AllOps(l) /\ begun' = begun
    BY DEF CalmRows, AllOps, OpsTo, Program
  <2> QED BY <1>4, <2>1 DEF SetupInv, CompletedTruthful, RowsTruthful, RowTruthful, AllVerified
<1> QED BY <1>3, <1>5, <1>6, <1>7 DEF SetupInv

\* What is known of an executor wherever it is.
LEMMA Here ==
  ASSUME SetupInv, NEW p \in Procs, NEW j \in Jobs
  PROVE  /\ ex[p][j] \in Executor
         /\ ex[p][j].pc \in Holding => ex[p][j].i \in Radios /\ lock[ex[p][j].i] = <<p, j>>
         /\ ex[p][j].pc # "idle" => job[j].status # "none"
         /\ ex[p][j].pc \in RunPcs => job[j].owner = p
BY DEF SetupInv, SetupTypeOK, OwnerRuns, Holding, Inside, Back

RowType == [Jobs -> [Radios -> [state : SetupState, backup : BOOLEAN]]]

\* One state written into the rows.
WithState(R, j, d, s) == [R EXCEPT ![j][d].state = s]

\* It is there, and nothing else changes.
LEMMA StateWritten ==
  ASSUME NEW R \in RowType, NEW j \in Jobs, NEW d \in Radios, NEW s \in SetupState
  PROVE  /\ WithState(R, j, d, s) \in RowType
         /\ WithState(R, j, d, s)[j][d].state = s
         /\ WithState(R, j, d, s)[j][d].backup = R[j][d].backup
         /\ \A l \in Jobs, c \in Radios :
              l # j \/ c # d => WithState(R, j, d, s)[l][c] = R[l][c]
<1> DEFINE T == [R EXCEPT ![j] = [R[j] EXCEPT ![d] = [R[j][d] EXCEPT !.state = s]]]
<1>1. WithState(R, j, d, s) = T
  BY DEF WithState
<1>2. /\ T[j][d].state = s /\ T[j][d].backup = R[j][d].backup
      /\ \A l \in Jobs, c \in Radios : l # j \/ c # d => T[l][c] = R[l][c]
  BY DEF RowType
<1>3. T \in RowType
  BY DEF RowType
<1> HIDE DEF T
<1> QED BY <1>1, <1>2, <1>3

\* The states whose presence in a row promises nothing.
Plain == SetupState \ {"UNKNOWN", "ROLLED_BACK", "VERIFIED"}

\* Writing one row with such a state is calm.
LEMMA CalmWrite ==
  ASSUME SetupInv, NEW j \in Jobs, NEW d, begun' = begun, changed' = changed, StatusMoves(j),
         \/ row' = row
         \/ d \in Radios /\ \E s \in Plain \cup {row[j][d].state} : SetState(j, d, s)
  PROVE  CalmRows /\ row' \in RowType
<1>1. \A l \in Jobs : job'[l].plan = job[l].plan
  BY StatusStep DEF SetupInv, SetupTypeOK
<1>2. row \in RowType
  BY DEF SetupInv, SetupTypeOK, RowType
<1>3. CASE row' = row
  BY <1>1, <1>2, <1>3 DEF CalmRows
<1>4. ASSUME d \in Radios, NEW s \in Plain \cup {row[j][d].state}, SetState(j, d, s)
      PROVE  CalmRows /\ row' \in RowType
  <2>1. s \in SetupState
    BY <1>2, <1>4 DEF Plain, RowType
  <2>2. row' = WithState(row, j, d, s)
    BY <1>4 DEF SetState, WithState
  <2>3. /\ row'[j][d].state = s /\ row'[j][d].backup = row[j][d].backup
        /\ \A l \in Jobs, c \in Radios : l # j \/ c # d => row'[l][c] = row[l][c]
    BY <1>2, <1>4, <2>1, <2>2, StateWritten
  <2>4. row' \in RowType
    BY <1>2, <1>4, <2>1, <2>2, StateWritten
  <2>5. \A l \in Jobs, c \in Radios :
          /\ row'[l][c].backup = row[l][c].backup
          /\ row'[l][c].state # row[l][c].state =>
               row'[l][c].state \notin {"UNKNOWN", "ROLLED_BACK", "VERIFIED"}
    BY <1>4, <2>3 DEF Plain
  <2> QED BY <1>1, <2>4, <2>5 DEF CalmRows
<1> QED BY <1>3, <1>4

\* An executor that has nothing to do, or only its lease to release.
LEMMA IdleExecutor ==
  /\ Idle \in Executor /\ Idle.pc = "idle"
  /\ [Idle EXCEPT !.pc = "end"] \in Executor /\ [Idle EXCEPT !.pc = "end"].pc = "end"
<1>1. 1 \in 1 .. RadioCount + 1 /\ 0 \in 0 .. 40 /\ {} \in SUBSET Radios
  BY SetupAssumption
<1> QED BY <1>1 DEF Idle, Executor

\* The next place of a list of radios.
LEMMA NextPlace ==
  ASSUME NEW d \in Radios
  PROVE  d + 1 \in 1 .. RadioCount + 1
BY SetupAssumption DEF Radios

\* The end of a row, for whatever reason.
LEMMA RowEnds ==
  ASSUME SetupInv, NEW p \in Procs, NEW j \in Jobs, NEW s, AfterRow(p, j, s),
         ex[p][j].pc \in RunPcs, ex[p][j].i \in Radios
  PROVE  \E e \in Executor : SetEx(p, j, e) /\ e.pc \in {"row", "end"} /\ Moves(p, j)
<1>1. ex[p][j] \in Executor /\ ex \in [Procs -> [Jobs -> Executor]]
  BY DEF SetupInv, SetupTypeOK
<1>2. CASE s \in {"cancelled", "failed"}
  <2> DEFINE e == [Idle EXCEPT !.pc = "end"]
  <2>1. e \in Executor /\ e.pc = "end"
    BY IdleExecutor
  <2>2. SetEx(p, j, e)
    BY <1>2 DEF AfterRow
  <2> HIDE DEF e
  <2>3. ex'[p][j] = e
    BY <1>1, <2>1, <2>2, ExecutorSet
  <2> QED BY <2>1, <2>2, <2>3 DEF Moves, Leaves, RunPcs, Back
<1>3. CASE s \notin {"cancelled", "failed"}
  <2> DEFINE e == [ex[p][j] EXCEPT !.pc = "row", !.i = @ + 1, !.k = 0]
  <2>1. e \in Executor /\ e.pc = "row" /\ e.k = 0 /\ e.i = ex[p][j].i + 1
    <3>1. ex[p][j].i + 1 \in 1 .. RadioCount + 1 /\ 0 \in 0 .. 40
      BY NextPlace
    <3> QED BY <1>1, <3>1 DEF Executor
  <2>2. SetEx(p, j, e)
    BY <1>3 DEF AfterRow
  <2> HIDE DEF e
  <2>3. ex'[p][j] = e
    BY <1>1, <2>1, <2>2, ExecutorSet
  <2>4. \A d \in Radios : d > ex[p][j].i => Fresh(j, d)
    BY DEF SetupInv, AheadFresh
  <2>5. \A d \in Radios : d > e.i \/ d = e.i => d > ex[p][j].i
    BY <2>1, SetupAssumption DEF Radios
  <2>6. NextRow(p, j)
    BY <2>1, <2>3, <2>4, <2>5 DEF NextRow
  <2> QED BY <2>1, <2>2, <2>6 DEF Moves
<1> QED BY <1>2, <1>3

\* A row that ends with a calm write and its radio released, or with a radio
\* that was never owned.
LEMMA RowEndStep ==
  ASSUME SetupInv, LeaseTypeOK', NEW p \in Procs, NEW j \in Jobs, NEW s, AfterRow(p, j, s),
         ex[p][j].pc \in RunPcs, ex[p][j].i \in Radios,
         \/ ex[p][j].pc \in Holding /\ lock' = Unlocked(ex[p][j].i)
         \/ ex[p][j].pc = "row" /\ lock' = lock,
         StatusMoves(j), CalmRows, row' \in RowType, proc' = proc, faults' = faults
  PROVE  SetupInv'
<1>1. PICK e \in Executor : SetEx(p, j, e) /\ e.pc \in {"row", "end"} /\ Moves(p, j)
  BY RowEnds
<1>2. e.pc \notin Holding
  BY <1>1 DEF Holding, Inside, Back
<1>3. LockMoves(p, j, e)
  BY <1>2 DEF LockMoves
<1>4. job[j].status # "none" /\ job[j].owner = p /\ faults' \in 0 .. MaxFaults
  BY Here DEF RunPcs, SetupInv, SetupTypeOK
<1> QED BY <1>1, <1>3, <1>4, ExecutorCalm DEF RowType

\* The steps of _run_device() and _execute() that end a row.
LEMMA RowEndSteps ==
  ASSUME SetupInv, LeaseTypeOK', NEW p \in Procs, NEW j \in Jobs,
         \/ RadioDenied(p, j) \/ RowFails(p, j) \/ LeaseLost(p, j)
         \/ CancelledAtCheckpoint(p, j) \/ RowDone(p, j)
  PROVE  SetupInv'
<1> DEFINE d == ex[p][j].i
<1>1. "FAILED" \in Plain /\ "failed" \in Finals /\ "cancelled" \in Finals
  BY DEF Plain, SetupState, Successors, Finals
<1>2. ex[p][j].pc \in Inside => d \in Radios /\ ex[p][j].pc \in RunPcs \cap Holding
  BY Here DEF Holding, Inside, RunPcs
<1>3. CASE RadioDenied(p, j)
  <2>1. SetState(j, d, "FAILED") /\ d \in Radios /\ job' = job
    BY <1>3 DEF RadioDenied, Radio
  <2>2. CalmRows /\ row' \in RowType
    BY <1>1, <1>3, <2>1, CalmWrite DEF RadioDenied, StatusMoves
  <2> QED BY <1>3, <2>1, <2>2, RowEndStep DEF RadioDenied, At, StatusMoves, RunPcs
<1>4. CASE RowFails(p, j)
  <2>1. SetState(j, d, "FAILED") /\ job' = job /\ ex[p][j].pc \in Inside
    BY <1>4 DEF RowFails, Radio, At, Inside
  <2>2. CalmRows /\ row' \in RowType
    BY <1>1, <1>2, <1>4, <2>1, CalmWrite DEF RowFails, StatusMoves
  <2> QED BY <1>2, <1>4, <2>1, <2>2, RowEndStep DEF RowFails, Radio, StatusMoves
<1>5. CASE LeaseLost(p, j)
  <2>1. SetState(j, d, "FAILED") /\ StatusMoves(j) /\ ex[p][j].pc \in Inside
    BY <1>1, <1>5 DEF LeaseLost, Radio, At, Inside, StatusMoves
  <2>2. CalmRows /\ row' \in RowType
    BY <1>1, <1>2, <1>5, <2>1, CalmWrite DEF LeaseLost
  <2> QED BY <1>2, <1>5, <2>1, <2>2, RowEndStep DEF LeaseLost, Radio
<1>6. CASE CancelledAtCheckpoint(p, j)
  <2>1. /\ \E s \in Plain \cup {row[j][d].state} : SetState(j, d, s)
        /\ StatusMoves(j) /\ ex[p][j].pc \in Inside
    BY <1>1, <1>6 DEF CancelledAtCheckpoint, Radio, At, Inside, StatusMoves
  <2>2. CalmRows /\ row' \in RowType
    BY <1>2, <1>6, <2>1, CalmWrite DEF CancelledAtCheckpoint
  <2> QED BY <1>2, <1>6, <2>1, <2>2, RowEndStep DEF CancelledAtCheckpoint, Radio
<1>7. CASE RowDone(p, j)
  <2>1. StatusMoves(j) /\ row' = row /\ ex[p][j].pc \in Inside
    BY <1>7 DEF RowDone, Radio, At, Inside, StatusMoves
  <2>2. CalmRows /\ row' \in RowType
    BY <1>7, <2>1, CalmWrite DEF RowDone
  <2> QED BY <1>2, <1>7, <2>1, <2>2, RowEndStep DEF RowDone, Radio
<1> QED BY <1>3, <1>4, <1>5, <1>6, <1>7

\* The steps that take a radio, end a job or wait for the heartbeat.
LEMMA RunSteps ==
  ASSUME SetupInv, LeaseTypeOK', NEW p \in Procs, NEW j \in Jobs,
         \/ Execute(p, j) \/ EnterRadio(p, j) \/ CancelledAtRow(p, j) \/ Finish(p, j)
         \/ ReleaseLease(p, j) \/ HeartbeatLost(p, j)
  PROVE  SetupInv'
<1>1. /\ ex[p][j] \in Executor /\ ex \in [Procs -> [Jobs -> Executor]]
      /\ faults \in 0 .. MaxFaults /\ faults \in Nat
  BY SetupAssumption DEF SetupInv, SetupTypeOK
<1>2. begun' = begun /\ changed' = changed /\ row' = row /\ proc' = proc
  BY DEF Execute, EnterRadio, CancelledAtRow, Finish, ReleaseLease, HeartbeatLost
<1>3. "failed" \in Finals /\ "cancelled" \in Finals /\ "completed" \in Finals
      /\ "partial_failure" \in Finals
  BY DEF Finals
<1>4. StatusMoves(j)
  <2>1. CASE job' = job
    BY <2>1 DEF StatusMoves
  <2>2. CASE CancelledAtRow(p, j)
    BY <1>3, <2>2 DEF CancelledAtRow, StatusMoves
  <2>3. CASE Finish(p, j)
    <3> DEFINE s == IF AllVerified(j) THEN "completed"
                    ELSE IF \E d \in Radios : row[j][d].state = "VERIFIED"
                    THEN "partial_failure" ELSE "failed"
    <3>1. s \in Finals /\ (s = "completed" => AllVerified(j))
      BY <1>3
    <3>2. SetStatus(j, s)
      BY <2>3 DEF Finish
    <3> HIDE DEF s
    <3> QED BY <3>1, <3>2 DEF StatusMoves
  <2> QED BY <2>1, <2>2, <2>3 DEF Execute, EnterRadio, ReleaseLease, HeartbeatLost
<1>5. CalmRows /\ row' \in RowType
  BY <1>2, <1>4, CalmWrite
<1>6. faults' \in 0 .. MaxFaults
  <2>1. faults' = faults \/ (faults' = faults + 1 /\ faults < MaxFaults)
    BY DEF Execute, EnterRadio, CancelledAtRow, Finish, ReleaseLease, HeartbeatLost, Fault
  <2> QED BY <1>1, <2>1, SetupAssumption
<1>7. job[j].status # "none" /\ (ex[p][j].pc \in RunPcs => job[j].owner = p)
  <2>1. CASE Execute(p, j)
    BY <2>1, Here DEF Execute
  <2>2. CASE ~Execute(p, j)
    BY <2>2, Here DEF EnterRadio, CancelledAtRow, Finish, ReleaseLease, HeartbeatLost, At
  <2> QED BY <2>1, <2>2
<1>8. ASSUME NEW e \in Executor, SetEx(p, j, e), Moves(p, j), LockMoves(p, j, e),
             e.pc \in RunPcs => job[j].owner = p
      PROVE  SetupInv'
  BY <1>2, <1>4, <1>5, <1>6, <1>7, <1>8, ExecutorCalm DEF RowType
<1>9. ASSUME NEW e \in Executor, SetEx(p, j, e) PROVE ex'[p][j] = e
  BY <1>1, <1>9, ExecutorSet
<1>10. CASE Execute(p, j)
  <2> DEFINE e == [Idle EXCEPT !.pc = "row"]
  <2>1. e \in Executor /\ e.pc = "row" /\ e.k = 0
    BY IdleExecutor DEF Idle, Executor
  <2>2. SetEx(p, j, e) /\ lock' = lock /\ job[j].owner = p
    BY <1>10 DEF Execute
  <2>3. \A d \in Radios : Fresh(j, d)
    BY <1>10 DEF Execute, Untouched, SetupInv, RowsTruthful, RowTruthful
  <2> HIDE DEF e
  <2>4. NextRow(p, j)
    BY <1>9, <2>1, <2>2, <2>3 DEF NextRow
  <2> QED BY <1>8, <2>1, <2>2, <2>4 DEF Moves, LockMoves, Holding, Inside, Back
<1>11. CASE EnterRadio(p, j)
  <2> DEFINE e == [ex[p][j] EXCEPT !.pc = "check"]
  <2>1. e \in Executor /\ e.pc = "check" /\ e.i = ex[p][j].i /\ e.k = ex[p][j].k
    BY <1>1 DEF Executor
  <2>2. /\ SetEx(p, j, e) /\ ex[p][j].pc = "row" /\ e.i \in Radios
        /\ lock[e.i] = NoExecutor /\ lock' = [lock EXCEPT ![e.i] = <<p, j>>]
    BY <1>11, <2>1 DEF EnterRadio, At, Radio
  <2> HIDE DEF e
  <2>3. Enters(p, j)
    BY <1>9, <2>1, <2>2 DEF Enters
  <2> QED BY <1>7, <1>8, <2>1, <2>2, <2>3 DEF Moves, LockMoves, Holding, Inside, RunPcs
<1>12. CASE CancelledAtRow(p, j) \/ Finish(p, j)
  <2> DEFINE e == [Idle EXCEPT !.pc = "end"]
  <2>1. e \in Executor /\ e.pc = "end"
    BY IdleExecutor
  <2>2. SetEx(p, j, e) /\ lock' = lock
    BY <1>12 DEF CancelledAtRow, Finish
  <2> HIDE DEF e
  <2>3. Leaves(p, j)
    BY <1>9, <2>1, <2>2 DEF Leaves, RunPcs, Back
  <2> QED BY <1>8, <2>1, <2>2, <2>3 DEF Moves, LockMoves, Holding, Inside, Back, RunPcs
<1>13. CASE ReleaseLease(p, j)
  <2>1. Idle \in Executor /\ Idle.pc = "idle" /\ SetEx(p, j, Idle) /\ lock' = lock
    BY <1>13, IdleExecutor DEF ReleaseLease
  <2>2. Leaves(p, j)
    BY <1>9, <2>1 DEF Leaves, RunPcs, Back
  <2> QED BY <1>8, <2>1, <2>2 DEF Moves, LockMoves, Holding, Inside, Back, RunPcs
<1>14. CASE HeartbeatLost(p, j)
  <2> DEFINE e == [ex[p][j] EXCEPT !.lost = TRUE]
  <2>1. e \in Executor /\ e.pc = ex[p][j].pc /\ e.i = ex[p][j].i /\ e.k = ex[p][j].k
    BY <1>1 DEF Executor
  <2>2. SetEx(p, j, e) /\ lock' = lock
    BY <1>14 DEF HeartbeatLost
  <2> HIDE DEF e
  <2>3. Stays(p, j)
    BY <1>9, <2>1, <2>2 DEF Stays
  <2> QED BY <1>7, <1>8, <2>1, <2>2, <2>3 DEF Moves, LockMoves
<1> QED BY <1>10, <1>11, <1>12, <1>13, <1>14

\* An operation in flight returns: its state promises nothing, and a route was
\* counted when it began.
LEMMA OperationReturnsStep ==
  ASSUME SetupInv, LeaseTypeOK', NEW p \in Procs, NEW j \in Jobs, OperationReturns(p, j)
  PROVE  SetupInv'
<1> DEFINE k == ex[p][j].k
           d == ex[p][j].i
           prog == Program(j)
<1>1. /\ ex[p][j] \in Executor /\ ex \in [Procs -> [Jobs -> Executor]]
      /\ ex[p][j].pc = "op" /\ d \in Radios /\ k \in 0 .. 40 /\ faults \in 0 .. MaxFaults
      /\ job[j].status # "none" /\ job[j].owner = p
      /\ changed \in [Jobs -> SUBSET Radios]
  <2>1. ex[p][j].pc = "op"
    BY DEF OperationReturns, At
  <2>2. ex[p][j] \in Executor /\ ex \in [Procs -> [Jobs -> Executor]] /\ faults \in 0 .. MaxFaults
        /\ changed \in [Jobs -> SUBSET Radios]
    BY DEF SetupInv, SetupTypeOK
  <2> QED BY <2>1, <2>2, Here DEF Holding, Inside, RunPcs, Executor
<1>15. k \in 0 .. 40
  BY <1>1
<1>2. PlaceAt(j, ex[p][j])
  BY <1>1 DEF SetupInv, PlaceTruthful, Inside
<1>3. /\ k + 1 \in 1 .. Len(prog) /\ Len(prog) <= 40
      /\ prog[k + 1].op \notin {"none", "save"}
      /\ prog[k + 1].op = "route" => d \in changed[j]
  <2>1. StepsBegun(ex[p][j]) = k + 1
    BY <1>1 DEF StepsBegun
  <2>2. k + 1 <= Len(prog)
    BY <1>2, <2>1 DEF PlaceAt
  <2>3. Len(prog) \in Nat /\ Len(prog) <= 40
    BY ProgramFacts DEF SequenceFacts
  <2>4. /\ prog[k + 1].op \notin {"none", "save"}
        /\ prog[k + 1].op = "route" => d \in changed[j]
    BY <1>1, <1>2 DEF PlaceAt
  <2> HIDE DEF k, prog
  <2>5. k + 1 \in 1 .. Len(prog)
    BY <1>15, <2>2, <2>3
  <2> QED BY <2>3, <2>4, <2>5
<1>16. k + 1 \in 0 .. 40
  <2>1. k + 1 <= Len(prog)
    <3>1. StepsBegun(ex[p][j]) = k + 1
      BY <1>1 DEF StepsBegun
    <3> QED BY <1>2, <3>1 DEF PlaceAt
  <2>2. Len(prog) \in Nat /\ Len(prog) <= 40
    BY ProgramFacts DEF SequenceFacts
  <2> HIDE DEF k, prog
  <2>3. k + 1 <= 40
    BY <1>15, <2>1, <2>2
  <2> QED BY <1>15, <2>3
<1>4. prog[k + 1].to \in Plain
  <2>1. prog[k + 1].to \in SetupState \ {"UNKNOWN", "ROLLED_BACK"}
    <3>1. prog \in Seq(Steps)
      BY ProgramFacts DEF SequenceFacts
    <3> HIDE DEF prog, k
    <3>2. prog[k + 1] \in Steps
      BY <1>3, <3>1
    <3> QED BY <3>2 DEF Steps
  <2>2. prog[k + 1].to # "VERIFIED"
    BY <1>3, ProgramFacts DEF SequenceFacts
  <2> QED BY <2>1, <2>2 DEF Plain
<1>5. /\ job' = job /\ lock' = lock /\ begun' = begun /\ proc' = proc /\ faults' = faults
      /\ changed' = changed
  <2>1. changed' = IF prog[k + 1].op = "route"
                   THEN [changed EXCEPT ![j] = @ \cup {d}] ELSE changed
    BY DEF OperationReturns, NextStep, Radio
  <2>2. d \in changed[j] => [changed EXCEPT ![j] = @ \cup {d}] = changed
    <3>1. d \in changed[j] => changed[j] \cup {d} = changed[j]
      OBVIOUS
    <3> QED BY <1>1, <3>1
  <2>3. changed' = changed
    BY <1>3, <2>1, <2>2
  <2> QED BY <2>3 DEF OperationReturns
<1>6. /\ row' = row \/ SetState(j, d, prog[k + 1].to)
      /\ k = 0 => SetState(j, d, prog[k + 1].to)
  <2>1. IF prog[k + 1].to = PriorState(p, j) THEN row' = row ELSE SetState(j, d, prog[k + 1].to)
    BY DEF OperationReturns, NextStep, Radio
  <2>2. k = 0 => PriorState(p, j) # prog[k + 1].to
    BY <1>4 DEF PriorState, Plain
  <2> QED BY <2>1, <2>2
<1>7. CalmRows /\ row' \in RowType /\ StatusMoves(j)
  <2>1. StatusMoves(j)
    BY <1>5 DEF StatusMoves
  <2> QED BY <1>1, <1>4, <1>5, <1>6, <2>1, CalmWrite
<1>8. row'[j][d].state # "UNKNOWN"
  <2>1. CASE k = 0
    <3>1. row \in RowType
      BY DEF SetupInv, SetupTypeOK, RowType
    <3>2. row' = [row EXCEPT ![j][d].state = prog[k + 1].to]
      BY <1>6, <2>1 DEF SetState
    <3>3. row'[j][d].state = prog[k + 1].to
      BY <1>1, <3>1, <3>2 DEF RowType
    <3> QED BY <1>4, <3>3 DEF Plain
  <2>2. CASE k # 0
    <3>1. row[j][d].state # "UNKNOWN"
      <4>1. k >= 1
        <5> HIDE DEF k
        <5> QED BY <1>1, <2>2
      <4> QED BY <1>2, <4>1 DEF PlaceAt
    <3> QED BY <1>1, <1>7, <3>1 DEF CalmRows
  <2> QED BY <2>1, <2>2
<1>9. PICK pc \in {"check", "bad"} : SetEx(p, j, [ex[p][j] EXCEPT !.pc = pc, !.k = @ + 1])
  BY DEF OperationReturns
<1> DEFINE e == [ex[p][j] EXCEPT !.pc = pc, !.k = @ + 1]
<1>10. e \in Executor /\ e.pc = pc /\ e.i = d /\ e.k = k + 1
  <2>1. k + 1 \in 0 .. 40
    BY <1>16
  <2>2. e.pc = pc /\ e.i = d /\ e.k = k + 1
    BY <1>1 DEF Executor
  <2> QED BY <1>1, <2>1, <2>2 DEF Executor
<1>11. SetEx(p, j, e)
  BY <1>9
<1> HIDE DEF e
<1>12. ex'[p][j] = e
  BY <1>1, <1>10, <1>11, ExecutorSet
<1>13. Returns(p, j)
  BY <1>1, <1>8, <1>10, <1>12 DEF Returns
<1>14. LockMoves(p, j, e)
  BY <1>1, <1>5, <1>10 DEF LockMoves, Holding, Inside
<1> QED BY <1>1, <1>5, <1>7, <1>10, <1>11, <1>13, <1>14, ExecutorCalm DEF Moves, RowType

-----------------------------------------------------------------------------
(***************************************************************************)
(* The steps of a rollback                                                 *)
(***************************************************************************)

\* What a rollback had in memory only says FAILED.
LEMMA CommittedRows ==
  ASSUME SetupInv, NEW p \in Procs, NEW j \in Jobs
  PROVE  /\ Committed(p, j) \in RowType
         /\ \A l \in Jobs, d \in Radios :
              /\ Committed(p, j)[l][d].backup = row[l][d].backup
              /\ Committed(p, j)[l][d].state \in {row[l][d].state, "FAILED"}
<1> DEFINE rows == [d \in Radios |-> IF d \in ex[p][j].unsaved
                                     THEN [row[j][d] EXCEPT !.state = "FAILED"] ELSE row[j][d]]
<1>1. row \in RowType /\ "FAILED" \in SetupState
  BY DEF SetupInv, SetupTypeOK, RowType, SetupState, Successors
<1>2. \A d \in Radios : /\ rows[d] \in [state : SetupState, backup : BOOLEAN]
                        /\ rows[d].backup = row[j][d].backup
                        /\ rows[d].state \in {row[j][d].state, "FAILED"}
  BY <1>1 DEF RowType
<1>3. rows \in [Radios -> [state : SetupState, backup : BOOLEAN]]
  BY <1>2
<1>4. Committed(p, j) = [row EXCEPT ![j] = rows]
  BY DEF Committed
<1> HIDE DEF rows
<1>5. Committed(p, j) \in RowType
  BY <1>1, <1>3, <1>4 DEF RowType
<1>6. Committed(p, j)[j] = rows /\ \A l \in Jobs : l # j => Committed(p, j)[l] = row[l]
  BY <1>1, <1>4 DEF RowType
<1> QED BY <1>2, <1>5, <1>6

\* Committing them together with the state of one row.
LEMMA CommitWith ==
  ASSUME SetupInv, NEW p \in Procs, NEW j \in Jobs, NEW d \in Radios, NEW s \in SetupState,
         row' = WithState(Committed(p, j), j, d, s)
  PROVE  /\ row' \in RowType
         /\ row'[j][d].state = s
         /\ \A l \in Jobs, c \in Radios : row'[l][c].backup = row[l][c].backup
         /\ \A l \in Jobs, c \in Radios : l # j \/ c # d =>
              row'[l][c].state \in {row[l][c].state, "FAILED"}
<1> DEFINE R == Committed(p, j)
<1>1. /\ R \in RowType
      /\ \A l \in Jobs, c \in Radios : /\ R[l][c].backup = row[l][c].backup
                                       /\ R[l][c].state \in {row[l][c].state, "FAILED"}
  BY CommittedRows
<1> HIDE DEF R
<1>2. row' = WithState(R, j, d, s)
  BY DEF R
<1>3. /\ row' \in RowType
      /\ row'[j][d].state = s /\ row'[j][d].backup = R[j][d].backup
      /\ \A l \in Jobs, c \in Radios : l # j \/ c # d => row'[l][c] = R[l][c]
  BY <1>1, <1>2, StateWritten
<1>4. ASSUME NEW l \in Jobs, NEW c \in Radios PROVE row'[l][c].backup = row[l][c].backup
  BY <1>1, <1>3
<1> QED BY <1>1, <1>3, <1>4

\* Committing them is calm, also with a state that promises nothing for one row.
LEMMA CalmCommit ==
  ASSUME SetupInv, NEW p \in Procs, NEW j \in Jobs, NEW d \in Radios, NEW s \in Plain,
         begun' = begun, changed' = changed, StatusMoves(j),
         \/ row' = Committed(p, j)
         \/ row' = WithState(Committed(p, j), j, d, s)
  PROVE  CalmRows /\ row' \in RowType
<1>1. \A l \in Jobs : job'[l].plan = job[l].plan
  BY StatusStep DEF SetupInv, SetupTypeOK
<1>2. s \in SetupState /\ s \notin {"UNKNOWN", "ROLLED_BACK", "VERIFIED"}
  BY DEF Plain
<1>3. CASE row' = Committed(p, j)
  BY <1>1, <1>3, CommittedRows DEF CalmRows
<1>4. CASE row' = WithState(Committed(p, j), j, d, s)
  <2>1. /\ row' \in RowType
        /\ row'[j][d].state = s
        /\ \A l \in Jobs, c \in Radios : row'[l][c].backup = row[l][c].backup
        /\ \A l \in Jobs, c \in Radios : l # j \/ c # d =>
             row'[l][c].state \in {row[l][c].state, "FAILED"}
    BY <1>2, <1>4, CommitWith
  <2> QED BY <1>1, <1>2, <2>1 DEF CalmRows
<1> QED BY <1>3, <1>4

\* A step of a rollback that leaves the rows calm: where it is and what it holds.
LEMMA RollbackCalm ==
  ASSUME SetupInv, LeaseTypeOK', NEW p \in Procs, NEW j \in Jobs, NEW e \in Executor,
         SetEx(p, j, e), LockMoves(p, j, e), StatusMoves(j), CalmRows, row' \in RowType,
         proc' = proc, faults' = faults, job[j].status # "none",
         \/ e.pc \in {"rb_row", "end"}
         \/ e.pc \in Back /\ e.i \in Radios /\ row[j][e.i].backup
  PROVE  SetupInv'
<1>1. ex'[p][j] = e
  BY ExecutorSet DEF SetupInv, SetupTypeOK
<1>2. Moves(p, j) /\ e.pc \notin RunPcs
  BY <1>1 DEF Moves, Leaves, GoesBack, RunPcs, Back
<1>3. faults' \in 0 .. MaxFaults
  BY DEF SetupInv, SetupTypeOK
<1> QED BY <1>2, <1>3, ExecutorCalm DEF RowType

\* The steps of a rollback that write nothing.
LEMMA RollbackSteps ==
  ASSUME SetupInv, LeaseTypeOK', NEW p \in Procs, NEW j \in Jobs,
         \/ Rollback(p, j) \/ SkipRow(p, j) \/ RollbackEnters(p, j) \/ RollbackRaises(p, j)
         \/ RollbackBegins(p, j) \/ RollbackNext(p, j)
  PROVE  SetupInv'
<1>1. /\ row' = row /\ begun' = begun /\ changed' = changed /\ proc' = proc
      /\ faults' = faults /\ job' = job
  BY DEF Rollback, SkipRow, RollbackEnters, RollbackRaises, RollbackBegins, RollbackNext
<1>2. StatusMoves(j)
  BY <1>1 DEF StatusMoves
<1>3. CalmRows /\ row' \in RowType
  BY <1>1, <1>2, CalmWrite
<1>4. ex[p][j] \in Executor
  BY Here
<1>5. job[j].status # "none"
  <2>1. CASE Rollback(p, j)
    BY <2>1 DEF Rollback
  <2>2. CASE ~Rollback(p, j)
    BY <2>2, Here DEF SkipRow, RollbackEnters, RollbackRaises, RollbackBegins, RollbackNext, At
  <2> QED BY <2>1, <2>2
<1>6. ASSUME NEW e \in Executor, SetEx(p, j, e), LockMoves(p, j, e),
             \/ e.pc \in {"rb_row", "end"}
             \/ e.pc \in Back /\ e.i \in Radios /\ row[j][e.i].backup
      PROVE  SetupInv'
  BY <1>1, <1>2, <1>3, <1>5, <1>6, RollbackCalm
<1>7. ex[p][j].pc \in Back => /\ ex[p][j].i \in Radios /\ row[j][ex[p][j].i].backup
                              /\ ex[p][j].pc \in Holding
  BY Here DEF SetupInv, BackTruthful, Holding
<1>8. "rb_row" \notin Holding
  BY DEF Holding, Inside, Back
<1>9. CASE Rollback(p, j)
  <2> DEFINE e == [Idle EXCEPT !.pc = "rb_row"]
  <2>1. e \in Executor /\ e.pc = "rb_row"
    BY IdleExecutor DEF Idle, Executor
  <2>2. SetEx(p, j, e) /\ lock' = lock
    BY <1>9 DEF Rollback
  <2> HIDE DEF e
  <2> QED BY <1>6, <1>8, <2>1, <2>2 DEF LockMoves
<1>10. CASE SkipRow(p, j)
  <2> DEFINE e == [ex[p][j] EXCEPT !.i = @ + 1]
  <2>1. ex[p][j].pc = "rb_row" /\ ex[p][j].i + 1 \in 1 .. RadioCount + 1
    BY <1>10, NextPlace DEF SkipRow, At, Radio
  <2>2. e \in Executor /\ e.pc = "rb_row"
    BY <1>4, <2>1 DEF Executor
  <2>3. SetEx(p, j, e) /\ lock' = lock
    BY <1>10 DEF SkipRow
  <2> HIDE DEF e
  <2> QED BY <1>6, <1>8, <2>2, <2>3 DEF LockMoves
<1>11. CASE RollbackEnters(p, j)
  <2> DEFINE e == [ex[p][j] EXCEPT !.pc = "rb_check", !.tried = TRUE]
  <2>1. e \in Executor /\ e.pc = "rb_check" /\ e.i = ex[p][j].i
    BY <1>4 DEF Executor
  <2>2. /\ SetEx(p, j, e) /\ e.i \in Radios /\ row[j][e.i].backup
        /\ lock[e.i] = NoExecutor /\ lock' = [lock EXCEPT ![e.i] = <<p, j>>]
    BY <1>11, <2>1 DEF RollbackEnters, Radio, Reversible, RadioFree
  <2> HIDE DEF e
  <2> QED BY <1>6, <2>1, <2>2 DEF LockMoves, Holding, Back
<1>12. CASE RollbackRaises(p, j)
  <2> DEFINE e == [ex[p][j] EXCEPT !.pc = "rb_row", !.i = @ + 1, !.tried = TRUE,
                                   !.ok = FALSE, !.unsaved = @ \cup {Radio(p, j)}]
  <2>1. /\ ex[p][j].i \in Radios
        /\ \/ lock' = lock
           \/ ex[p][j].pc \in Holding /\ lock' = Unlocked(ex[p][j].i)
    BY <1>7, <1>12 DEF RollbackRaises, At, Radio, Back
  <2>2. e \in Executor /\ e.pc = "rb_row"
    <3>1. ex[p][j].i + 1 \in 1 .. RadioCount + 1
      BY <2>1, NextPlace
    <3>2. ex[p][j].unsaved \cup {Radio(p, j)} \in SUBSET Radios
      BY <1>4, <2>1 DEF Radio, Executor
    <3> QED BY <1>4, <3>1, <3>2 DEF Executor
  <2>3. SetEx(p, j, e)
    BY <1>12 DEF RollbackRaises
  <2> HIDE DEF e
  <2> QED BY <1>6, <1>8, <2>1, <2>2, <2>3 DEF LockMoves
<1>13. CASE RollbackBegins(p, j)
  <2> DEFINE e == [ex[p][j] EXCEPT !.pc = "rb_op"]
  <2>1. e \in Executor /\ e.pc = "rb_op" /\ e.i = ex[p][j].i
    BY <1>4 DEF Executor
  <2>2. SetEx(p, j, e) /\ ex[p][j].pc \in Back /\ lock' = lock
    BY <1>13 DEF RollbackBegins, At, Back
  <2> HIDE DEF e
  <2> QED BY <1>6, <1>7, <2>1, <2>2 DEF LockMoves, Back
<1>14. CASE RollbackNext(p, j)
  <2> DEFINE e == [ex[p][j] EXCEPT !.pc = "rb_row", !.i = @ + 1]
  <2>1. ex[p][j].pc \in Back /\ lock' = Unlocked(ex[p][j].i)
    BY <1>14 DEF RollbackNext, At, Radio, Back
  <2>2. e \in Executor /\ e.pc = "rb_row"
    <3>1. ex[p][j].i + 1 \in 1 .. RadioCount + 1
      BY <1>7, <2>1, NextPlace
    <3> QED BY <1>4, <3>1 DEF Executor
  <2>3. SetEx(p, j, e)
    BY <1>14 DEF RollbackNext
  <2> HIDE DEF e
  <2> QED BY <1>6, <1>7, <1>8, <2>1, <2>2, <2>3 DEF LockMoves
<1> QED BY <1>9, <1>10, <1>11, <1>12, <1>13, <1>14

\* The end of a rollback, by its last row or by the loss of its lease.
LEMMA RollbackEnds ==
  ASSUME SetupInv, LeaseTypeOK', NEW p \in Procs, NEW j \in Jobs,
         RollbackLost(p, j) \/ RollbackFinish(p, j)
  PROVE  SetupInv'
<1> DEFINE e == [Idle EXCEPT !.pc = "end"]
<1>1. e \in Executor /\ e.pc = "end"
  BY IdleExecutor
<1>2. /\ SetEx(p, j, e) /\ begun' = begun /\ changed' = changed /\ proc' = proc
      /\ faults' = faults
  BY DEF RollbackLost, RollbackFinish
<1> HIDE DEF e
<1>3. StatusMoves(j)
  <2>1. "rollback_failed" \in Finals /\ RollbackStatus(ex[p][j]) \in Finals
        /\ RollbackStatus(ex[p][j]) # "completed"
    BY DEF Finals, RollbackStatus
  <2> QED BY <2>1 DEF RollbackLost, RollbackFinish, StatusMoves
<1>4. job[j].status # "none"
  BY Here DEF RollbackLost, RollbackFinish, At
<1>5. 1 \in Radios /\ "ROLLBACK_PENDING" \in Plain
  BY SetupAssumption DEF Radios, Plain, SetupState, Successors
<1>6. e.pc \notin Holding
  BY <1>1 DEF Holding, Inside, Back
<1>7. CASE RollbackFinish(p, j)
  <2>1. row' = Committed(p, j) /\ lock' = lock
    BY <1>7 DEF RollbackFinish
  <2>2. CalmRows /\ row' \in RowType
    BY <1>2, <1>3, <1>5, <2>1, CalmCommit
  <2> QED BY <1>1, <1>2, <1>3, <1>4, <1>6, <2>1, <2>2, RollbackCalm DEF LockMoves
<1>8. CASE RollbackLost(p, j)
  <2>1. ex[p][j].pc \in Holding /\ ex[p][j].i \in Radios
    BY <1>8, Here DEF RollbackLost, At, Holding, Back
  <2>2. /\ \/ row' = Committed(p, j)
           \/ row' = WithState(Committed(p, j), j, ex[p][j].i, "ROLLBACK_PENDING")
        /\ lock' = Unlocked(ex[p][j].i)
    BY <1>8 DEF RollbackLost, Radio, WithState
  <2>3. CalmRows /\ row' \in RowType
    BY <1>2, <1>3, <1>5, <2>1, <2>2, CalmCommit
  <2> QED BY <1>1, <1>2, <1>3, <1>4, <1>6, <2>1, <2>2, <2>3, RollbackCalm DEF LockMoves
<1> QED BY <1>7, <1>8

\* A place whose executor, program and operations stay is kept when its row keeps
\* the backup and its state stays or fails.
LEMMA PlaceKept ==
  ASSUME NEW q \in Procs, NEW l \in Jobs, PlaceAt(l, ex[q][l]), ex'[q][l] = ex[q][l],
         Program(l)' = Program(l), \A n : OpsTo(l, n)' = OpsTo(l, n),
         SavedAt(job[l].plan)' = SavedAt(job[l].plan),
         begun'[l][ex[q][l].i] = begun[l][ex[q][l].i],
         ex[q][l].i \in changed'[l] <=> ex[q][l].i \in changed[l],
         row'[l][ex[q][l].i].backup = row[l][ex[q][l].i].backup,
         row'[l][ex[q][l].i].state \in {row[l][ex[q][l].i].state, "FAILED"}
  PROVE  PlaceAt(l, ex[q][l])'
<1>1. StepsBegun(ex[q][l])' = StepsBegun(ex[q][l])
  BY DEF StepsBegun
<1>2. OpsTo(l, StepsBegun(ex[q][l]))' = OpsTo(l, StepsBegun(ex[q][l]))
  BY <1>1
<1> QED BY <1>1, <1>2 DEF PlaceAt

\* A rollback that was proven on the radio: nobody else is inside that radio, so
\* no route of this job is in flight there.
LEMMA RollbackProven ==
  ASSUME SetupInv, LeaseTypeOK', NEW p \in Procs, NEW j \in Jobs, NEW e \in Executor,
         ex[p][j].pc = "rb_op", e.pc = "rb_after", e.i = ex[p][j].i, SetEx(p, j, e),
         row' \in RowType, row'[j][ex[p][j].i].state = "ROLLED_BACK",
         \A l \in Jobs, c \in Radios : row'[l][c].backup = row[l][c].backup,
         \A l \in Jobs, c \in Radios : l # j \/ c # ex[p][j].i =>
           row'[l][c].state \in {row[l][c].state, "FAILED"},
         changed' = [changed EXCEPT ![j] = @ \ {ex[p][j].i}],
         proc' = proc, job' = job, lock' = lock, begun' = begun, faults' = faults
  PROVE  SetupInv'
<1> DEFINE d == ex[p][j].i
<1>1. /\ d \in Radios /\ lock[d] = <<p, j>> /\ row[j][d].backup /\ job[j].status # "none"
      /\ ex \in [Procs -> [Jobs -> Executor]] /\ changed \in [Jobs -> SUBSET Radios]
  BY Here DEF SetupInv, SetupTypeOK, BackTruthful, Back, Holding
<1>2. /\ ex' \in [Procs -> [Jobs -> Executor]] /\ ex'[p][j] = e
      /\ \A q \in Procs, l \in Jobs : q # p \/ l # j => ex'[q][l] = ex[q][l]
  BY <1>1, ExecutorSet
<1>3. /\ row' \in RowType
      /\ row'[j][d].state = "ROLLED_BACK"
      /\ \A l \in Jobs, c \in Radios : row'[l][c].backup = row[l][c].backup
      /\ \A l \in Jobs, c \in Radios : l # j \/ c # d =>
           row'[l][c].state \in {row[l][c].state, "FAILED"}
  OBVIOUS
<1>4. /\ changed' \in [Jobs -> SUBSET Radios] /\ d \notin changed'[j]
      /\ \A l \in Jobs : changed'[l] \subseteq changed[l]
      /\ \A l \in Jobs, c \in Radios : l # j \/ c # d => (c \in changed'[l] <=> c \in changed[l])
  BY <1>1
<1>5. \A l \in Jobs : /\ Program(l)' = Program(l)
                      /\ \A n : OpsTo(l, n)' = OpsTo(l, n)
                      /\ AllOps(l)' = AllOps(l)
                      /\ SavedAt(job[l].plan)' = SavedAt(job[l].plan)
  BY DEF Program, OpsTo, AllOps, SavedAt
<1>6. \A l \in Jobs, c \in Radios : Fresh(l, c) => Fresh(l, c)'
  BY <1>3, <1>4 DEF Fresh
<1> HIDE DEF d
<1>7. SetupTypeOK'
  <2>1. \A q \in Procs, l \in Jobs : ex'[q][l].pc \in Holding =>
          /\ ex[q][l].pc \in Holding /\ ex'[q][l].i = ex[q][l].i
    BY <1>2 DEF Holding, Back
  <2>2. ASSUME NEW q \in Procs, NEW l \in Jobs, ex'[q][l].pc \in Holding
        PROVE  ex'[q][l].i \in Radios /\ lock'[ex'[q][l].i] = <<q, l>>
    <3>1. ex[q][l].pc \in Holding /\ ex'[q][l].i = ex[q][l].i
      BY <2>1, <2>2
    <3>2. ex[q][l].i \in Radios /\ lock[ex[q][l].i] = <<q, l>>
      BY <3>1, Here
    <3> QED BY <3>1, <3>2
  <2> QED BY <1>2, <1>3, <1>4, <2>2 DEF SetupInv, SetupTypeOK, RowType, Holding, Inside, Back
<1>8. OwnerRuns'
  <2> SUFFICES ASSUME NEW q \in Procs, NEW l \in Jobs
               PROVE  /\ ex'[q][l].pc # "idle" => job[l].status # "none"
                      /\ ex'[q][l].pc \in RunPcs => job[l].owner = q
    BY DEF OwnerRuns
  <2>1. CASE q = p /\ l = j
    BY <1>1, <1>2, <2>1 DEF RunPcs
  <2>2. CASE q # p \/ l # j
    <3>1. ex'[q][l] = ex[q][l]
      BY <1>2, <2>2
    <3> QED BY <3>1, Here
  <2> QED BY <2>1, <2>2
<1>9. RowsTruthful'
  <2> SUFFICES ASSUME NEW l \in Jobs, NEW c \in Radios PROVE RowTruthful(l, c)'
    BY DEF RowsTruthful
  <2>1. CASE l = j /\ c = d
    <3>1. row'[l][c].state = "ROLLED_BACK" /\ c \notin changed'[l]
      BY <1>3, <1>4, <2>1
    <3>2. row'[l][c].backup = row[j][d].backup /\ row[j][d].backup
      BY <1>1, <1>3, <2>1 DEF d
    <3> QED BY <3>1, <3>2 DEF RowTruthful
  <2>2. CASE l # j \/ c # d
    <3>1. RowTruthful(l, c)
      BY DEF SetupInv, RowsTruthful
    <3>2. /\ row'[l][c].state \in {row[l][c].state, "FAILED"}
          /\ row'[l][c].backup = row[l][c].backup
          /\ c \in changed'[l] <=> c \in changed[l]
      BY <1>3, <1>4, <2>2
    <3> QED BY <1>5, <1>6, <3>1, <3>2 DEF RowTruthful
  <2> QED BY <2>1, <2>2
<1>10. AheadFresh'
  <2> SUFFICES ASSUME NEW q \in Procs, NEW l \in Jobs
               PROVE  /\ ex'[q][l].pc = "row" => ex'[q][l].k = 0
                      /\ ex'[q][l].pc \in RunPcs =>
                           \A c \in Radios :
                             c > ex'[q][l].i \/ (c = ex'[q][l].i /\ ex'[q][l].pc = "row")
                               => Fresh(l, c)
    BY <1>6 DEF AheadFresh
  <2>1. CASE q = p /\ l = j
    BY <1>2, <2>1 DEF RunPcs
  <2>2. CASE q # p \/ l # j
    <3>1. ex'[q][l] = ex[q][l]
      BY <1>2, <2>2
    <3> QED BY <3>1 DEF SetupInv, AheadFresh
  <2> QED BY <2>1, <2>2
<1>11. PlaceTruthful'
  <2> SUFFICES ASSUME NEW q \in Procs, NEW l \in Jobs, ex'[q][l].pc \in Inside
               PROVE  PlaceAt(l, ex[q][l])'
    BY DEF PlaceTruthful
  <2>1. ex'[q][l] = ex[q][l] /\ (q # p \/ l # j)
    BY <1>2 DEF Inside
  <2> DEFINE f == ex[q][l]
  <2>2. PlaceAt(l, f) /\ f.i \in Radios /\ lock[f.i] = <<q, l>>
    BY <2>1, Here DEF SetupInv, PlaceTruthful, Holding
  <2>3. f.i # d
    BY <1>1, <2>1, <2>2 DEF d
  <2>4. ASSUME NEW c \in Radios, c # d
        PROVE  /\ row'[l][c].state \in {row[l][c].state, "FAILED"}
               /\ row'[l][c].backup = row[l][c].backup
               /\ begun'[l][c] = begun[l][c]
               /\ c \in changed'[l] <=> c \in changed[l]
    BY <1>3, <1>4, <2>4
  <2>5. /\ row'[l][f.i].state \in {row[l][f.i].state, "FAILED"}
        /\ row'[l][f.i].backup = row[l][f.i].backup
        /\ begun'[l][f.i] = begun[l][f.i]
        /\ f.i \in changed'[l] <=> f.i \in changed[l]
    BY <2>2, <2>3, <2>4, Zenon
  <2> QED BY <1>5, <2>1, <2>2, <2>5, PlaceKept, Zenon
<1>12. BackTruthful'
  <2> SUFFICES ASSUME NEW q \in Procs, NEW l \in Jobs, ex'[q][l].pc \in Back
               PROVE  row'[l][ex'[q][l].i].backup
    BY DEF BackTruthful
  <2>1. ex[q][l].pc \in Back /\ ex'[q][l].i = ex[q][l].i
    BY <1>2 DEF Back
  <2>2. ex[q][l].i \in Radios /\ row[l][ex[q][l].i].backup
    BY <2>1, Here DEF SetupInv, BackTruthful, Holding
  <2>3. row'[l][ex[q][l].i].backup = row[l][ex[q][l].i].backup
    BY <1>3, <2>2
  <2> QED BY <2>1, <2>2, <2>3
<1>13. CompletedTruthful'
  BY <1>5 DEF SetupInv, CompletedTruthful
<1> QED BY <1>7, <1>8, <1>9, <1>10, <1>11, <1>12, <1>13 DEF SetupInv

\* adapter.rollback() returns, with or without the proof.
LEMMA RollbackReturnsStep ==
  ASSUME SetupInv, LeaseTypeOK', NEW p \in Procs, NEW j \in Jobs, RollbackReturns(p, j)
  PROVE  SetupInv'
<1> DEFINE d == ex[p][j].i
<1>1. PICK ok \in BOOLEAN, full \in BOOLEAN :
        /\ row' = WithState(Committed(p, j), j, d, IF ok THEN "ROLLED_BACK" ELSE "FAILED")
        /\ changed' = IF ok /\ ~Routing(j, d) THEN [changed EXCEPT ![j] = @ \ {d}] ELSE changed
        /\ SetEx(p, j, [ex[p][j] EXCEPT !.pc = "rb_after", !.ok = @ /\ ok,
                                        !.full = @ /\ ok /\ full, !.unsaved = {}])
  BY DEF RollbackReturns, Radio, WithState
<1>2. /\ ex[p][j].pc = "rb_op" /\ job' = job /\ proc' = proc /\ lock' = lock
      /\ begun' = begun /\ faults' = faults
  BY DEF RollbackReturns, At
<1>3. /\ ex[p][j] \in Executor /\ d \in Radios /\ lock[d] = <<p, j>>
      /\ job[j].status # "none" /\ row[j][d].backup
  BY <1>2, Here DEF Holding, Back, SetupInv, BackTruthful
<1> DEFINE e == [ex[p][j] EXCEPT !.pc = "rb_after", !.ok = @ /\ ok, !.full = @ /\ ok /\ full,
                                 !.unsaved = {}]
<1>4. e \in Executor /\ e.pc = "rb_after" /\ e.i = d
  BY <1>3 DEF Executor
<1>5. SetEx(p, j, e)
  BY <1>1
<1> HIDE DEF e
<1>6. ~Routing(j, d)
  <2> SUFFICES ASSUME NEW q \in Procs, ex[q][j].pc = "op", ex[q][j].i = d PROVE FALSE
    BY DEF Routing, At, Radio
  <2>1. lock[d] = <<q, j>>
    BY Here DEF Holding, Inside
  <2>2. q = p
    BY <1>3, <2>1
  <2> QED BY <1>2, <2>2
<1>7. d = ex[p][j].i
  OBVIOUS
<1> HIDE DEF d
<1>8. CASE ok
  <2>1. /\ row' = WithState(Committed(p, j), j, d, "ROLLED_BACK")
        /\ changed' = [changed EXCEPT ![j] = @ \ {d}]
    BY <1>1, <1>6, <1>8
  <2>2. "ROLLED_BACK" \in SetupState
    BY DEF SetupState, Successors
  <2>3. /\ row' \in RowType
        /\ row'[j][d].state = "ROLLED_BACK"
        /\ \A l \in Jobs, c \in Radios : row'[l][c].backup = row[l][c].backup
        /\ \A l \in Jobs, c \in Radios : l # j \/ c # d =>
             row'[l][c].state \in {row[l][c].state, "FAILED"}
    BY <1>3, <2>1, <2>2, CommitWith
  <2> QED BY <1>2, <1>4, <1>5, <2>1, <2>3, RollbackProven, Zenon DEF d
<1>9. CASE ~ok
  <2>1. row' = WithState(Committed(p, j), j, d, "FAILED") /\ changed' = changed
    BY <1>1, <1>9
  <2>2. "FAILED" \in Plain /\ StatusMoves(j)
    BY <1>2 DEF Plain, SetupState, Successors, StatusMoves
  <2>3. CalmRows /\ row' \in RowType
    BY <1>2, <1>3, <2>1, <2>2, CalmCommit
  <2>4. LockMoves(p, j, e)
    BY <1>2, <1>4, <1>7 DEF LockMoves, Holding, Back
  <2> QED BY <1>2, <1>3, <1>4, <1>5, <2>2, <2>3, <2>4, RollbackCalm DEF Back
<1> QED BY <1>8, <1>9

-----------------------------------------------------------------------------
(***************************************************************************)
(* The steps inside a radio                                                *)
(***************************************************************************)

\* A step inside a radio of its job that touches no other: nobody else is there,
\* so only what the row and the place themselves say has to be shown.
LEMMA InsideStep ==
  ASSUME SetupInv, LeaseTypeOK', NEW p \in Procs, NEW j \in Jobs, NEW e \in Executor,
         NEW d \in Radios, ex[p][j].pc = "check", ex[p][j].i = d, SetEx(p, j, e),
         e.pc \in {"check", "op"}, e.i = d,
         job' = job, lock' = lock, proc' = proc, faults' = faults, row' \in RowType,
         begun' \in [Jobs -> [Radios -> SUBSET Operations]],
         changed' \in [Jobs -> SUBSET Radios],
         \A l \in Jobs, c \in Radios : l # j \/ c # d =>
           /\ row'[l][c] = row[l][c] /\ begun'[l][c] = begun[l][c]
           /\ c \in changed'[l] <=> c \in changed[l],
         row[j][d].backup => row'[j][d].backup, begun[j][d] \subseteq begun'[j][d],
         RowTruthful(j, d)', PlaceAt(j, ex[p][j])'
  PROVE  SetupInv'
<1>1. ex \in [Procs -> [Jobs -> Executor]] /\ job[j].status # "none" /\ job[j].owner = p
  BY Here DEF SetupInv, SetupTypeOK, RunPcs
<1>2. /\ ex' \in [Procs -> [Jobs -> Executor]] /\ ex'[p][j] = e
      /\ \A q \in Procs, l \in Jobs : q # p \/ l # j => ex'[q][l] = ex[q][l]
  BY <1>1, ExecutorSet
<1>3. \A l \in Jobs : /\ Program(l)' = Program(l)
                      /\ \A n : OpsTo(l, n)' = OpsTo(l, n)
                      /\ AllOps(l)' = AllOps(l)
                      /\ SavedAt(job[l].plan)' = SavedAt(job[l].plan)
  BY DEF Program, OpsTo, AllOps, SavedAt
<1>4. \A l \in Jobs, c \in Radios : l # j \/ c # d => (Fresh(l, c)' <=> Fresh(l, c))
  BY DEF Fresh
<1>5. \A q \in Procs : ex[q][j].pc \in RunPcs => q = p
  BY <1>1, Here
<1>6. SetupTypeOK'
  <2>1. \A q \in Procs, l \in Jobs : ex'[q][l].pc \in Holding =>
          /\ ex[q][l].pc \in Holding /\ ex'[q][l].i = ex[q][l].i
    BY <1>2 DEF Holding, Inside
  <2>2. ASSUME NEW q \in Procs, NEW l \in Jobs, ex'[q][l].pc \in Holding
        PROVE  ex'[q][l].i \in Radios /\ lock'[ex'[q][l].i] = <<q, l>>
    <3>1. ex[q][l].i \in Radios /\ lock[ex[q][l].i] = <<q, l>>
      BY <2>1, <2>2, Here
    <3> QED BY <2>1, <2>2, <3>1
  <2> QED BY <1>2, <2>2 DEF SetupInv, SetupTypeOK, RowType, Holding, Inside, Back
<1>7. OwnerRuns'
  <2> SUFFICES ASSUME NEW q \in Procs, NEW l \in Jobs
               PROVE  /\ ex'[q][l].pc # "idle" => job[l].status # "none"
                      /\ ex'[q][l].pc \in RunPcs => job[l].owner = q
    BY DEF OwnerRuns
  <2>1. CASE q = p /\ l = j
    BY <1>1, <1>2, <2>1
  <2>2. CASE q # p \/ l # j
    <3>1. ex'[q][l] = ex[q][l]
      BY <1>2, <2>2
    <3> QED BY <3>1, Here
  <2> QED BY <2>1, <2>2
<1>8. RowsTruthful'
  <2> SUFFICES ASSUME NEW l \in Jobs, NEW c \in Radios, l # j \/ c # d
               PROVE  RowTruthful(l, c)'
    BY DEF RowsTruthful
  <2>1. RowTruthful(l, c)
    BY DEF SetupInv, RowsTruthful
  <2>2. /\ row'[l][c] = row[l][c] /\ begun'[l][c] = begun[l][c]
        /\ c \in changed'[l] <=> c \in changed[l]
        /\ Fresh(l, c)' <=> Fresh(l, c)
    BY <1>4
  <2> QED BY <1>3, <2>1, <2>2 DEF RowTruthful
<1>9. AheadFresh'
  <2> SUFFICES ASSUME NEW q \in Procs, NEW l \in Jobs
               PROVE  /\ ex'[q][l].pc = "row" => ex'[q][l].k = 0
                      /\ ex'[q][l].pc \in RunPcs =>
                           \A c \in Radios :
                             c > ex'[q][l].i \/ (c = ex'[q][l].i /\ ex'[q][l].pc = "row")
                               => Fresh(l, c)'
    BY DEF AheadFresh
  <2>1. CASE q = p /\ l = j
    <3>1. \A c \in Radios : c > d => Fresh(j, c) /\ c # d
      BY SetupAssumption DEF SetupInv, AheadFresh, RunPcs, Radios
    <3> QED BY <1>2, <1>4, <2>1, <3>1
  <2>2. CASE q # p /\ l = j
    BY <1>2, <1>5, <2>2 DEF RunPcs
  <2>3. CASE l # j
    <3>1. ex'[q][l] = ex[q][l]
      BY <1>2, <2>3
    <3> QED BY <1>4, <2>3, <3>1 DEF SetupInv, AheadFresh
  <2> QED BY <2>1, <2>2, <2>3
<1>10. PlaceTruthful'
  <2> SUFFICES ASSUME NEW q \in Procs, NEW l \in Jobs, ex'[q][l].pc \in Inside, l # j
               PROVE  PlaceAt(l, ex[q][l])'
    BY <1>2, <1>5 DEF PlaceTruthful, Inside, RunPcs
  <2>1. ex'[q][l] = ex[q][l]
    BY <1>2
  <2> DEFINE f == ex[q][l]
  <2>2. PlaceAt(l, f) /\ f.i \in Radios
    BY <2>1, Here DEF SetupInv, PlaceTruthful, Holding
  <2>3. /\ row'[l][f.i].state \in {row[l][f.i].state, "FAILED"}
        /\ row'[l][f.i].backup = row[l][f.i].backup
        /\ begun'[l][f.i] = begun[l][f.i]
        /\ f.i \in changed'[l] <=> f.i \in changed[l]
    BY <2>2
  <2> QED BY <1>3, <2>1, <2>2, <2>3, PlaceKept, Zenon
<1>11. BackTruthful'
  <2> SUFFICES ASSUME NEW q \in Procs, NEW l \in Jobs, ex'[q][l].pc \in Back
               PROVE  row'[l][ex'[q][l].i].backup
    BY DEF BackTruthful
  <2>1. ex[q][l].pc \in Back /\ ex'[q][l] = ex[q][l]
    BY <1>2 DEF Back
  <2>2. ex[q][l].i \in Radios /\ row[l][ex[q][l].i].backup
    BY <2>1, Here DEF SetupInv, BackTruthful, Holding
  <2>3. row'[l][ex[q][l].i].backup
    <3>1. CASE l = j /\ ex[q][l].i = d
      BY <2>2, <3>1
    <3>2. CASE l # j \/ ex[q][l].i # d
      BY <2>2, <3>2
    <3> QED BY <3>1, <3>2
  <2> QED BY <2>1, <2>3
<1>12. CompletedTruthful'
  <2> SUFFICES ASSUME NEW l \in Jobs, job[l].status = "completed", NEW c \in Radios
               PROVE  AllOps(l) \subseteq begun'[l][c]
    BY <1>3 DEF CompletedTruthful
  <2>1. AllOps(l) \subseteq begun[l][c]
    BY DEF SetupInv, CompletedTruthful
  <2>2. begun[l][c] \subseteq begun'[l][c]
    BY SMT
  <2> QED BY <2>1, <2>2
<1> QED BY <1>6, <1>7, <1>8, <1>9, <1>10, <1>11, <1>12 DEF SetupInv

\* The operations of one more step.
LEMMA OneMore ==
  ASSUME NEW j \in Jobs, NEW k \in Nat
  PROVE  /\ OpsTo(j, k + 1) = OpsTo(j, k) \cup ({Program(j)[k + 1].op} \ {"none", "save"})
         /\ \A m : m \in 1 .. k => Program(j)[m].op \in OpsTo(j, k) \cup {"none", "save"}
<1>1. 1 .. (k + 1) = (1 .. k) \cup {k + 1}
  OBVIOUS
<1> QED BY <1>1 DEF OpsTo

\* MarkState: the path of the backup becomes durable with its step, and VERIFIED
\* is written only when every operation of the sequence was begun.
LEMMA MarkStateStep ==
  ASSUME SetupInv, LeaseTypeOK', NEW p \in Procs, NEW j \in Jobs, MarkState(p, j)
  PROVE  SetupInv'
<1>19. PICK d \in Radios : ex[p][j].i = d
  BY Here DEF MarkState, At, Holding, Inside
<1> DEFINE k == ex[p][j].k
           prog == Program(j)
           n == SavedAt(job[j].plan)
           r == [state |-> prog[k + 1].to,
                 backup |-> row[j][d].backup \/ prog[k + 1].op = "save"]
           e == [ex[p][j] EXCEPT !.k = @ + 1]
<1>1. /\ ex[p][j].pc = "check" /\ k < Len(prog) /\ prog[k + 1].op \in {"none", "save"}
      /\ row' = [row EXCEPT ![j][d] = r] /\ SetEx(p, j, e)
      /\ job' = job /\ lock' = lock /\ begun' = begun /\ changed' = changed
      /\ proc' = proc /\ faults' = faults
  BY <1>19 DEF MarkState, At, Radio, MorePlanned, NextStep
<1>2. ex[p][j] \in Executor /\ ex \in [Procs -> [Jobs -> Executor]]
  BY DEF SetupInv, SetupTypeOK
<1>3. k \in 0 .. 40
  BY <1>2 DEF Executor
<1>4. PlaceAt(j, ex[p][j]) /\ StepsBegun(ex[p][j]) = k
  BY <1>1 DEF SetupInv, PlaceTruthful, Inside, StepsBegun
<1>5. /\ OpsTo(j, k) \subseteq begun[j][d] /\ begun[j][d] \subseteq OpsTo(j, k) \cup {"identify"}
      /\ k >= n => row[j][d].backup
  BY <1>4, <1>19 DEF PlaceAt
<1>6. SequenceFacts(prog, n)
  BY ProgramFacts
<1>7. row \in RowType /\ RowTruthful(j, d) /\ begun \in [Jobs -> [Radios -> SUBSET Operations]]
      /\ changed \in [Jobs -> SUBSET Radios]
  BY DEF SetupInv, SetupTypeOK, RowType, RowsTruthful
<1>8. OpsTo(j, k + 1) = OpsTo(j, k)
  <2>1. k \in Nat /\ {prog[k + 1].op} \ {"none", "save"} = {}
    <3>1. k \in Nat
      BY <1>3
    <3>2. prog[k + 1].op \in {"none", "save"}
      BY <1>1
    <3> HIDE DEF k, prog
    <3> QED BY <3>1, <3>2
  <2> HIDE DEF k
  <2>2. OpsTo(j, k + 1) = OpsTo(j, k) \cup ({prog[k + 1].op} \ {"none", "save"})
    BY <2>1, OneMore
  <2> QED BY <2>1, <2>2
<1> HIDE DEF k, prog, n, r, e
<1>9. Len(prog) \in Nat /\ k + 1 \in 1 .. Len(prog) /\ Len(prog) <= 40
  <2>1. Len(prog) \in Nat /\ Len(prog) <= 40
    BY <1>6 DEF SequenceFacts
  <2>2. k < Len(prog)
    BY <1>1
  <2>3. k + 1 \in 1 .. Len(prog)
    BY <1>3, <2>1, <2>2
  <2> QED BY <2>1, <2>3
<1>10. k + 1 \in 0 .. 40
  <2>1. k + 1 <= 40
    BY <1>1, <1>3, <1>9
  <2> QED BY <1>3, <2>1
<1>11. e \in Executor /\ e.pc = "check" /\ e.i = d /\ e.k = k + 1
  BY <1>1, <1>2, <1>10, <1>19 DEF Executor, e, k
<1>12. /\ prog[k + 1] \in Steps
       /\ prog[k + 1].to = "VERIFIED" => k + 1 = Len(prog)
       /\ k + 1 = n => prog[k + 1].op = "save"
       /\ n \in Nat
  BY <1>6, <1>9 DEF SequenceFacts
<1>13. /\ r \in [state : SetupState, backup : BOOLEAN]
       /\ r.state = prog[k + 1].to
       /\ r.backup <=> row[j][d].backup \/ prog[k + 1].op = "save"
  BY <1>2, <1>7, <1>12 DEF r, Steps, RowType
<1>14. /\ row' \in RowType /\ row'[j][d] = r
       /\ \A l \in Jobs, c \in Radios : l # j \/ c # d => row'[l][c] = row[l][c]
  BY <1>1, <1>2, <1>7, <1>13 DEF RowType
<1>15. r.state \notin {"UNKNOWN", "ROLLED_BACK"}
  BY <1>12, <1>13 DEF Steps
<1>16. AllOps(j)' = AllOps(j) /\ (r.state = "VERIFIED" => AllOps(j) = OpsTo(j, k))
  <2>1. AllOps(j)' = AllOps(j)
    BY <1>1 DEF AllOps, OpsTo, Program
  <2>2. AllOps(j) = OpsTo(j, Len(prog))
    BY DEF AllOps, prog
  <2> QED BY <1>8, <1>12, <1>13, <2>1, <2>2
<1>17. RowTruthful(j, d)'
  BY <1>1, <1>5, <1>7, <1>13, <1>14, <1>15, <1>16 DEF RowTruthful
<1>18. PlaceAt(j, ex[p][j])'
  <2>1. ex'[p][j] = e
    BY <1>1, <1>2, <1>11, ExecutorSet
  <2>2. PlaceAt(j, ex[p][j])' <=>
          /\ k + 1 <= Len(prog)
          /\ OpsTo(j, k + 1) \subseteq begun[j][d]
          /\ begun[j][d] \subseteq OpsTo(j, k + 1) \cup {"identify"}
          /\ k + 1 >= n => row'[j][d].backup
          /\ k + 1 >= 1 => row'[j][d].state # "UNKNOWN"
          /\ row'[j][d].state # "ROLLED_BACK"
    BY <1>1, <1>11, <2>1 DEF PlaceAt, StepsBegun, OpsTo, Program, SavedAt, prog, n
  <2>3. k + 1 >= n => k >= n \/ k + 1 = n
    BY <1>3, <1>12
  <2>4. k + 1 >= n => row'[j][d].backup
    BY <1>5, <1>12, <1>13, <1>14, <2>3
  <2> QED BY <1>5, <1>8, <1>9, <1>14, <1>15, <2>2, <2>4
<1> QED
  <2>1. row[j][d].backup => row'[j][d].backup
    BY <1>13, <1>14
  <2> QED BY <1>1, <1>2, <1>7, <1>11, <1>14, <1>17, <1>18, <1>19, <2>1, InsideStep

\* BeginOperation: a write begins only behind the step that saves the backup, and
\* the operation is none of those begun before.
LEMMA BeginOperationStep ==
  ASSUME SetupInv, LeaseTypeOK', NEW p \in Procs, NEW j \in Jobs, BeginOperation(p, j)
  PROVE  SetupInv'
<1>1. PICK d \in Radios : ex[p][j].i = d
  BY Here DEF BeginOperation, At, Holding, Inside
<1> DEFINE k == ex[p][j].k
           prog == Program(j)
           n == SavedAt(job[j].plan)
           op == prog[k + 1].op
           e == [ex[p][j] EXCEPT !.pc = "op"]
<1>2. /\ ex[p][j].pc = "check" /\ k < Len(prog) /\ op \notin {"none", "save"}
      /\ begun' = [begun EXCEPT ![j][d] = @ \cup {op}]
      /\ changed' = IF op = "route" THEN [changed EXCEPT ![j] = @ \cup {d}] ELSE changed
      /\ SetEx(p, j, e) /\ job' = job /\ lock' = lock /\ row' = row
      /\ proc' = proc /\ faults' = faults
  BY <1>1 DEF BeginOperation, At, Radio, MorePlanned, NextStep
<1>3. ex[p][j] \in Executor /\ ex \in [Procs -> [Jobs -> Executor]]
  BY DEF SetupInv, SetupTypeOK
<1>4. k \in 0 .. 40
  BY <1>3 DEF Executor
<1>5. PlaceAt(j, ex[p][j]) /\ StepsBegun(ex[p][j]) = k
  BY <1>2 DEF SetupInv, PlaceTruthful, Inside, StepsBegun
<1>6. /\ OpsTo(j, k) \subseteq begun[j][d] /\ begun[j][d] \subseteq OpsTo(j, k) \cup {"identify"}
      /\ k >= n => row[j][d].backup
      /\ k >= 1 => row[j][d].state # "UNKNOWN"
      /\ row[j][d].state # "ROLLED_BACK"
  BY <1>1, <1>5 DEF PlaceAt
<1>7. SequenceFacts(prog, n)
  BY ProgramFacts
<1>8. row \in RowType /\ RowTruthful(j, d) /\ begun \in [Jobs -> [Radios -> SUBSET Operations]]
      /\ changed \in [Jobs -> SUBSET Radios]
  BY DEF SetupInv, SetupTypeOK, RowType, RowsTruthful
<1>9. OpsTo(j, k + 1) = OpsTo(j, k) \cup {op}
  <2>1. k \in Nat
    BY <1>4
  <2>2. OpsTo(j, k + 1) = OpsTo(j, k) \cup ({op} \ {"none", "save"})
    BY <2>1, OneMore
  <2>3. op \notin {"none", "save"}
    BY <1>2
  <2> HIDE DEF op
  <2> QED BY <2>2, <2>3
<1> HIDE DEF k, prog, n, e
<1>10. Len(prog) \in Nat /\ k + 1 \in 1 .. Len(prog)
  <2>1. Len(prog) \in Nat
    BY <1>7 DEF SequenceFacts
  <2>2. k < Len(prog)
    BY <1>2
  <2> QED BY <1>4, <2>1, <2>2
<1>11. e \in Executor /\ e.pc = "op" /\ e.i = d /\ e.k = k
  BY <1>1, <1>3 DEF Executor, e, k
<1>12. /\ prog[k + 1] \in Steps
       /\ op \in Operations
       /\ k = 0 => op = "identify"
       /\ n \in 1 .. Len(prog)
       /\ op \in Writes => k >= n
  <2>1. prog \in Seq(Steps) /\ n \in 1 .. Len(prog) /\ prog[1].op = "identify"
        /\ \A i \in 1 .. n : prog[i].op \notin Writes
    BY <1>7 DEF SequenceFacts, Step
  <2>2. prog[k + 1] \in Steps
    BY <1>10, <2>1
  <2>3. op \in Operations
    <3>1. op \in Operations \cup {"none", "save"}
      BY <2>2 DEF Steps
    <3> QED BY <1>2, <3>1
  <2>4. op \in Writes => k >= n
    <3>1. k + 1 \in 1 .. n \/ k >= n
      BY <1>4, <2>1, <1>10
    <3> QED BY <2>1, <3>1
  <2> QED BY <2>1, <2>2, <2>3, <2>4
<1> HIDE DEF op
<1>13. /\ begun' \in [Jobs -> [Radios -> SUBSET Operations]]
       /\ begun'[j][d] = begun[j][d] \cup {op}
       /\ \A l \in Jobs, c \in Radios : l # j \/ c # d => begun'[l][c] = begun[l][c]
  <2>1. begun[j][d] \cup {op} \in SUBSET Operations
    BY <1>8, <1>12
  <2>2. begun' = [begun EXCEPT ![j] = [begun[j] EXCEPT ![d] = begun[j][d] \cup {op}]]
    BY <1>2
  <2> QED BY <1>8, <2>1, <2>2
<1>14. /\ changed' \in [Jobs -> SUBSET Radios]
       /\ \A l \in Jobs, c \in Radios : l # j \/ c # d => (c \in changed'[l] <=> c \in changed[l])
       /\ d \in changed'[j] <=> d \in changed[j] \/ op = "route"
  <2>1. CASE op = "route"
    <3>1. changed' = [changed EXCEPT ![j] = changed[j] \cup {d}]
      BY <1>2, <2>1
    <3> QED BY <1>8, <2>1, <3>1
  <2>2. CASE op # "route"
    BY <1>2, <1>8, <2>2
  <2> QED BY <2>1, <2>2
<1>15. RowTruthful(j, d)'
  <2>1. row[j][d].state = "UNKNOWN" => op = "identify" /\ Fresh(j, d)
    <3>1. k >= 1 \/ k = 0
      BY <1>4
    <3> QED BY <1>6, <1>8, <1>12, <3>1 DEF RowTruthful
  <2>2. row[j][d].state = "UNKNOWN" => Fresh(j, d)'
    BY <1>2, <1>13, <1>14, <2>1 DEF Fresh
  <2>3. AllOps(j)' = AllOps(j)
    BY <1>2 DEF AllOps, OpsTo, Program
  <2>4. begun'[j][d] \cap Writes # {} => row[j][d].backup
    <3>1. op \in Writes => row[j][d].backup
      BY <1>6, <1>12
    <3>2. begun[j][d] \cap Writes # {} => row[j][d].backup
      BY <1>8 DEF RowTruthful
    <3> QED BY <1>13, <3>1, <3>2
  <2> QED BY <1>2, <1>6, <1>8, <1>13, <2>2, <2>3, <2>4 DEF RowTruthful
<1>16. PlaceAt(j, ex[p][j])'
  <2>1. ex'[p][j] = e
    BY <1>2, <1>3, <1>11, ExecutorSet
  <2>2. PlaceAt(j, ex[p][j])' <=>
          /\ k + 1 <= Len(prog)
          /\ op \notin {"none", "save"}
          /\ op = "route" => d \in changed'[j]
          /\ OpsTo(j, k + 1) \subseteq begun'[j][d]
          /\ begun'[j][d] \subseteq OpsTo(j, k + 1) \cup {"identify"}
          /\ k >= n => row[j][d].backup
          /\ k >= 1 => row[j][d].state # "UNKNOWN"
          /\ row[j][d].state # "ROLLED_BACK"
    <3>1. /\ ex'[p][j].pc = "op" /\ ex'[p][j].i = d /\ ex'[p][j].k = k
          /\ StepsBegun(ex[p][j])' = k + 1
      BY <1>11, <2>1 DEF StepsBegun
    <3>2. Program(j)' = prog /\ SavedAt(job[j].plan)' = n /\ prog[k + 1].op = op
      BY <1>2 DEF Program, SavedAt, prog, n, op
    <3>3. OpsTo(j, StepsBegun(ex[p][j]))' = OpsTo(j, k + 1)
      BY <1>2, <3>1 DEF OpsTo, Program
    <3> QED BY <1>2, <3>1, <3>2, <3>3 DEF PlaceAt
  <2>3. k + 1 <= Len(prog)
    BY <1>10
  <2>4. /\ OpsTo(j, k + 1) \subseteq begun'[j][d]
        /\ begun'[j][d] \subseteq OpsTo(j, k + 1) \cup {"identify"}
    BY <1>6, <1>9, <1>13
  <2> QED BY <1>2, <1>6, <1>14, <2>2, <2>3, <2>4
<1> QED
  <2>1. begun[j][d] \subseteq begun'[j][d]
    BY <1>13
  <2>2. \A l \in Jobs, c \in Radios : l # j \/ c # d =>
          /\ row'[l][c] = row[l][c] /\ begun'[l][c] = begun[l][c]
          /\ c \in changed'[l] <=> c \in changed[l]
    BY <1>2, <1>13, <1>14
  <2> QED BY <1>1, <1>2, <1>8, <1>11, <1>13, <1>14, <1>15, <1>16, <2>1, <2>2, InsideStep

-----------------------------------------------------------------------------
(***************************************************************************)
(* Processes and reviews                                                   *)
(***************************************************************************)

JobType == [Jobs -> [status : Finals \cup {"none", "running"}, owner : Procs \cup {NoHolder},
                     cancel : BOOLEAN, plan : Plans]]

\* The steps in which no executor gets anywhere: some end, the others rest.
LEMMA RestStep ==
  ASSUME SetupInv, LeaseTypeOK', CalmRows, row' \in RowType,
         proc' \in [Procs -> {"unborn", "waiting", "holding", "up", "dead"}],
         faults' \in 0 .. MaxFaults, job' \in JobType,
         \A l \in Jobs : /\ job[l].status # "none" =>
                              job'[l].status # "none" /\ job'[l].owner = job[l].owner
                         /\ job'[l].status = "completed" => job[l].status = "completed",
         ex' \in [Procs -> [Jobs -> Executor]],
         \A q \in Procs, l \in Jobs : ex'[q][l] = ex[q][l] \/ ex'[q][l].pc = "idle",
         lock' \in [Radios -> (Procs \X Jobs) \cup {NoExecutor}],
         \A q \in Procs, l \in Jobs : ex'[q][l].pc \in Holding =>
           lock'[ex[q][l].i] = lock[ex[q][l].i]
  PROVE  SetupInv'
<1>1. \A q \in Procs, l \in Jobs : Moves(q, l)
  BY DEF Moves, Stays, Leaves, RunPcs, Back
<1>2. RowsTruthful' /\ AheadFresh' /\ PlaceTruthful' /\ BackTruthful'
  BY <1>1, CalmStep
<1>3. ASSUME NEW q \in Procs, NEW l \in Jobs, ex'[q][l].pc \in Holding
      PROVE  ex'[q][l].i \in Radios /\ lock'[ex'[q][l].i] = <<q, l>>
  <2>1. ex'[q][l] = ex[q][l]
    BY <1>3 DEF Holding, Inside, Back
  <2>2. ex[q][l].i \in Radios /\ lock[ex[q][l].i] = <<q, l>>
    BY <1>3, <2>1, Here
  <2> QED BY <1>3, <2>1, <2>2
<1>4. SetupTypeOK'
  <2>1. begun' = begun /\ changed' = changed
    BY DEF CalmRows
  <2> QED BY <1>3, <2>1 DEF SetupInv, SetupTypeOK, RowType, JobType, Holding, Inside, Back
<1>5. OwnerRuns'
  <2> SUFFICES ASSUME NEW q \in Procs, NEW l \in Jobs, ex'[q][l].pc # "idle"
               PROVE  job'[l].status # "none" /\ (ex'[q][l].pc \in RunPcs => job'[l].owner = q)
    BY DEF OwnerRuns, RunPcs
  <2>1. ex'[q][l] = ex[q][l]
    OBVIOUS
  <2>2. job[l].status # "none" /\ (ex[q][l].pc \in RunPcs => job[l].owner = q)
    BY <2>1, Here
  <2> QED BY <2>1, <2>2
<1>6. CompletedTruthful'
  <2> SUFFICES ASSUME NEW l \in Jobs, job'[l].status = "completed", NEW d \in Radios
               PROVE  AllOps(l)' \subseteq begun'[l][d]
    BY DEF CompletedTruthful
  <2>1. AllOps(l)' = AllOps(l) /\ begun' = begun
    BY DEF CalmRows, AllOps, OpsTo, Program
  <2> QED BY <2>1 DEF SetupInv, CompletedTruthful
<1> QED BY <1>2, <1>4, <1>5, <1>6 DEF SetupInv

\* The same when rows, executors and radios are left alone.
LEMMA QuietStep ==
  ASSUME SetupInv, LeaseTypeOK', UNCHANGED <<row, ex, lock, begun, changed>>,
         proc' \in [Procs -> {"unborn", "waiting", "holding", "up", "dead"}],
         faults' \in 0 .. MaxFaults, job' \in JobType,
         \A l \in Jobs : /\ job[l].status # "none" =>
                              job'[l].status # "none" /\ job'[l].owner = job[l].owner
                         /\ job'[l].status = "completed" => job[l].status = "completed"
                         /\ job'[l].plan = job[l].plan
  PROVE  SetupInv'
<1>1. CalmRows
  BY DEF CalmRows
<1>2. /\ row' \in RowType /\ ex' \in [Procs -> [Jobs -> Executor]]
      /\ lock' \in [Radios -> (Procs \X Jobs) \cup {NoExecutor}]
  BY DEF SetupInv, SetupTypeOK, RowType
<1> QED BY <1>1, <1>2, RestStep

\* One more fault keeps within the bound.
LEMMA FaultStep ==
  ASSUME SetupInv, Fault
  PROVE  faults' \in 0 .. MaxFaults
BY SetupAssumption DEF SetupInv, SetupTypeOK, Fault

\* The steps of the user, the clock and the processes that touch no executor.
LEMMA QuietSteps ==
  ASSUME SetupInv, LeaseTypeOK',
         \/ \E p \in Procs, j \in Jobs : Start(p, j) \/ ExecuteDenied(p, j)
         \/ \E j \in Jobs : RequestCancel(j)
         \/ \E p \in Procs : Boot(p) \/ ReviewAcquires(p) \/ ReviewGivesUp(p)
         \/ LeaseExpires
         \/ UNCHANGED svars
  PROVE  SetupInv'
<1> DEFINE J == \A l \in Jobs : /\ job[l].status # "none" =>
                                     job'[l].status # "none" /\ job'[l].owner = job[l].owner
                                /\ job'[l].status = "completed" => job[l].status = "completed"
                                /\ job'[l].plan = job[l].plan
           L == proc' \in [Procs -> {"unborn", "waiting", "holding", "up", "dead"}]
<1>1. job \in JobType /\ faults \in 0 .. MaxFaults
      /\ proc \in [Procs -> {"unborn", "waiting", "holding", "up", "dead"}]
  BY DEF SetupInv, SetupTypeOK, JobType
<1>2. UNCHANGED <<row, ex, lock, begun, changed>>
  BY DEF Start, ExecuteDenied, RequestCancel, Boot, ReviewAcquires, ReviewGivesUp,
         LeaseExpires, svars
<1>3. faults' \in 0 .. MaxFaults
  <2>1. faults' = faults \/ Fault
    BY DEF Start, ExecuteDenied, RequestCancel, Boot, ReviewAcquires, ReviewGivesUp,
           LeaseExpires, svars
  <2> QED BY <1>1, <2>1, FaultStep
<1>4. L
  BY <1>1 DEF Start, ExecuteDenied, RequestCancel, Boot, ReviewAcquires, ReviewGivesUp,
              LeaseExpires, svars
<1>5. job' \in JobType /\ J
  <2>1. ASSUME NEW p \in Procs, NEW j \in Jobs, Start(p, j)
        PROVE  job' \in JobType /\ J
    <3>1. /\ job[j].status = "none"
          /\ job' = [job EXCEPT ![j] = [job[j] EXCEPT !.status = "running", !.owner = p]]
      BY <2>1 DEF Start
    <3>2. /\ job'[j].status = "running" /\ job'[j].plan = job[j].plan
          /\ \A l \in Jobs : l # j => job'[l] = job[l]
      BY <1>1, <3>1 DEF JobType
    <3>3. job' \in JobType
      BY <1>1, <3>1 DEF JobType
    <3> QED BY <3>1, <3>2, <3>3
  <2>2. ASSUME NEW p \in Procs, NEW j \in Jobs, ExecuteDenied(p, j)
        PROVE  job' \in JobType /\ J
    <3>1. PICK s \in {"failed", "cancelled"} : SetStatus(j, s)
      BY <2>2 DEF ExecuteDenied
    <3>2. job' = [job EXCEPT ![j] = [job[j] EXCEPT !.status = s]]
      BY <3>1 DEF SetStatus
    <3>3. /\ job'[j].status = s /\ job'[j].plan = job[j].plan /\ job'[j].owner = job[j].owner
          /\ \A l \in Jobs : l # j => job'[l] = job[l]
      BY <1>1, <3>2 DEF JobType
    <3>4. job' \in JobType
      BY <1>1, <3>2 DEF JobType, Finals
    <3> QED BY <3>3, <3>4
  <2>3. ASSUME NEW j \in Jobs, RequestCancel(j)
        PROVE  job' \in JobType /\ J
    <3>1. job' = [job EXCEPT ![j] = [job[j] EXCEPT !.cancel = TRUE]]
      BY <2>3 DEF RequestCancel
    <3>2. /\ job'[j].status = job[j].status /\ job'[j].plan = job[j].plan
          /\ job'[j].owner = job[j].owner
          /\ \A l \in Jobs : l # j => job'[l] = job[l]
      BY <1>1, <3>1 DEF JobType
    <3>3. job' \in JobType
      BY <1>1, <3>1 DEF JobType
    <3> QED BY <3>2, <3>3
  <2>4. CASE UNCHANGED job
    BY <1>1, <2>4
  <2> QED BY <2>1, <2>2, <2>3, <2>4 DEF Boot, ReviewAcquires, ReviewGivesUp, LeaseExpires, svars
<1> QED BY <1>2, <1>3, <1>4, <1>5, QuietStep

\* A failed commit ends one executor, a death all those of a process; their radios
\* are free again and all others keep theirs.
LEMMA EndSteps ==
  ASSUME SetupInv, LeaseTypeOK', NEW p \in Procs,
         (\E j \in Jobs : CommitFails(p, j)) \/ Die(p)
  PROVE  SetupInv'
<1>1. /\ job \in JobType /\ ex \in [Procs -> [Jobs -> Executor]] /\ row \in RowType
      /\ lock \in [Radios -> (Procs \X Jobs) \cup {NoExecutor}]
      /\ proc \in [Procs -> {"unborn", "waiting", "holding", "up", "dead"}]
  BY DEF SetupInv, SetupTypeOK, JobType, RowType
<1>2. row' = row /\ begun' = begun /\ changed' = changed /\ Fault
  BY DEF CommitFails, Die
<1>3. faults' \in 0 .. MaxFaults
  BY <1>2, FaultStep
<1>4. Idle \in Executor /\ Idle.pc = "idle" /\ Idle.pc \notin Holding
  BY IdleExecutor DEF Holding, Inside, Back
<1>5. ASSUME NEW j \in Jobs, CommitFails(p, j)
      PROVE  SetupInv'
  <2>1. StatusMoves(j) /\ \A l \in Jobs : job'[l].status = "completed" => job[l].status = "completed"
    <3>1. CASE job' = job
      BY <3>1 DEF StatusMoves
    <3>2. CASE SetStatus(j, "failed")
      <4>1. StatusMoves(j)
        BY <3>2 DEF StatusMoves, Finals
      <4>2. job' = [job EXCEPT ![j] = [job[j] EXCEPT !.status = "failed"]]
        BY <3>2 DEF SetStatus
      <4> QED BY <1>1, <4>1, <4>2 DEF JobType
    <3> QED BY <1>5, <3>1, <3>2 DEF CommitFails
  <2>2. /\ job' \in JobType
        /\ \A l \in Jobs : /\ job'[l].owner = job[l].owner
                           /\ job'[l].plan = job[l].plan
                           /\ job'[l].status = "none" => job[l].status = "none"
    BY <1>1, <2>1, StatusStep DEF JobType
  <2>3. CalmRows
    BY <1>2, <2>2 DEF CalmRows
  <2>4. /\ ex' \in [Procs -> [Jobs -> Executor]] /\ ex'[p][j] = Idle
        /\ \A q \in Procs, l \in Jobs : q # p \/ l # j => ex'[q][l] = ex[q][l]
    BY <1>1, <1>4, <1>5, ExecutorSet DEF CommitFails
  <2>5. lock' = [d \in Radios |-> IF lock[d] = <<p, j>> THEN NoExecutor ELSE lock[d]]
    BY <1>5 DEF CommitFails
  <2>6. lock' \in [Radios -> (Procs \X Jobs) \cup {NoExecutor}]
    BY <1>1, <2>5
  <2>7. ASSUME NEW q \in Procs, NEW l \in Jobs, ex'[q][l].pc \in Holding
        PROVE  lock'[ex[q][l].i] = lock[ex[q][l].i]
    <3>1. (q # p \/ l # j) /\ ex'[q][l] = ex[q][l]
      BY <1>4, <2>4, <2>7
    <3>2. ex[q][l].i \in Radios /\ lock[ex[q][l].i] = <<q, l>>
      BY <2>7, <3>1, Here
    <3> DEFINE c == ex[q][l].i
    <3>3. c \in Radios /\ lock[c] = <<q, l>> /\ <<q, l>> # <<p, j>>
      BY <3>1, <3>2
    <3> HIDE DEF c
    <3>4. lock'[c] = lock[c]
      BY <2>5, <3>3
    <3> QED BY <3>4 DEF c
  <2>8. \A q \in Procs, l \in Jobs : ex'[q][l] = ex[q][l] \/ ex'[q][l].pc = "idle"
    BY <1>4, <2>4
  <2>9. row' \in RowType /\ proc' \in [Procs -> {"unborn", "waiting", "holding", "up", "dead"}]
    BY <1>1, <1>2, <1>5 DEF CommitFails
  <2> QED BY <1>3, <2>1, <2>2, <2>3, <2>4, <2>6, <2>7, <2>8, <2>9, RestStep
<1>6. CASE Die(p)
  <2>1. job' = job /\ ex' = [ex EXCEPT ![p] = [j \in Jobs |-> Idle]]
    BY <1>6 DEF Die
  <2>2. CalmRows
    BY <1>2, <2>1 DEF CalmRows
  <2>3. /\ ex' \in [Procs -> [Jobs -> Executor]]
        /\ \A l \in Jobs : ex'[p][l] = Idle
        /\ \A q \in Procs, l \in Jobs : q # p => ex'[q][l] = ex[q][l]
    BY <1>1, <1>4, <2>1
  <2>4. lock' = [d \in Radios |-> IF lock[d] # NoExecutor /\ lock[d][1] = p
                                  THEN NoExecutor ELSE lock[d]]
    BY <1>6 DEF Die
  <2>5. lock' \in [Radios -> (Procs \X Jobs) \cup {NoExecutor}]
    BY <1>1, <2>4
  <2>6. ASSUME NEW q \in Procs, NEW l \in Jobs, ex'[q][l].pc \in Holding
        PROVE  lock'[ex[q][l].i] = lock[ex[q][l].i]
    <3>1. q # p /\ ex'[q][l] = ex[q][l]
      BY <1>4, <2>3, <2>6
    <3>2. ex[q][l].i \in Radios /\ lock[ex[q][l].i] = <<q, l>>
      BY <2>6, <3>1, Here
    <3>3. lock[ex[q][l].i][1] = q
      BY <3>2
    <3> QED BY <2>4, <3>1, <3>2, <3>3
  <2>7. \A q \in Procs, l \in Jobs : ex'[q][l] = ex[q][l] \/ ex'[q][l].pc = "idle"
    BY <1>4, <2>3
  <2>8. row' \in RowType /\ proc' \in [Procs -> {"unborn", "waiting", "holding", "up", "dead"}]
    BY <1>1, <1>2, <1>6 DEF Die
  <2> QED BY <1>1, <1>3, <2>1, <2>2, <2>3, <2>5, <2>6, <2>7, <2>8, RestStep
<1> QED BY <1>5, <1>6

\* The review writes FAILED into unfinished rows and ends running jobs as failed
\* or cancelled.
LEMMA ReviewStep ==
  ASSUME SetupInv, LeaseTypeOK', NEW p \in Procs, ReviewJobs(p)
  PROVE  SetupInv'
<1>1. /\ job \in JobType /\ ex \in [Procs -> [Jobs -> Executor]] /\ row \in RowType
      /\ lock \in [Radios -> (Procs \X Jobs) \cup {NoExecutor}] /\ faults \in 0 .. MaxFaults
      /\ proc \in [Procs -> {"unborn", "waiting", "holding", "up", "dead"}]
  BY DEF SetupInv, SetupTypeOK, JobType, RowType
<1>2. ex' = ex /\ lock' = lock /\ begun' = begun /\ changed' = changed /\ faults' = faults
  BY DEF ReviewJobs
<1>3. proc' \in [Procs -> {"unborn", "waiting", "holding", "up", "dead"}]
  BY <1>1 DEF ReviewJobs
<1>4. /\ row' \in RowType
      /\ \A l \in Jobs, d \in Radios :
           row'[l][d].backup = row[l][d].backup /\ row'[l][d].state \in {row[l][d].state, "FAILED"}
  <2> DEFINE Reviewed(l, d) ==
               IF job[l].status = "running"
                  /\ row[l][d].state \notin {"VERIFIED", "FAILED", "ROLLED_BACK"}
               THEN [row[l][d] EXCEPT !.state = "FAILED"] ELSE row[l][d]
  <2>1. row' = [l \in Jobs |-> [d \in Radios |-> Reviewed(l, d)]]
    BY DEF ReviewJobs
  <2>2. ASSUME NEW l \in Jobs, NEW d \in Radios
        PROVE  /\ Reviewed(l, d) \in [state : SetupState, backup : BOOLEAN]
               /\ Reviewed(l, d).backup = row[l][d].backup
               /\ Reviewed(l, d).state \in {row[l][d].state, "FAILED"}
    <3>1. row[l][d] \in [state : SetupState, backup : BOOLEAN] /\ "FAILED" \in SetupState
      BY <1>1 DEF RowType, SetupState, Successors
    <3> QED BY <3>1
  <2> HIDE DEF Reviewed
  <2>3. \A l \in Jobs, d \in Radios : row'[l][d] = Reviewed(l, d)
    BY <2>1
  <2>4. row' \in RowType
    BY <2>1, <2>2 DEF RowType
  <2> QED BY <2>2, <2>3, <2>4
<1>5. /\ job' \in JobType
      /\ \A l \in Jobs : /\ job[l].status # "none" =>
                              job'[l].status # "none" /\ job'[l].owner = job[l].owner
                         /\ job'[l].status = "completed" => job[l].status = "completed"
                         /\ job'[l].plan = job[l].plan
  <2> DEFINE Ended(l) ==
               IF job[l].status # "running" THEN job[l]
               ELSE [job[l] EXCEPT !.status = IF job[l].cancel THEN "cancelled" ELSE "failed"]
             JobSet == [status : Finals \cup {"none", "running"}, owner : Procs \cup {NoHolder},
                        cancel : BOOLEAN, plan : Plans]
  <2>1. job' = [l \in Jobs |-> Ended(l)]
    BY DEF ReviewJobs
  <2>2. ASSUME NEW l \in Jobs
        PROVE  /\ Ended(l) \in JobSet
               /\ Ended(l).owner = job[l].owner /\ Ended(l).plan = job[l].plan
               /\ Ended(l).status \in {job[l].status, "cancelled", "failed"}
    <3>1. job[l] \in JobSet /\ "cancelled" \in Finals /\ "failed" \in Finals
      BY <1>1 DEF JobType, Finals
    <3> QED BY <3>1
  <2> HIDE DEF Ended
  <2>3. \A l \in Jobs : job'[l] = Ended(l)
    BY <2>1
  <2>4. job' \in JobType
    BY <2>1, <2>2 DEF JobType
  <2> QED BY <2>2, <2>3, <2>4
<1>6. CalmRows
  BY <1>2, <1>4, <1>5 DEF CalmRows
<1> QED BY <1>1, <1>2, <1>3, <1>4, <1>5, <1>6, RestStep

-----------------------------------------------------------------------------
(***************************************************************************)
(* The theorems                                                            *)
(***************************************************************************)

\* At the beginning nothing is known and nothing was begun.
LEMMA SetupInitially ==
  ASSUME Init
  PROVE  SetupInv
<1>1. Idle \in Executor /\ \A p \in Procs, j \in Jobs : ex[p][j].pc = "idle"
  BY IdleExecutor DEF Init
<1>2. SetupTypeOK
  <2>1. LeaseTypeOK
    BY DEF Init, LeaseInit, LeaseTypeOK, FreeLease
  <2>2. job \in JobType
    <3> DEFINE New == {[status |-> "none", owner |-> NoHolder, cancel |-> FALSE, plan |-> pl]
                       : pl \in Plans}
               JobSet == [status : Finals \cup {"none", "running"},
                          owner : Procs \cup {NoHolder}, cancel : BOOLEAN, plan : Plans]
    <3>1. New \subseteq JobSet
      <4>1. ASSUME NEW pl \in Plans
            PROVE  [status |-> "none", owner |-> NoHolder, cancel |-> FALSE, plan |-> pl] \in JobSet
        OBVIOUS
      <4> HIDE DEF JobSet
      <4> QED BY <4>1
    <3>2. job \in [Jobs -> New]
      BY DEF Init
    <3> HIDE DEF New, JobSet
    <3>3. job \in [Jobs -> JobSet]
      BY <3>1, <3>2
    <3> QED BY <3>3 DEF JobType, JobSet
  <2>3. row \in RowType
    BY DEF Init, RowType, SetupState, Successors
  <2>4. /\ ex \in [Procs -> [Jobs -> Executor]]
        /\ lock \in [Radios -> (Procs \X Jobs) \cup {NoExecutor}]
        /\ begun \in [Jobs -> [Radios -> SUBSET Operations]]
        /\ changed \in [Jobs -> SUBSET Radios]
        /\ proc \in [Procs -> {"unborn", "waiting", "holding", "up", "dead"}]
    BY <1>1 DEF Init
  <2>5. faults \in 0 .. MaxFaults
    BY SetupAssumption DEF Init
  <2> QED BY <1>1, <2>1, <2>2, <2>3, <2>4, <2>5 DEF SetupTypeOK, JobType, RowType
<1>3. OwnerRuns /\ AheadFresh /\ PlaceTruthful /\ BackTruthful
  BY <1>1 DEF OwnerRuns, AheadFresh, PlaceTruthful, BackTruthful, RunPcs, Inside, Back
<1>4. \A j \in Jobs, d \in Radios : /\ row[j][d].state = "UNKNOWN" /\ ~row[j][d].backup
                                    /\ begun[j][d] = {} /\ d \notin changed[j]
  BY DEF Init
<1>5. RowsTruthful
  BY <1>4 DEF RowsTruthful, RowTruthful, Fresh
<1>6. CompletedTruthful
  BY DEF Init, CompletedTruthful
<1> QED BY <1>2, <1>3, <1>5, <1>6 DEF SetupInv

\* Every step of the system keeps the invariant.
LEMMA SetupStep ==
  ASSUME SetupInv, [Next]_svars
  PROVE  SetupInv'
<1>1. LeaseTypeOK'
  BY LeaseStep DEF SetupInv, SetupTypeOK
<1>2. ASSUME NEW p \in Procs, NEW j \in Jobs, ExecutorStep(p, j)
      PROVE  SetupInv'
  BY <1>1, <1>2, RowEndSteps, RunSteps, OperationReturnsStep, RollbackSteps, RollbackEnds,
     RollbackReturnsStep, MarkStateStep, BeginOperationStep DEF ExecutorStep
<1>3. ASSUME NEW p \in Procs, NEW j \in Jobs,
             Execute(p, j) \/ Rollback(p, j) \/ HeartbeatLost(p, j) \/ CommitFails(p, j)
      PROVE  SetupInv'
  BY <1>1, <1>3, RunSteps, RollbackSteps, EndSteps
<1>4. ASSUME NEW p \in Procs, Die(p) \/ ReviewJobs(p)
      PROVE  SetupInv'
  BY <1>1, <1>4, EndSteps, ReviewStep
<1> QED BY <1>1, <1>2, <1>3, <1>4, QuietSteps DEF Next

\* coordinator.py, repository.py: rows, places, owned radios and the operations
\* begun agree in every reachable state, whatever fails, dies or is reviewed.
THEOREM SetupInvariant == Spec => []SetupInv
<1>1. Init => SetupInv
  BY SetupInitially
<1>2. SetupInv /\ [Next]_svars => SetupInv'
  BY SetupStep
<1> QED BY <1>1, <1>2, PTL DEF Spec

\* README.md, "before critical writes": a radio that may have been written has a
\* durable path to its backup.
THEOREM BackupBeforeWriteHolds == Spec => []BackupBeforeWrite
<1>1. SetupInv => BackupBeforeWrite
  BY DEF SetupInv, RowsTruthful, RowTruthful, BackupBeforeWrite
<1> QED BY <1>1, SetupInvariant, PTL

\* _rollback(): a radio reported ROLLED_BACK does not have this job's routing,
\* and no route of an executor that lost its lease can bring it back.
THEOREM RolledBackIsBackHolds == Spec => []RolledBackIsBack
<1>1. SetupInv => RolledBackIsBack
  BY DEF SetupInv, RowsTruthful, RowTruthful, RolledBackIsBack
<1> QED BY <1>1, SetupInvariant, PTL

\* _execute(): a job reported complete began every operation of its plan on every
\* radio.
THEOREM CompletedMeansDoneHolds == Spec => []CompletedMeansDone
<1>1. SetupInv => CompletedMeansDone
  <2> SUFFICES ASSUME SetupInv, NEW j \in Jobs, NEW d \in Radios, job[j].status = "completed"
               PROVE  {Program(j)[k].op : k \in DOMAIN Program(j)} \ {"none", "save"}
                        \subseteq begun[j][d]
    BY DEF CompletedMeansDone
  <2>1. DOMAIN Program(j) = 1 .. Len(Program(j))
    BY ProgramFacts DEF SequenceFacts
  <2> QED BY <2>1 DEF SetupInv, CompletedTruthful, AllOps, OpsTo
<1> QED BY <1>1, SetupInvariant, PTL


\* No other step puts an executor into an operation.
LEMMA OnlyBegin ==
  ASSUME ex \in [Procs -> [Jobs -> Executor]], Next, NEW p \in Procs, NEW j \in Jobs,
         Begins(p, j)
  PROVE  BeginOperation(p, j)
<1>1. ex[p][j].pc # "op" /\ ex'[p][j].pc = "op"
  BY DEF Begins, At
<1>2. ASSUME NEW q \in Procs, NEW l \in Jobs, NEW e, SetEx(q, l, e)
      PROVE  q = p /\ l = j /\ e.pc = "op"
  <2>1. /\ ex'[q][l] = e
        /\ \A r \in Procs, m \in Jobs : r # q \/ m # l => ex'[r][m] = ex[r][m]
    BY <1>2 DEF SetEx
  <2> QED BY <1>1, <2>1
<1>3. ASSUME NEW q \in Procs, NEW l \in Jobs,
             NEW e \in {[Idle EXCEPT !.pc = "row"], [Idle EXCEPT !.pc = "end"], Idle,
                        [Idle EXCEPT !.pc = "rb_row"]}
      PROVE  ~SetEx(q, l, e)
  <2>1. e.pc # "op"
    BY <1>3 DEF Idle
  <2> QED BY <1>2, <2>1
<1>4. ASSUME NEW q \in Procs, NEW l \in Jobs,
             \/ Execute(q, l) \/ Rollback(q, l) \/ CommitFails(q, l)
             \/ CancelledAtRow(q, l) \/ Finish(q, l) \/ ReleaseLease(q, l)
             \/ RollbackLost(q, l) \/ RollbackFinish(q, l)
      PROVE  FALSE
  BY <1>3, <1>4 DEF Execute, Rollback, CommitFails, CancelledAtRow, Finish, ReleaseLease,
     RollbackLost, RollbackFinish
<1>5. ASSUME NEW q \in Procs, NEW l \in Jobs, NEW s, AfterRow(q, l, s)
      PROVE  FALSE
  <2> DEFINE e == IF s \in {"cancelled", "failed"} THEN [Idle EXCEPT !.pc = "end"]
                  ELSE [ex[q][l] EXCEPT !.pc = "row", !.i = @ + 1, !.k = 0]
  <2>1. SetEx(q, l, e)
    BY <1>5 DEF AfterRow
  <2>2. e.pc # "op"
    BY DEF Idle, Executor
  <2> HIDE DEF e
  <2> QED BY <1>2, <2>1, <2>2
<1>6. ASSUME NEW q \in Procs, NEW l \in Jobs,
             \/ RadioDenied(q, l) \/ RowFails(q, l) \/ LeaseLost(q, l)
             \/ CancelledAtCheckpoint(q, l) \/ RowDone(q, l)
      PROVE  FALSE
  BY <1>5, <1>6 DEF RadioDenied, RowFails, LeaseLost, CancelledAtCheckpoint, RowDone
<1>7. ASSUME NEW q \in Procs, NEW l \in Jobs, NEW e, SetEx(q, l, e),
             e.pc \in {"check", "bad", "rb_row", "rb_check", "rb_op", "rb_after", ex[q][l].pc}
      PROVE  FALSE
  BY <1>1, <1>2, <1>7
<1>8. ASSUME NEW q \in Procs, NEW l \in Jobs,
             \/ EnterRadio(q, l) \/ MarkState(q, l) \/ OperationReturns(q, l)
             \/ HeartbeatLost(q, l)
      PROVE  FALSE
  <2> DEFINE x == ex[q][l]
  <2>1. x \in Executor
    OBVIOUS
  <2>2. /\ [x EXCEPT !.pc = "check"].pc = "check"
        /\ [x EXCEPT !.k = @ + 1].pc = x.pc
        /\ [x EXCEPT !.lost = TRUE].pc = x.pc
        /\ \A pc : [x EXCEPT !.pc = pc, !.k = @ + 1].pc = pc
    BY <2>1 DEF Executor
  <2>3. CASE EnterRadio(q, l)
    BY <1>7, <2>2, <2>3 DEF EnterRadio
  <2>4. CASE MarkState(q, l)
    BY <1>7, <2>2, <2>4 DEF MarkState
  <2>5. CASE OperationReturns(q, l)
    <3>1. PICK pc \in {"check", "bad"} : SetEx(q, l, [x EXCEPT !.pc = pc, !.k = @ + 1])
      BY <2>5 DEF OperationReturns
    <3>2. [x EXCEPT !.pc = pc, !.k = @ + 1].pc \in {"check", "bad"}
      BY <2>2
    <3> QED BY <1>7, <3>1, <3>2
  <2>6. CASE HeartbeatLost(q, l)
    BY <1>7, <2>2, <2>6 DEF HeartbeatLost
  <2> QED BY <1>8, <2>3, <2>4, <2>5, <2>6
<1>9. ASSUME NEW q \in Procs, NEW l \in Jobs,
             \/ SkipRow(q, l) \/ RollbackEnters(q, l) \/ RollbackRaises(q, l)
             \/ RollbackBegins(q, l) \/ RollbackReturns(q, l) \/ RollbackNext(q, l)
      PROVE  FALSE
  <2> DEFINE x == ex[q][l]
  <2>1. x \in Executor
    OBVIOUS
  <2>2. /\ [x EXCEPT !.i = @ + 1].pc = x.pc
        /\ [x EXCEPT !.pc = "rb_check", !.tried = TRUE].pc = "rb_check"
        /\ [x EXCEPT !.pc = "rb_row", !.i = @ + 1, !.tried = TRUE, !.ok = FALSE,
                     !.unsaved = @ \cup {Radio(q, l)}].pc = "rb_row"
        /\ [x EXCEPT !.pc = "rb_op"].pc = "rb_op"
        /\ [x EXCEPT !.pc = "rb_row", !.i = @ + 1].pc = "rb_row"
        /\ \A ok, full : [x EXCEPT !.pc = "rb_after", !.ok = @ /\ ok, !.full = @ /\ ok /\ full,
                                   !.unsaved = {}].pc = "rb_after"
    BY <2>1 DEF Executor
  <2>3. CASE SkipRow(q, l)
    BY <1>7, <2>2, <2>3 DEF SkipRow
  <2>4. CASE RollbackEnters(q, l)
    BY <1>7, <2>2, <2>4 DEF RollbackEnters
  <2>5. CASE RollbackRaises(q, l)
    BY <1>7, <2>2, <2>5 DEF RollbackRaises
  <2>6. CASE RollbackBegins(q, l)
    BY <1>7, <2>2, <2>6 DEF RollbackBegins
  <2>7. CASE RollbackReturns(q, l)
    <3>1. PICK ok, full \in BOOLEAN :
            SetEx(q, l, [x EXCEPT !.pc = "rb_after", !.ok = @ /\ ok, !.full = @ /\ ok /\ full,
                                  !.unsaved = {}])
      BY <2>7 DEF RollbackReturns
    <3> DEFINE y == [x EXCEPT !.pc = "rb_after", !.ok = @ /\ ok, !.full = @ /\ ok /\ full,
                              !.unsaved = {}]
    <3>2. SetEx(q, l, y) /\ y.pc = "rb_after"
      BY <2>2, <3>1
    <3> HIDE DEF y
    <3> QED BY <1>7, <3>2
  <2>8. CASE RollbackNext(q, l)
    BY <1>7, <2>2, <2>8 DEF RollbackNext
  <2> QED BY <1>9, <2>3, <2>4, <2>5, <2>6, <2>7, <2>8
<1>10. ASSUME NEW q \in Procs, NEW l \in Jobs, BeginOperation(q, l)
       PROVE  BeginOperation(p, j)
  <2>1. q = p /\ l = j
    BY <1>2, <1>10 DEF BeginOperation
  <2> QED BY <1>10, <2>1
<1>11. ASSUME NEW q \in Procs, Die(q)
       PROVE  FALSE
  <2>1. ex' = [ex EXCEPT ![q] = [l \in Jobs |-> Idle]]
    BY <1>11 DEF Die
  <2> QED BY <1>1, <2>1 DEF Idle
<1>12. ex' # ex
  BY <1>1
<1>13. ASSUME NEW q \in Procs, NEW l \in Jobs, ExecutorStep(q, l)
       PROVE  BeginOperation(p, j)
  BY <1>4, <1>6, <1>8, <1>9, <1>10, <1>13 DEF ExecutorStep
<1>14. \A q \in Procs, l \in Jobs : ~Start(q, l) /\ ~ExecuteDenied(q, l)
  BY <1>12 DEF Start, ExecuteDenied
<1>15. \A l \in Jobs : ~RequestCancel(l)
  BY <1>12 DEF RequestCancel
<1>16. \A q \in Procs : ~Boot(q) /\ ~ReviewAcquires(q) /\ ~ReviewGivesUp(q) /\ ~ReviewJobs(q)
  BY <1>12 DEF Boot, ReviewAcquires, ReviewGivesUp, ReviewJobs
<1>17. ~LeaseExpires
  BY <1>12 DEF LeaseExpires
<1>18. CASE Next
  BY <1>4, <1>8, <1>11, <1>13, <1>14, <1>15, <1>16, <1>17, <1>18 DEF Next
<1> QED BY <1>12, <1>18

\* _review_interrupted_jobs(), "without replaying a hardware operation": over
\* restarts, duplicate executions, stalls and reviews, an operation after the
\* identification begins at most once for a radio of a job.
THEOREM NoReplayHolds == Spec => NoReplay
<1> DEFINE A == \A p \in Procs, j \in Jobs :
                  Begins(p, j) => NextStep(p, j).op \notin begun[j][Radio(p, j)] \ {"identify"}
<1>1. SetupInv /\ [Next]_svars => [A]_svars
  <2> SUFFICES ASSUME SetupInv, Next, NEW p \in Procs, NEW j \in Jobs, Begins(p, j),
                      NextStep(p, j).op \in begun[j][Radio(p, j)] \ {"identify"}
               PROVE  FALSE
    OBVIOUS
  <2> DEFINE k == ex[p][j].k
             prog == Program(j)
  <2>1. BeginOperation(p, j)
    BY OnlyBegin DEF SetupInv, SetupTypeOK
  <2>2. /\ ex[p][j].pc = "check" /\ prog[k + 1].op \notin {"none", "save"} /\ k < Len(prog)
        /\ prog[k + 1].op \in begun[j][ex[p][j].i] \ {"identify"}
    BY <2>1 DEF BeginOperation, At, NextStep, MorePlanned, Radio
  <2>3. k \in 0 .. 40
    BY Here DEF Executor
  <2>4. begun[j][ex[p][j].i] \subseteq OpsTo(j, k) \cup {"identify"}
    <3>1. StepsBegun(ex[p][j]) = k
      BY <2>2 DEF StepsBegun
    <3> QED BY <2>2, <3>1 DEF SetupInv, PlaceTruthful, Inside, PlaceAt
  <2>5. SequenceFacts(prog, SavedAt(job[j].plan))
    BY ProgramFacts
  <2>6. prog[k + 1].op \in OpsTo(j, k)
    BY <2>2, <2>4
  <2>7. PICK m \in 1 .. k : prog[m].op = prog[k + 1].op
    BY <2>6 DEF OpsTo
  <2> HIDE DEF k, prog
  <2>8. k + 1 \in 1 .. Len(prog) /\ m \in 1 .. ((k + 1) - 1)
    <3>1. Len(prog) \in Nat
      BY <2>5 DEF SequenceFacts
    <3>2. k < Len(prog)
      BY <2>2
    <3> QED BY <2>3, <3>1, <3>2
  <2> QED BY <2>2, <2>5, <2>7, <2>8 DEF SequenceFacts
<1> QED BY <1>1, SetupInvariant, PTL DEF Spec, NoReplay
=============================================================================
