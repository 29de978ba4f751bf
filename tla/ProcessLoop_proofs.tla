-------------------------- MODULE ProcessLoop_proofs --------------------------
(****************************************************************************)
(* Proofs about ProcessLoop, for any machines, roles, order and numbers of  *)
(* requests, edits and faults.                                              *)
(****************************************************************************)
EXTENDS ProcessLoop, LeastElements

-----------------------------------------------------------------------------
(* What a state of the process is made of.                                  *)

\* The plans that a machine can ever have.
PlansOf(m) ==
  {p \in PlanType :
     /\ p.kind = "certs" => m \in CertScope /\ p.gen \in Gens["certs"]
     /\ p.kind = "restore" => m = InitNode /\ p.gen \in Gens["restore"]
     /\ p.kind = "encrypt" => p.phase \in CommandPhases}

SecretsOf(m) ==
  [plan : PlansOf(m), limit : Limits, applied : PlansOf(m), sum : PlansOf(m),
   failed : PlansOf(m), out : KeyStages \cup {""}]

Requests == {r \in [Operations -> Nat] :
               \A o \in Operations : r[o] \in Gens[o] \cup {0}}

Typed ==
  /\ asked \in Requests /\ deleting \in BOOLEAN
  /\ edits \in 0..MaxEdits /\ faults \in 0..MaxFaults
  /\ withdrawn \in BOOLEAN
  /\ status \in StatusType /\ paused \in BOOLEAN
  /\ secret \in [Machines -> SecretType]
  /\ \A m \in Machines : secret[m] \in SecretsOf(m)
  /\ working \in [Machines -> [plan : PlanType, fresh : BOOLEAN]]
  /\ \A m \in Machines : working[m].plan \in PlansOf(m)
  /\ unfit \subseteq Machines /\ up \subseteq Machines
  /\ keyStage \in KeyStages /\ loaded \in [Machines -> KeyStages]
  /\ stamp \in [Machines -> Nat]
  /\ ran \subseteq Machines \X PlanType
  /\ restored \subseteq Gens["restore"] /\ rotated \subseteq Machines \X Nat
  /\ snapped \subseteq Machines
  /\ pc \in {"idle", "act"}
  /\ view \in [Machines -> SecretType]
  /\ pc = "act" => cp.status \in StatusType
  /\ pc = "idle" => cp = NotRead

\* What a round has read that nobody else changes, and what still holds of the
\* rest when it writes: a plan that it has seen applied still is, and the
\* control plane is what it was unless its version has changed.
RoundKnows ==
  pc = "act" =>
    /\ cp.status = status /\ cp.paused = paused
    /\ cp.asked \in Requests /\ cp.edits \in Nat /\ cp.edits <= edits
    /\ cp.deleting \in BOOLEAN /\ (cp.deleting => deleting)
    /\ cp.edits = edits => cp.asked = asked /\ cp.deleting = deleting
    /\ \A m \in Machines :
         /\ view[m].plan = secret[m].plan
         /\ view[m].applied = secret[m].plan =>
              secret[m].applied = secret[m].plan

\* A certificate or snapshot plan that counts as carried out has been.
ReportsTrue ==
  \A m \in Machines : \A p \in {secret[m].sum, secret[m].applied} :
    /\ p.kind = "certs" => <<m, p.gen>> \in rotated
    /\ p.kind = "snapshot" => m \in snapped

Basics == Typed /\ RoundKnows /\ ReportsTrue

-----------------------------------------------------------------------------
(* Plans and choices.                                                       *)

LEMMA PhasesKnown ==
  /\ CommandPhases = {"Prepare", "Rotate", "Reencrypt"}
  /\ DOMAIN NextPhase = {"Prepare", "PostPrepareRestart", "Rotate",
                         "PostRotateRestart", "Reencrypt",
                         "PostReencryptRestart"}
  /\ KeyPhases = DOMAIN NextPhase \cup {"", "Done", "Failed"}
  /\ \A ph \in DOMAIN NextPhase : NextPhase[ph] \in KeyPhases
  /\ \A ph \in CommandPhases : Command[ph] \in KeyStages \ {"start"}
<1>1. CommandPhases = {"Prepare", "Rotate", "Reencrypt"}
  BY DEF CommandPhases, Command
<1>2. DOMAIN NextPhase = {"Prepare", "PostPrepareRestart", "Rotate",
                          "PostRotateRestart", "Reencrypt",
                          "PostReencryptRestart"}
  BY DEF NextPhase
<1>3. KeyPhases = DOMAIN NextPhase \cup {"", "Done", "Failed"}
  BY DEF KeyPhases
<1>4. \A ph \in DOMAIN NextPhase : NextPhase[ph] \in KeyPhases
  <2>1. /\ NextPhase["Prepare"] = "PostPrepareRestart"
        /\ NextPhase["PostPrepareRestart"] = "Rotate"
        /\ NextPhase["Rotate"] = "PostRotateRestart"
        /\ NextPhase["PostRotateRestart"] = "Reencrypt"
        /\ NextPhase["Reencrypt"] = "PostReencryptRestart"
        /\ NextPhase["PostReencryptRestart"] = "Done"
    BY DEF NextPhase
  <2>2. QED
    BY <1>2, <1>3, <2>1
<1>5. \A ph \in CommandPhases : Command[ph] \in KeyStages \ {"start"}
  <2>1. /\ Command["Prepare"] = "prepare" /\ Command["Rotate"] = "rotate"
        /\ Command["Reencrypt"] = "reencrypt"
    BY DEF Command
  <2>2. QED
    BY <1>1, <2>1 DEF KeyStages
<1>6. QED
  BY <1>1, <1>2, <1>3, <1>4, <1>5

\* The plan is one that the machine can have.
LEMMA PlansAre ==
  ASSUME NEW m \in Machines, NEW g \in Nat
  PROVE  /\ NoPlan \in PlansOf(m) /\ SnapshotPlan \in PlansOf(m)
         /\ StopPlan \in PlansOf(m)
         /\ \A k \in {"desired", "podcleanup", "nodecleanup"} :
              Plan(k, "", g) \in PlansOf(m)
         /\ m = InitNode /\ g \in Gens["restore"] =>
              Plan("restore", "", g) \in PlansOf(m)
         /\ m \in CertScope /\ g \in Gens["certs"] =>
              CertPlan(g) \in PlansOf(m)
         /\ \A ph \in CommandPhases : Plan("encrypt", ph, g) \in PlansOf(m)
         /\ \A ph \in KeyPhases, a \in KeyStages \cup {""} :
              [Plan("restart", ph, g) EXCEPT !.arg = a] \in PlansOf(m)
<1>1. "" \in KeyPhases /\ CommandPhases \subseteq KeyPhases
  BY PhasesKnown
<1>2. \A k \in Kinds, ph \in KeyPhases, a \in KeyStages \cup {""}, n \in Nat :
        [kind |-> k, phase |-> ph, arg |-> a, gen |-> n] \in PlanType
  BY DEF PlanType
<1>3. \A k \in Kinds, ph \in KeyPhases, n \in Nat : Plan(k, ph, n) \in PlanType
  BY <1>2 DEF Plan
<1>4. NoPlan \in PlansOf(m) /\ SnapshotPlan \in PlansOf(m)
      /\ StopPlan \in PlansOf(m)
  BY <1>1, <1>3 DEF PlansOf, Kinds, NoPlan, SnapshotPlan, StopPlan, Plan
<1>5. \A k \in {"desired", "podcleanup", "nodecleanup"} :
        Plan(k, "", g) \in PlansOf(m)
  BY <1>1, <1>3 DEF PlansOf, Kinds, Plan
<1>6. m = InitNode /\ g \in Gens["restore"] =>
        Plan("restore", "", g) \in PlansOf(m)
  BY <1>1, <1>3 DEF PlansOf, Kinds, Plan
<1>7. m \in CertScope /\ g \in Gens["certs"] => CertPlan(g) \in PlansOf(m)
  BY <1>1, <1>3 DEF PlansOf, Kinds, Plan, CertPlan
<1>8. \A ph \in CommandPhases : Plan("encrypt", ph, g) \in PlansOf(m)
  BY <1>1, <1>3 DEF PlansOf, Kinds, Plan
<1>9. \A ph \in KeyPhases, a \in KeyStages \cup {""} :
         [Plan("restart", ph, g) EXCEPT !.arg = a] \in PlansOf(m)
  <2>1. \A r \in PlanType, a \in KeyStages \cup {""} :
          [r EXCEPT !.arg = a] \in PlanType /\ [r EXCEPT !.arg = a].kind = r.kind
    BY DEF PlanType
  <2>2. \A ph \in KeyPhases :
          /\ Plan("restart", ph, g) \in PlanType
          /\ Plan("restart", ph, g).kind = "restart"
    <3>1. "restart" \in Kinds
      BY DEF Kinds
    <3>2. \A ph \in KeyPhases : Plan("restart", ph, g).kind = "restart"
      BY DEF Plan
    <3>3. QED
      BY <1>3, <3>1, <3>2
  <2>3. QED
    BY <2>1, <2>2 DEF PlansOf
<1>10. QED
  BY <1>4, <1>5, <1>6, <1>7, <1>8, <1>9

LEMMA SecretsAre ==
  ASSUME NEW m, NEW p \in PlansOf(m), NEW limit \in Limits,
         NEW applied \in PlansOf(m), NEW sum \in PlansOf(m),
         NEW failed \in PlansOf(m), NEW out \in KeyStages \cup {""}
  PROVE  Secret(p, limit, applied, sum, failed, out) \in SecretsOf(m)
  BY DEF Secret, SecretsOf

LEMMA FirstIn ==
  ASSUME NEW ms \in SUBSET Machines, ms # {}
  PROVE  First(ms) \in ms
<1>1. \E m \in ms : \A n \in ms : Order[m] <= Order[n]
  BY RoundAssumption, LeastExists
<1>2. QED
  BY <1>1 DEF First

\* The tiers of a certificate rotation hold all machines.
LEMMA NextRotated ==
  ASSUME NEW ms \in SUBSET Machines, ms # {}
  PROVE  NextIn(CertTiers, ms) \in ms
<1> DEFINE tiers == CertTiers
           Foremost(i) == /\ tiers[i] \cap ms # {}
                          /\ \A j \in 1..(i - 1) : tiers[j] \cap ms = {}
           t == CHOOSE i \in DOMAIN tiers : Foremost(i)
<1>1. DOMAIN tiers = 1..4
  BY DEF CertTiers
<1>2. tiers[1] \cup tiers[2] \cup tiers[3] \cup tiers[4] = Machines
  BY RoundAssumption DEF CertTiers
<1> HIDE DEF tiers
<1>3. \E i \in DOMAIN tiers : Foremost(i)
  <2>1. CASE tiers[1] \cap ms # {}
    <3>1. Foremost(1)
      BY <2>1
    <3>2. QED
      BY <1>1, <3>1
  <2>2. CASE tiers[1] \cap ms = {} /\ tiers[2] \cap ms # {}
    <3>1. Foremost(2)
      BY <2>2
    <3>2. QED
      BY <1>1, <3>1
  <2>3. CASE /\ tiers[1] \cap ms = {} /\ tiers[2] \cap ms = {}
             /\ tiers[3] \cap ms # {}
    <3>1. Foremost(3)
      BY <2>3
    <3>2. QED
      BY <1>1, <3>1
  <2>4. CASE \A j \in 1..3 : tiers[j] \cap ms = {}
    <3>1. Foremost(4)
      BY <1>2, <2>4
    <3>2. QED
      BY <1>1, <3>1
  <2>5. QED
    BY <2>1, <2>2, <2>3, <2>4
<1>4. Foremost(t)
  BY <1>3
<1>5. First(tiers[t] \cap ms) \in tiers[t] \cap ms
  BY <1>4, FirstIn
<1>6. NextIn(tiers, ms) = First(tiers[t] \cap ms)
  BY DEF NextIn
<1>7. QED
  BY <1>5, <1>6 DEF tiers

-----------------------------------------------------------------------------
(* What a round does to plan secrets and to the status.                     *)

\* A plan secret with a new plan.
Delivered(s, p, limit) ==
  Secret(p, limit, IF s.sum = p THEN p ELSE s.applied, s.sum, s.failed, s.out)

\* Plans of these kinds are delivered, those that depend on the configuration
\* or on the restore for the ones in the status.
HandsOut(kinds) ==
  /\ secret' = [m \in Machines |-> secret'[m]]
  /\ \A m \in Machines :
       \/ secret'[m] = secret[m]
       \/ \E p \in PlansOf(m), limit \in Limits :
            /\ p.kind \in kinds
            /\ p.kind \in {"desired", "podcleanup", "nodecleanup"} =>
                 p.gen = status.config
            /\ p.kind = "restore" => p.gen = status.restFor
            /\ secret'[m] = Delivered(secret[m], p, limit)

\* The status becomes s, or the write fails.
Becomes(s) ==
  \/ status' = status
  \/ edits = cp.edits /\ \E r \in BOOLEAN : status' = [s EXCEPT !.ready = r]

RoundOver ==
  /\ pc = "act" /\ RoundEnds /\ PlannerOnly
  /\ faults' \in 0..MaxFaults /\ paused' \in BOOLEAN
  /\ status' \in StatusType

LEMMA WaitingEnds ==
  ASSUME Typed, NEW s \in StatusType,
         Waiting(s) \/ Completed(s) \/ Failing
  PROVE  /\ RoundEnds /\ Becomes(s) /\ status' \in StatusType
         /\ faults' \in 0..MaxFaults
<1>1. CASE Failing
  BY <1>1 DEF Failing, Becomes, Typed
<1>2. ASSUME NEW r \in BOOLEAN, RoundEnds, Persist([s EXCEPT !.ready = r])
      PROVE  /\ RoundEnds /\ Becomes(s) /\ status' \in StatusType
             /\ faults' \in 0..MaxFaults
  <2>1. [s EXCEPT !.ready = r] \in StatusType
    BY DEF StatusType
  <2>2. faults' \in 0..MaxFaults
    BY <1>2, RoundAssumption DEF Persist, Fault, Typed
  <2>3. \/ status' = status
        \/ edits = cp.edits /\ status' = [s EXCEPT !.ready = r]
    BY <1>2 DEF Persist
  <2>4. QED
    BY <1>2, <2>1, <2>2, <2>3 DEF Becomes, Typed
<1>3. QED
  BY <1>1, <1>2 DEF Waiting, Completed

\* One plan for all whom it is assigned to.
LEMMA OnePlanAssigned ==
  ASSUME Typed, NEW ms \in SUBSET Machines, NEW p, NEW limit \in Limits,
         NEW kinds,
         \A m \in ms : p \in PlansOf(m),
         p.kind \in kinds,
         p.kind \in {"desired", "podcleanup", "nodecleanup"} =>
           p.gen = status.config,
         p.kind = "restore" => p.gen = status.restFor,
         Assign(ms, [m \in Machines |-> p], limit)
  PROVE  HandsOut(kinds)
<1>1. secret' = [m \in Machines |->
                   IF m \in ms THEN Delivered(secret[m], p, limit)
                   ELSE secret[m]]
  BY DEF Assign, Delivered
<1>2. QED
  BY <1>1 DEF HandsOut

LEMMA NothingAssigned ==
  ASSUME Typed, UNCHANGED secret, NEW kinds
  PROVE  HandsOut(kinds)
  BY DEF HandsOut, Typed

\* What a round delivers keeps the secrets typed.
LEMMA HandsOutTyped ==
  ASSUME Typed, NEW kinds, HandsOut(kinds)
  PROVE  /\ secret' \in [Machines -> SecretType]
         /\ \A m \in Machines : secret'[m] \in SecretsOf(m)
<1>1. \A m \in Machines : PlansOf(m) \subseteq PlanType
  BY DEF PlansOf
<1>2. \A m \in Machines : SecretsOf(m) \subseteq SecretType
  BY <1>1 DEF SecretsOf, SecretType
<1>3. ASSUME NEW m \in Machines PROVE secret'[m] \in SecretsOf(m)
  <2>1. CASE secret'[m] = secret[m]
    BY <2>1 DEF Typed
  <2>2. CASE \E p \in PlansOf(m), limit \in Limits :
               secret'[m] = Delivered(secret[m], p, limit)
    <3>1. PICK p \in PlansOf(m), limit \in Limits :
            secret'[m] = Delivered(secret[m], p, limit)
      BY <2>2
    <3>2. secret[m] \in SecretsOf(m)
      BY DEF Typed
    <3>3. /\ secret[m].applied \in PlansOf(m) /\ secret[m].sum \in PlansOf(m)
          /\ secret[m].failed \in PlansOf(m)
          /\ secret[m].out \in KeyStages \cup {""}
      BY <3>2 DEF SecretsOf
    <3>4. (IF secret[m].sum = p THEN p ELSE secret[m].applied) \in PlansOf(m)
      BY <3>3
    <3>5. Secret(p, limit, IF secret[m].sum = p THEN p ELSE secret[m].applied,
                 secret[m].sum, secret[m].failed, secret[m].out) \in SecretsOf(m)
      BY <3>3, <3>4, SecretsAre, Zenon
    <3>6. QED
      BY <3>1, <3>5 DEF Delivered
  <2>3. QED
    BY <2>1, <2>2 DEF HandsOut
<1>4. QED
  BY <1>2, <1>3 DEF HandsOut

-----------------------------------------------------------------------------
(* The steps of a round, operation by operation.                            *)

KeepsRequest == UNCHANGED <<status.restFor, status.restPhase, status.config>>
KeepsOthers == UNCHANGED <<status.certs, status.snapPhase>>

\* The parts of a status that Becomes leaves as they are in s.
LEMMA BecomesFields ==
  ASSUME NEW s \in StatusType, Becomes(s)
  PROVE  \/ status' = status
         \/ /\ edits = cp.edits
            /\ status'.restFor = s.restFor /\ status'.restPhase = s.restPhase
            /\ status'.config = s.config /\ status'.certs = s.certs
            /\ status'.snapPhase = s.snapPhase
            /\ status'.initialized = s.initialized
            /\ status'.keysFor = s.keysFor /\ status'.keysPhase = s.keysPhase
            /\ status'.leader = s.leader
  BY DEF Becomes, StatusType

\* The desired plan is one that every machine can have.
LEMMA DesiredIs ==
  ASSUME Typed, NEW s \in StatusType, NEW m \in Machines
  PROVE  /\ DesiredPlan(s) \in PlansOf(m)
         /\ DesiredPlan(s).kind = "desired" /\ DesiredPlan(s).gen = s.config
<1>1. s.config \in Nat
  BY DEF StatusType
<1>2. DesiredPlan(s) = Plan("desired", "", s.config)
  BY DEF DesiredPlan
<1>3. Plan("desired", "", s.config) \in PlansOf(m)
  BY <1>1, PlansAre
<1>4. DesiredPlan(s).kind = "desired" /\ DesiredPlan(s).gen = s.config
  BY DEF DesiredPlan, Plan
<1>5. QED
  BY <1>2, <1>3, <1>4

LEMMA DesiredHandedOut ==
  ASSUME Typed, RoundKnows, pc = "act", NEW ms \in SUBSET Machines,
         NEW limit \in Limits, NEW kinds, "desired" \in kinds,
         Assign(ms, [m \in Machines |-> DesiredPlan(cp.status)], limit)
  PROVE  HandsOut(kinds)
<1>1. cp.status = status /\ cp.status \in StatusType
  BY DEF RoundKnows, Typed
<1>2. \A m \in ms : DesiredPlan(cp.status) \in PlansOf(m)
  BY <1>1, DesiredIs
<1>3. DesiredPlan(cp.status).kind = "desired"
      /\ DesiredPlan(cp.status).gen = status.config
  BY <1>1 DEF DesiredPlan, Plan
<1>4. QED
  BY <1>2, <1>3, OnePlanAssigned

LEMMA TurnedInTier ==
  ASSUME NEW tier \in SUBSET Machines
  PROVE  Turned(tier) \in SUBSET Machines
<1> DEFINE outdated == {m \in tier : NeedsPlan(m, DesiredPlan(cp.status))}
<1>1. outdated # {} => First(outdated) \in outdated
  BY FirstIn
<1>2. QED
  BY <1>1 DEF Turned

LEMMA CreateEffect ==
  ASSUME Typed, RoundKnows, EtcdCreateStep
  PROVE  /\ RoundOver /\ UNCHANGED paused
         /\ HandsOut({"snapshot", "desired"})
         /\ KeepsRequest /\ UNCHANGED <<status.certs, status.initialized>>
         /\ ~status.initialized => UNCHANGED secret
         /\ status'.snapPhase = "RestartCluster" /\ status.snapPhase = "Started"
              => SnapshotTaken
<1> DEFINE kinds == {"snapshot", "desired"}
           Result == /\ status' \in StatusType /\ faults' \in 0..MaxFaults
                     /\ KeepsRequest
                     /\ UNCHANGED <<status.certs, status.initialized>>
                     /\ \/ status'.snapPhase # "RestartCluster"
                        \/ status.snapPhase # "Started" \/ SnapshotTaken
<1>1. /\ pc = "act" /\ cp.status = status /\ status \in StatusType
      /\ cp.asked \in Requests /\ PlannerOnly /\ UNCHANGED paused
  BY DEF RoundKnows, Typed, EtcdCreateStep, ResetSnapshot, StartSnapshot,
         AwaitSnapshots, SnapshotRefused, EndSnapshots, RestartInitNode,
         RestartManagement, FinishSnapshot, Turn, SnapshotIn
<1>2. \A g \in Nat, ph \in SnapshotPhases :
        [cp.status EXCEPT !.snapFor = g, !.snapPhase = ph] \in StatusType
  BY <1>1 DEF StatusType
<1>3. ASSUME NEW g \in Nat, NEW ph \in SnapshotPhases, SnapshotState(g, ph),
             ph # "RestartCluster" \/ SnapshotTaken
      PROVE  RoundEnds /\ Result
  <2> DEFINE s == [cp.status EXCEPT !.snapFor = g, !.snapPhase = ph]
  <2>1. s \in StatusType
    BY <1>2
  <2>2. RoundEnds /\ Becomes(s) /\ status' \in StatusType
        /\ faults' \in 0..MaxFaults
    BY <1>3, <2>1, WaitingEnds DEF SnapshotState
  <2>3. /\ s.restFor = status.restFor /\ s.restPhase = status.restPhase
        /\ s.config = status.config /\ s.certs = status.certs
        /\ s.initialized = status.initialized /\ s.snapPhase = ph
    BY <1>1 DEF StatusType
  <2> HIDE DEF s
  <2>4. QED
    BY <1>3, <2>1, <2>2, <2>3, BecomesFields DEF KeepsRequest
<1>4. cp.asked["snapshot"] \in Nat /\ status.snapFor \in Nat
  BY <1>1 DEF Requests, Operations, StatusType
<1>5. CASE ResetSnapshot \/ StartSnapshot \/ EndSnapshots \/ FinishSnapshot
  <2>1. /\ UNCHANGED secret
        /\ \E g \in Nat, ph \in SnapshotPhases :
             SnapshotState(g, ph) /\ (ph # "RestartCluster" \/ SnapshotTaken)
    BY <1>1, <1>4, <1>5 DEF ResetSnapshot, StartSnapshot, EndSnapshots,
       FinishSnapshot, SnapshotPhases
  <2>2. HandsOut(kinds)
    BY <2>1, NothingAssigned
  <2>3. RoundEnds /\ Result
    BY <1>3, <2>1
  <2>4. QED
    BY <1>1, <2>1, <2>2, <2>3 DEF RoundOver, Typed
<1>6. CASE AwaitSnapshots
  <2>1. /\ Assign(NoSnapshot, [m \in Machines |-> SnapshotPlan], "few")
        /\ status.initialized
        /\ \E ph \in {"Failed", "Started"} : SnapshotState(status.snapFor, ph)
    BY <1>1, <1>6 DEF AwaitSnapshots, SnapshotIn, Snapshots
  <2>2. RoundEnds /\ Result
    BY <1>3, <1>4, <2>1 DEF SnapshotPhases
  <2>3. HandsOut(kinds)
    <3>1. NoSnapshot \subseteq Machines
      BY RoundAssumption DEF NoSnapshot
    <3>2. \A m \in Machines : SnapshotPlan \in PlansOf(m)
      BY PlansAre
    <3>3. SnapshotPlan.kind = "snapshot" /\ "few" \in Limits
      BY DEF SnapshotPlan, Plan, Limits
    <3>4. QED
      BY <2>1, <3>1, <3>2, <3>3, OnePlanAssigned
  <2>4. QED
    BY <1>1, <2>1, <2>2, <2>3 DEF RoundOver, Typed
<1>7. CASE SnapshotRefused
  <2>1. PICK m \in NoSnapshot :
          Assign(NoSnapshot \ {m}, [n \in Machines |-> SnapshotPlan], "few")
    BY <1>7 DEF SnapshotRefused
  <2>2. HandsOut(kinds)
    <3>1. NoSnapshot \ {m} \in SUBSET Machines
      BY RoundAssumption DEF NoSnapshot
    <3>2. \A n \in Machines : SnapshotPlan \in PlansOf(n)
      BY PlansAre
    <3>3. SnapshotPlan.kind = "snapshot" /\ "few" \in Limits
      BY DEF SnapshotPlan, Plan, Limits
    <3>4. QED
      BY <2>1, <3>1, <3>2, <3>3, OnePlanAssigned
  <2>3. /\ faults' \in 0..MaxFaults /\ RoundEnds /\ status.initialized
        /\ \/ status' = status
           \/ status' = [status EXCEPT !.ready = FALSE, !.snapPhase = "Failed"]
    BY <1>1, <1>7, RoundAssumption
       DEF SnapshotRefused, Fault, Typed, SnapshotIn, Snapshots
  <2>4. Result
    BY <1>1, <2>3 DEF StatusType, SnapshotPhases, KeepsRequest
  <2>5. QED
    BY <1>1, <2>2, <2>3, <2>4 DEF RoundOver, Typed
<1>8. CASE RestartInitNode \/ RestartManagement
  <2>1. status.initialized /\ Waiting(cp.status)
    BY <1>1, <1>8 DEF RestartInitNode, RestartManagement, SnapshotIn, Snapshots
  <2>2. RoundEnds /\ Result
    BY <1>1, <2>1, WaitingEnds, BecomesFields DEF KeepsRequest
  <2>3. HandsOut(kinds)
    <3>1. CASE RestartInitNode
      <4>1. Turned({InitNode}) \in SUBSET Machines
        BY RoundAssumption, TurnedInTier
      <4>2. "forever" \in Limits
        BY DEF Limits
      <4>3. QED
        BY <1>1, <3>1, <4>1, <4>2, DesiredHandedOut
           DEF RestartInitNode, Reconcile
    <3>2. CASE RestartManagement
      <4>1. Behind(Etcd) \in SUBSET Machines /\ Behind(Etcd) # {}
        BY <3>2, RoundAssumption DEF RestartManagement, Behind
      <4>2. First(Behind(Etcd)) \in Machines
        BY <4>1, FirstIn
      <4>3. PICK ms \in SUBSET Machines :
              Assign(ms, [n \in Machines |-> DesiredPlan(cp.status)],
                     "unnoticed")
        BY <3>2, <4>2 DEF RestartManagement
      <4>4. "unnoticed" \in Limits
        BY DEF Limits
      <4>5. QED
        BY <1>1, <4>3, <4>4, DesiredHandedOut
    <3>3. QED
      BY <1>8, <3>1, <3>2
  <2>4. QED
    BY <1>1, <2>1, <2>2, <2>3 DEF RoundOver, Typed
<1>9. QED
  BY <1>5, <1>6, <1>7, <1>8 DEF EtcdCreateStep

\* What a restore does in each of its phases.  A phase may take effect and
\* its status be lost.
KeepsRestore == KeepsRequest /\ UNCHANGED status.initialized

RestoreAsks ==
  /\ UNCHANGED <<secret, paused, status.initialized, status.config>>
  /\ \/ KeepsRequest
     \/ /\ cp.asked["restore"] = 0
        /\ status'.restFor = 0 /\ status'.restPhase = ""
     \/ /\ edits = cp.edits /\ cp.asked["restore"] # 0
        /\ status.restFor # cp.asked["restore"]
        /\ status'.restFor = cp.asked["restore"]
        /\ status'.restPhase = "Started"

RestoreBegins ==
  /\ status.restPhase = "Started" /\ UNCHANGED <<secret, paused>>
  /\ UNCHANGED <<status.restFor, status.config>>
  /\ \/ KeepsRestore
     \/ status'.restPhase = "Shutdown" /\ status'.initialized = FALSE

RestoreShutsDown ==
  /\ status.restPhase = "Shutdown" /\ HandsOut({"stop"}) /\ UNCHANGED paused
  /\ UNCHANGED <<status.restFor, status.config, status.initialized>>
  /\ \/ KeepsRestore
     \/ /\ status'.restPhase = "Restore" /\ UNCHANGED secret
        /\ \A m \in Machines : Carried(m, StopPlan)

RestoreRuns ==
  /\ status.restPhase = "Restore" /\ HandsOut({"restore"}) /\ paused' = TRUE
  /\ UNCHANGED <<status.restFor, status.initialized>>
  /\ \/ KeepsRestore
     \/ /\ status'.restPhase = "PostRestorePodCleanup"
        /\ status'.config = status.config + 1
        /\ Carried(InitNode, Plan("restore", "", status.restFor))

CleansPods ==
  /\ status.restPhase = "PostRestorePodCleanup"
  /\ HandsOut({"podcleanup", "desired"}) /\ UNCHANGED paused
  /\ UNCHANGED <<status.restFor, status.config, status.initialized>>
  /\ \/ KeepsRestore
     \/ /\ status'.restPhase = "InitialRestartCluster"
        /\ \E k \in {"podcleanup", "desired"} :
             Carried(InitNode, Plan(k, "", status.config))

CleansNodes ==
  /\ status.restPhase = "PostRestoreNodeCleanup"
  /\ HandsOut({"nodecleanup"}) /\ UNCHANGED paused
  /\ UNCHANGED <<status.restFor, status.config, status.initialized>>
  /\ KeepsRestore \/ status'.restPhase = "RestartCluster"

Restarts ==
  /\ status.restPhase \in {"InitialRestartCluster", "RestartCluster"}
  /\ HandsOut({"desired"}) /\ paused' = FALSE
  /\ UNCHANGED <<status.restFor, status.config>>
  /\ \/ UNCHANGED status.restPhase
     \/ /\ edits = cp.edits /\ status.restFor = cp.asked["restore"]
        /\ status.restFor # 0 /\ UNCHANGED status.initialized
        /\ status'.restPhase =
             IF status.restPhase = "RestartCluster" THEN "Finished"
             ELSE "PostRestoreNodeCleanup"
        /\ \A m \in Machines : Carried(m, Plan("desired", "", status.config))

\* A plan for one machine, by assignAndCheckPlan.
LEMMA RunOnEffect ==
  ASSUME Typed, RoundKnows, pc = "act", NEW m \in Machines, NEW p \in PlansOf(m),
         NEW next \in StatusType, RunOn(m, p, next), NEW kinds,
         p.kind \in kinds,
         p.kind \in {"desired", "podcleanup", "nodecleanup"} =>
           p.gen = status.config,
         p.kind = "restore" => p.gen = status.restFor
  PROVE  /\ HandsOut(kinds) /\ RoundEnds /\ status' \in StatusType
         /\ faults' \in 0..MaxFaults
         /\ Becomes(status) \/ (Becomes(next) /\ Carried(m, p))
<1>1. cp.status = status /\ status \in StatusType
  BY DEF RoundKnows, Typed
<1>2. HandsOut(kinds)
  <2> DEFINE ms == {n \in {m} : NeedsPlan(n, p)}
  <2>1. ms \in SUBSET Machines /\ (\A n \in ms : p \in PlansOf(n))
    OBVIOUS
  <2>2. Assign(ms, [n \in Machines |-> p], "few") /\ "few" \in Limits
    BY DEF RunOn, Limits
  <2> HIDE DEF ms
  <2>3. QED
    BY <2>1, <2>2, OnePlanAssigned
<1>3. \/ Failing \/ Waiting(status)
      \/ Waiting(next) /\ Carried(m, p)
  BY <1>1 DEF RunOn
<1>4. QED
  BY <1>1, <1>2, <1>3, WaitingEnds

\* What fullReconcile hands out and makes of the status.
LEMMA FullReconcileEffect ==
  ASSUME Typed, RoundKnows, pc = "act", FullReconcile
  PROVE  /\ HandsOut({"desired"}) /\ RoundEnds /\ status' \in StatusType
         /\ faults' \in 0..MaxFaults
         /\ \E b \in BOOLEAN :
              /\ status.initialized => b
              /\ Becomes([status EXCEPT !.bootstrapped = TRUE, !.initialized = b])
<1>1. cp.status = status /\ status \in StatusType
  BY DEF RoundKnows, Typed
<1>2. \A b \in BOOLEAN : [status EXCEPT !.bootstrapped = TRUE,
                                        !.initialized = b] \in StatusType
  BY <1>1 DEF StatusType
<1>3. /\ [status EXCEPT !.bootstrapped = TRUE] =
           [status EXCEPT !.bootstrapped = TRUE,
                          !.initialized = status.initialized]
      /\ status.initialized \in BOOLEAN
  BY <1>1 DEF StatusType
<1>4. [[status EXCEPT !.bootstrapped = TRUE] EXCEPT !.initialized = TRUE] =
        [status EXCEPT !.bootstrapped = TRUE, !.initialized = TRUE]
  BY <1>1 DEF StatusType
<1>5. \E b \in BOOLEAN :
        /\ status.initialized => b
        /\ Waiting([status EXCEPT !.bootstrapped = TRUE, !.initialized = b])
  <2>1. CASE Waiting(Bootstrapped)
    BY <1>1, <1>3, <2>1 DEF Bootstrapped
  <2>2. CASE Waiting([Bootstrapped EXCEPT !.initialized = TRUE])
    BY <1>1, <1>4, <2>2 DEF Bootstrapped
  <2>3. QED
    BY <2>1, <2>2 DEF FullReconcile, ReconcileServers, ReconcileWorkers,
       MarkInitialized
<1>6. HandsOut({"desired"})
  <2>1. ASSUME NEW tier \in SUBSET Machines, Reconcile(tier)
        PROVE  HandsOut({"desired"})
    <3>1. Turned(tier) \in SUBSET Machines
      BY TurnedInTier
    <3>2. QED
      BY <2>1, <3>1, DesiredHandedOut DEF Reconcile, Limits
  <2>2. CASE ReconcileServers
    <3>1. PICK t \in DOMAIN ServerTiers :
            Reconcile(ServerTiers[t])
      BY <2>2 DEF ReconcileServers
    <3>2. ServerTiers[t] \in SUBSET Machines
      BY RoundAssumption DEF ServerTiers
    <3>3. QED
      BY <2>1, <3>1, <3>2
  <2>3. CASE ReconcileWorkers
    BY <2>1, <2>3 DEF ReconcileWorkers, Workers
  <2>4. CASE MarkInitialized
    BY <2>4, NothingAssigned DEF MarkInitialized
  <2>5. QED
    BY <2>2, <2>3, <2>4 DEF FullReconcile
<1>7. QED
  BY <1>2, <1>5, <1>6, WaitingEnds

LEMMA RestoreEffect ==
  ASSUME Typed, RoundKnows, EtcdRestoreStep
  PROVE  /\ RoundOver /\ KeepsOthers
         /\ \/ RestoreAsks \/ RestoreBegins \/ RestoreShutsDown \/ RestoreRuns
            \/ CleansPods \/ CleansNodes \/ Restarts
<1> USE DEF KeepsRequest, KeepsRestore, KeepsOthers
<1>1. /\ pc = "act" /\ cp.status = status /\ status \in StatusType
      /\ cp.asked \in Requests /\ PlannerOnly
  BY DEF RoundKnows, Typed, EtcdRestoreStep, ResetRestore, StartRestore,
         Uninitialize, StopServices, StopRefused, AwaitStopped, EndShutdown,
         RunRestore, CleanUpPods, CleanUpNodes, RestartStep, EndRestart,
         Turn, RestoreIn, Restarting
<1>2. /\ cp.asked["restore"] \in Nat /\ status.config \in Nat
      /\ cp.asked["restore"] # 0 => cp.asked["restore"] \in Gens["restore"]
  BY <1>1 DEF Requests, Operations, StatusType
<1>3. \A ph \in RestorePhases, g, c \in Nat, i, b \in BOOLEAN :
        [status EXCEPT !.restPhase = ph, !.restFor = g, !.config = c,
                       !.initialized = i, !.bootstrapped = b] \in StatusType
  BY <1>1 DEF StatusType
<1>4. ASSUME NEW s \in StatusType, Waiting(s) \/ Failing
      PROVE  /\ RoundEnds /\ Becomes(s) /\ status' \in StatusType
             /\ faults' \in 0..MaxFaults
  BY <1>4, WaitingEnds
<1>5. ASSUME NEW ph \in RestorePhases
      PROVE  /\ RestoreState(ph) \in StatusType
             /\ RestoreState(ph).restFor = status.restFor
             /\ RestoreState(ph).restPhase = ph
             /\ RestoreState(ph).config = status.config
             /\ RestoreState(ph).initialized = status.initialized
             /\ RestoreState(ph).certs = status.certs
             /\ RestoreState(ph).snapPhase = status.snapPhase
  BY <1>1 DEF RestoreState, StatusType
<1>6. CASE ResetRestore
  <2> DEFINE s == [RestoreState("") EXCEPT !.restFor = 0]
  <2>1. /\ s \in StatusType /\ s.restFor = 0 /\ s.restPhase = ""
        /\ s.config = status.config /\ s.initialized = status.initialized
        /\ s.certs = status.certs /\ s.snapPhase = status.snapPhase
    BY <1>1 DEF RestoreState, StatusType, RestorePhases
  <2>2. Waiting(s) /\ UNCHANGED <<paused, secret>> /\ cp.asked["restore"] = 0
    BY <1>6 DEF ResetRestore, RestoreAsked
  <2> HIDE DEF s
  <2>3. /\ RoundEnds /\ Becomes(s) /\ status' \in StatusType
        /\ faults' \in 0..MaxFaults
    BY <1>4, <2>1, <2>2
  <2>4. QED
    BY <1>1, <2>1, <2>2, <2>3, BecomesFields DEF RoundOver, RestoreAsks, Typed
<1>7. CASE StartRestore
  <2> DEFINE g == cp.asked["restore"]
             s == [RestoreState("Started") EXCEPT !.restFor = g]
  <2>1. /\ s \in StatusType /\ s.restFor = g /\ s.restPhase = "Started"
        /\ s.config = status.config /\ s.initialized = status.initialized
        /\ s.certs = status.certs /\ s.snapPhase = status.snapPhase
    BY <1>1, <1>2 DEF RestoreState, StatusType, RestorePhases
  <2>2. Waiting(s) /\ UNCHANGED <<paused, secret>> /\ g # 0
        /\ status.restFor # g
    BY <1>1, <1>7 DEF StartRestore, RestoreAsked
  <2> HIDE DEF s
  <2>3. /\ RoundEnds /\ Becomes(s) /\ status' \in StatusType
        /\ faults' \in 0..MaxFaults
    BY <1>4, <2>1, <2>2
  <2>4. QED
    BY <1>1, <2>1, <2>2, <2>3, BecomesFields DEF RoundOver, RestoreAsks, Typed
<1>8. CASE Uninitialize
  <2> DEFINE s == [RestoreState("Shutdown") EXCEPT !.initialized = FALSE]
  <2>1. /\ s \in StatusType /\ s.restFor = status.restFor
        /\ s.restPhase = "Shutdown" /\ s.initialized = FALSE
        /\ s.config = status.config
        /\ s.certs = status.certs /\ s.snapPhase = status.snapPhase
    BY <1>1, <1>2 DEF RestoreState, StatusType, RestorePhases
  <2>2. Waiting(s) /\ UNCHANGED <<paused, secret>>
        /\ status.restPhase = "Started"
    BY <1>1, <1>8 DEF Uninitialize, RestoreIn
  <2> HIDE DEF s
  <2>3. /\ RoundEnds /\ Becomes(s) /\ status' \in StatusType
        /\ faults' \in 0..MaxFaults
    BY <1>4, <2>1, <2>2
  <2>4. QED
    BY <1>1, <2>1, <2>2, <2>3, BecomesFields DEF RoundOver, RestoreBegins, Typed
<1>9. CASE StopServices \/ StopRefused \/ AwaitStopped \/ EndShutdown
  <2>1. status.restPhase = "Shutdown" /\ UNCHANGED paused
    BY <1>1, <1>9 DEF StopServices, StopRefused, AwaitStopped, EndShutdown,
                      RestoreIn
  <2>2. HandsOut({"stop"})
    <3>1. CASE UNCHANGED secret
      BY <3>1, NothingAssigned
    <3>2. ASSUME NEW ms \in SUBSET Machines,
                 Assign(ms, [m \in Machines |-> StopPlan], "forever")
          PROVE  HandsOut({"stop"})
      <4>1. \A m \in ms : StopPlan \in PlansOf(m)
        BY PlansAre
      <4>2. StopPlan.kind = "stop" /\ "forever" \in Limits
        BY DEF StopPlan, Plan, Limits
      <4>3. QED
        BY <3>2, <4>1, <4>2, OnePlanAssigned
    <3>3. QED
      BY <1>9, <3>1, <3>2 DEF StopServices, StopRefused, AwaitStopped,
         EndShutdown, NotStopping
  <2>3. CASE EndShutdown
    <3> DEFINE s == [RestoreState("Restore") EXCEPT !.bootstrapped = FALSE]
    <3>1. /\ s \in StatusType /\ s.restFor = status.restFor
          /\ s.restPhase = "Restore" /\ s.initialized = status.initialized
          /\ s.config = status.config
          /\ s.certs = status.certs /\ s.snapPhase = status.snapPhase
      BY <1>1, <1>2 DEF RestoreState, StatusType, RestorePhases
    <3>2. Waiting(s) /\ UNCHANGED secret
          /\ \A m \in Machines : Carried(m, StopPlan)
      BY <2>3 DEF EndShutdown, NotStopping, NeedsPlan, Carried
    <3> HIDE DEF s
    <3>3. /\ RoundEnds /\ Becomes(s) /\ status' \in StatusType
          /\ faults' \in 0..MaxFaults
      BY <1>4, <3>1, <3>2
    <3>4. QED
      BY <1>1, <2>1, <2>2, <3>1, <3>2, <3>3, BecomesFields
         DEF RoundOver, RestoreShutsDown, Typed
  <2>4. CASE StopServices \/ AwaitStopped
    <3>1. Waiting(status)
      BY <1>1, <2>4 DEF StopServices, AwaitStopped
    <3>2. /\ RoundEnds /\ Becomes(status) /\ status' \in StatusType
          /\ faults' \in 0..MaxFaults
      BY <1>1, <1>4, <3>1
    <3>3. QED
      BY <1>1, <2>1, <2>2, <3>2, BecomesFields
         DEF RoundOver, RestoreShutsDown, Typed
  <2>5. CASE StopRefused
    <3>1. RoundEnds /\ UNCHANGED status /\ faults' \in 0..MaxFaults
      BY <2>5, RoundAssumption DEF StopRefused, Fault, Typed
    <3>2. QED
      BY <1>1, <2>1, <2>2, <3>1 DEF RoundOver, RestoreShutsDown, Typed
  <2>6. QED
    BY <1>9, <2>3, <2>4, <2>5
<1>10. CASE RunRestore
  <2> DEFINE s == [RestoreState("PostRestorePodCleanup") EXCEPT !.config = @ + 1]
             p == Plan("restore", "", status.restFor)
  <2>1. /\ s \in StatusType /\ s.restFor = status.restFor
        /\ s.restPhase = "PostRestorePodCleanup"
        /\ s.initialized = status.initialized
        /\ s.config = status.config + 1
        /\ s.certs = status.certs /\ s.snapPhase = status.snapPhase
    <3>1. "PostRestorePodCleanup" \in RestorePhases
      BY DEF RestorePhases
    <3>2. \A r \in StatusType : LET t == [r EXCEPT !.config = @ + 1]
            IN /\ t \in StatusType /\ t.restFor = r.restFor
               /\ t.restPhase = r.restPhase /\ t.initialized = r.initialized
               /\ t.config = r.config + 1
               /\ t.certs = r.certs /\ t.snapPhase = r.snapPhase
      BY DEF StatusType
    <3>3. QED
      BY <1>5, <3>1, <3>2
  <2>2. /\ RunOn(InitNode, p, s) /\ paused' = TRUE
        /\ status.restPhase = "Restore" /\ status.restFor \in Gens["restore"]
    BY <1>1, <1>2, <1>10 DEF RunRestore, RestoreIn, RestorePlan, RestoreAsked
  <2>3. InitNode \in Machines /\ Gens["restore"] \subseteq Nat
    BY RoundAssumption DEF Operations
  <2>4. p \in PlansOf(InitNode)
    BY <2>2, <2>3, PlansAre
  <2>5. p.kind = "restore" /\ p.gen = status.restFor
    BY DEF Plan
  <2> HIDE DEF s, p
  <2>6. /\ HandsOut({"restore"}) /\ RoundEnds /\ status' \in StatusType
        /\ faults' \in 0..MaxFaults
        /\ Becomes(status) \/ (Becomes(s) /\ Carried(InitNode, p))
    BY <1>1, <2>1, <2>2, <2>3, <2>4, <2>5, RunOnEffect
  <2>7. RoundOver
    BY <1>1, <2>2, <2>6 DEF RoundOver
  <2>8. CASE Becomes(status)
    BY <1>1, <2>2, <2>6, <2>7, <2>8, BecomesFields DEF RestoreRuns
  <2>9. CASE Becomes(s) /\ Carried(InitNode, p)
    BY <2>1, <2>2, <2>6, <2>7, <2>9, BecomesFields DEF RestoreRuns, p
  <2>10. QED
    BY <2>6, <2>8, <2>9
<1>11. CASE CleanUpPods
  <2> DEFINE s == RestoreState("InitialRestartCluster")
             kinds == {"podcleanup", "desired"}
             Cleanup == Plan("podcleanup", "", status.config)
             Desired == Plan("desired", "", status.config)
             m == First(ControlPlane)
  <2>1. InitNode \in Machines /\ m \in Machines /\ "InitialRestartCluster" \in RestorePhases
    BY RoundAssumption, FirstIn DEF RestorePhases
  <2>2. s \in StatusType
    BY <1>5, <2>1
  <2>3. CleanupPlan("podcleanup") = Cleanup /\ DesiredPlan(cp.status) = Desired
    BY <1>1 DEF CleanupPlan, DesiredPlan
  <2>4. /\ Cleanup \in PlansOf(InitNode) /\ Cleanup \in PlansOf(m)
        /\ Desired \in PlansOf(InitNode)
    BY <1>2, <2>1, PlansAre
  <2>5. /\ Cleanup.kind = "podcleanup" /\ Cleanup.gen = status.config
        /\ Desired.kind = "desired" /\ Desired.gen = status.config
    BY DEF Plan
  <2>6. /\ UNCHANGED paused /\ status.restPhase = "PostRestorePodCleanup"
        /\ \/ RunOn(InitNode, Cleanup, s)
           \/ RunOn(m, Cleanup, s) /\ Carried(InitNode, Desired)
           \/ RunOn(InitNode, Desired, status)
    BY <1>1, <1>11, <2>3 DEF CleanUpPods, RestoreIn
  <2> HIDE DEF s, Cleanup, Desired, m
  <2>7. /\ HandsOut(kinds) /\ RoundEnds /\ status' \in StatusType
        /\ faults' \in 0..MaxFaults
        /\ \/ Becomes(status)
           \/ /\ Becomes(s)
              /\ Carried(InitNode, Cleanup) \/ Carried(InitNode, Desired)
    <3>1. CASE RunOn(InitNode, Cleanup, s)
      BY <1>1, <2>1, <2>2, <2>4, <2>5, <3>1, RunOnEffect
    <3>2. CASE RunOn(m, Cleanup, s) /\ Carried(InitNode, Desired)
      BY <1>1, <2>1, <2>2, <2>4, <2>5, <3>2, RunOnEffect
    <3>3. CASE RunOn(InitNode, Desired, status)
      BY <1>1, <2>1, <2>2, <2>4, <2>5, <3>3, RunOnEffect
    <3>4. QED
      BY <2>6, <3>1, <3>2, <3>3
  <2>8. RoundOver
    BY <1>1, <2>6, <2>7 DEF RoundOver, Typed
  <2>9. CASE Becomes(status)
    BY <1>1, <2>6, <2>7, <2>8, <2>9, BecomesFields DEF CleansPods
  <2>10. CASE /\ Becomes(s)
              /\ Carried(InitNode, Cleanup) \/ Carried(InitNode, Desired)
    <3>1. \E k \in {"podcleanup", "desired"} :
            Carried(InitNode, Plan(k, "", status.config))
      BY <2>10 DEF Cleanup, Desired
    <3>2. QED
      BY <1>5, <2>1, <2>2, <2>6, <2>7, <2>8, <2>10, <3>1, BecomesFields
         DEF CleansPods, s
  <2>11. QED
    BY <2>7, <2>9, <2>10
<1>12. CASE CleanUpNodes
  <2> DEFINE s == RestoreState("RestartCluster")
             p == Plan("nodecleanup", "", status.config)
  <2>1. InitNode \in Machines /\ "RestartCluster" \in RestorePhases
    BY RoundAssumption DEF RestorePhases
  <2>2. s \in StatusType
    BY <1>5, <2>1
  <2>3. /\ p \in PlansOf(InitNode) /\ p.kind = "nodecleanup"
        /\ p.gen = status.config
    BY <1>2, <2>1, PlansAre DEF Plan
  <2>4. /\ UNCHANGED paused /\ status.restPhase = "PostRestoreNodeCleanup"
        /\ RunOn(InitNode, p, s)
    BY <1>1, <1>12 DEF CleanUpNodes, RestoreIn, CleanupPlan
  <2> HIDE DEF s, p
  <2>5. /\ HandsOut({"nodecleanup"}) /\ RoundEnds /\ status' \in StatusType
        /\ faults' \in 0..MaxFaults
        /\ Becomes(status) \/ Becomes(s)
    BY <1>1, <2>1, <2>2, <2>3, <2>4, RunOnEffect
  <2>6. RoundOver
    BY <1>1, <2>4, <2>5 DEF RoundOver, Typed
  <2>7. CASE Becomes(status)
    BY <1>1, <2>4, <2>5, <2>6, <2>7, BecomesFields DEF CleansNodes
  <2>8. CASE Becomes(s)
    BY <1>5, <2>1, <2>2, <2>4, <2>5, <2>6, <2>8, BecomesFields
       DEF CleansNodes, s
  <2>9. QED
    BY <2>5, <2>7, <2>8
<1>13. CASE RestartStep
  <2>1. /\ paused' = FALSE /\ FullReconcile
        /\ status.restPhase \in {"InitialRestartCluster", "RestartCluster"}
    BY <1>1, <1>13 DEF RestartStep, Restarting, RestoreIn
  <2>2. PICK b \in BOOLEAN :
          /\ HandsOut({"desired"}) /\ RoundEnds /\ status' \in StatusType
          /\ faults' \in 0..MaxFaults
          /\ Becomes([status EXCEPT !.bootstrapped = TRUE, !.initialized = b])
    BY <1>1, <2>1, FullReconcileEffect
  <2> DEFINE s == [status EXCEPT !.bootstrapped = TRUE, !.initialized = b]
  <2>3. /\ s \in StatusType /\ s.restFor = status.restFor
        /\ s.restPhase = status.restPhase /\ s.config = status.config
        /\ s.certs = status.certs /\ s.snapPhase = status.snapPhase
    BY <1>1 DEF StatusType
  <2>4. Becomes(s)
    BY <2>2
  <2> HIDE DEF s
  <2>5. QED
    BY <1>1, <2>1, <2>2, <2>3, <2>4, BecomesFields DEF RoundOver, Restarts
<1>14. CASE EndRestart
  <2> DEFINE s == RestoreState(IF RestoreIn("RestartCluster") THEN "Finished"
                               ELSE "PostRestoreNodeCleanup")
  <2>1. /\ status.restPhase \in {"InitialRestartCluster", "RestartCluster"}
        /\ status.restFor = cp.asked["restore"] /\ status.restFor # 0
        /\ RestoreIn("RestartCluster") <=> status.restPhase = "RestartCluster"
    BY <1>1, <1>14 DEF EndRestart, Restarting, RestoreIn, RestoreAsked, Turn
  <2>2. paused' = FALSE /\ UNCHANGED secret /\ Waiting(s)
    BY <1>14 DEF EndRestart
  <2>3. \A m \in Machines : Carried(m, Plan("desired", "", status.config))
    BY <1>1, <1>14 DEF EndRestart, FullyReconciled, Behind, DesiredPlan
  <2>4. /\ s \in StatusType /\ s.restFor = status.restFor
        /\ s.restPhase = IF status.restPhase = "RestartCluster" THEN "Finished"
                         ELSE "PostRestoreNodeCleanup"
        /\ s.initialized = status.initialized
        /\ s.config = status.config
        /\ s.certs = status.certs /\ s.snapPhase = status.snapPhase
    BY <1>5, <2>1 DEF RestorePhases
  <2>5. HandsOut({"desired"})
    BY <2>2, NothingAssigned
  <2> HIDE DEF s
  <2>6. /\ RoundEnds /\ Becomes(s) /\ status' \in StatusType
        /\ faults' \in 0..MaxFaults
    BY <1>4, <2>2, <2>4
  <2>7. QED
    BY <1>1, <2>1, <2>2, <2>3, <2>4, <2>5, <2>6, BecomesFields
       DEF RoundOver, Restarts
<1>15. QED
  BY <1>6, <1>7, <1>8, <1>9, <1>10, <1>11, <1>12, <1>13, <1>14
     DEF EtcdRestoreStep

\* A rotation of certificates pauses while it hands out its plans, and answers
\* when all of them are carried out.
RotatesCerts ==
  /\ status.initialized /\ KeepsRestore /\ UNCHANGED status.snapPhase
  /\ \/ paused' = TRUE /\ HandsOut({"certs"}) /\ UNCHANGED status.certs
     \/ /\ paused' = FALSE /\ UNCHANGED secret /\ cp.asked["certs"] # 0
        /\ \/ UNCHANGED status.certs
           \/ /\ edits = cp.edits /\ status'.certs = cp.asked["certs"]
              /\ \A m \in CertScope : Carried(m, CertPlan(cp.asked["certs"]))

LEMMA CertsEffect ==
  ASSUME Typed, RoundKnows, CertRotationStep
  PROVE  RoundOver /\ RotatesCerts
<1> USE DEF KeepsRequest, KeepsRestore
<1> DEFINE g == cp.asked["certs"]
<1>1. /\ pc = "act" /\ cp.status = status /\ status \in StatusType
      /\ cp.asked \in Requests /\ PlannerOnly
      /\ status.initialized /\ g # 0
  BY DEF RoundKnows, Typed, CertRotationStep, RotateNext, CertsDone, Turn,
         CertsDue
<1>2. g \in Nat /\ g \in Gens["certs"]
  BY <1>1 DEF Requests, Operations
<1>3. CASE RotateNext
  <2> DEFINE m == NextIn(CertTiers, NotRotated)
             p == CertPlan(g)
             ms == {n \in {m} : NeedsPlan(n, p)}
  <2>1. NotRotated \in SUBSET Machines /\ NotRotated # {}
    BY <1>3, CertAssumption DEF RotateNext, NotRotated
  <2>2. m \in Machines /\ m \in CertScope
    BY <2>1, NextRotated DEF NotRotated
  <2>3. p \in PlansOf(m) /\ p.kind = "certs"
    BY <1>2, <2>2, PlansAre DEF CertPlan, Plan
  <2>4. /\ Assign(ms, [n \in Machines |-> p], "forever") /\ paused' = TRUE
        /\ Failing \/ Waiting(status)
    BY <1>1, <1>3 DEF RotateNext
  <2>5. ms \in SUBSET Machines /\ (\A n \in ms : p \in PlansOf(n))
        /\ "forever" \in Limits
    BY <2>2, <2>3 DEF Limits
  <2> HIDE DEF ms, p, m
  <2>6. HandsOut({"certs"})
    BY <2>3, <2>4, <2>5, OnePlanAssigned
  <2>7. /\ RoundEnds /\ Becomes(status) /\ status' \in StatusType
        /\ faults' \in 0..MaxFaults
    BY <1>1, <2>4, WaitingEnds
  <2>8. QED
    BY <1>1, <2>4, <2>6, <2>7, BecomesFields DEF RoundOver, RotatesCerts
<1>4. CASE CertsDone
  <2> DEFINE s == [status EXCEPT !.certs = g]
  <2>1. /\ Waiting(s) /\ paused' = FALSE /\ UNCHANGED secret
        /\ \A m \in CertScope : Carried(m, CertPlan(g))
    BY <1>1, <1>4 DEF CertsDone, NotRotated
  <2>2. /\ s \in StatusType /\ s.certs = g /\ s.restFor = status.restFor
        /\ s.restPhase = status.restPhase /\ s.config = status.config
        /\ s.snapPhase = status.snapPhase
        /\ s.initialized = status.initialized
    BY <1>1, <1>2 DEF StatusType
  <2> HIDE DEF s
  <2>3. /\ RoundEnds /\ Becomes(s) /\ status' \in StatusType
        /\ faults' \in 0..MaxFaults
    BY <1>1, <2>1, <2>2, WaitingEnds
  <2>4. QED
    BY <1>1, <2>1, <2>2, <2>3, BecomesFields DEF RoundOver, RotatesCerts
<1>5. QED
  BY <1>3, <1>4 DEF CertRotationStep

\* A rotation of encryption keys leaves everything else alone, and does not
\* even touch the pause while the control plane is not initialized.
RotatesKeys ==
  /\ HandsOut({"encrypt", "restart"}) /\ KeepsRestore /\ KeepsOthers
  /\ ~status.initialized => UNCHANGED paused

LEMMA LeaderLeads ==
  ASSUME NEW phases, RotationIn(phases)
  PROVE  Leader \in ControlPlane /\ Leader \in Machines
<1>1. Suitable \in SUBSET Machines
  BY RoundAssumption DEF Suitable
<1>2. HasLeader \/ InitNode \in ControlPlane \/ Suitable # {}
  BY DEF RotationIn, MayElect
<1>3. Suitable # {} => First(Suitable) \in Suitable
  BY <1>1, FirstIn
<1>4. QED
  BY <1>1, <1>2, <1>3, RoundAssumption DEF Leader, HasLeader, Suitable

LEMMA ElectedLeads ==
  ASSUME HasLeader \/ MayElect
  PROVE  Leader \in ControlPlane
<1>1. Suitable \in SUBSET Machines
  BY RoundAssumption DEF Suitable
<1>2. HasLeader \/ InitNode \in ControlPlane \/ Suitable # {}
  BY DEF MayElect
<1>3. Suitable # {} => First(Suitable) \in Suitable
  BY <1>1, FirstIn
<1>4. QED
  BY <1>1, <1>2, <1>3 DEF Leader, HasLeader, Suitable

LEMMA KeysEffect ==
  ASSUME Typed, RoundKnows, KeyRotationStep
  PROVE  RoundOver /\ RotatesKeys
<1> USE DEF KeepsRequest, KeepsRestore, KeepsOthers
<1> DEFINE kinds == {"encrypt", "restart"}
           Same(s) ==
             /\ s \in StatusType /\ s.restFor = status.restFor
             /\ s.restPhase = status.restPhase /\ s.config = status.config
             /\ s.snapPhase = status.snapPhase /\ s.certs = status.certs
             /\ s.initialized = status.initialized
<1>1. /\ pc = "act" /\ cp.status = status /\ status \in StatusType
      /\ cp.asked \in Requests /\ PlannerOnly
  BY DEF RoundKnows, Typed, KeyRotationStep, ResetKeys, RefuseKeys, StartKeys,
         NoLeader, ElectLeader, RunCommand, RestartNext, EndRestarts, Turn,
         RotationIn, Rotates
<1>2. KeysAsked \in Nat
  BY <1>1 DEF Requests, Operations, KeysAsked
<1>3. ASSUME NEW s, Same(s), Waiting(s) \/ Failing
      PROVE  /\ RoundEnds /\ status' \in StatusType /\ faults' \in 0..MaxFaults
             /\ KeepsRestore /\ KeepsOthers
  <2>1. /\ RoundEnds /\ Becomes(s) /\ status' \in StatusType
        /\ faults' \in 0..MaxFaults
    BY <1>3, WaitingEnds
  <2>2. QED
    BY <1>3, <2>1, BecomesFields
<1>4. Same(status)
  BY <1>1
<1>5. ASSUME NEW ph \in KeyPhases PROVE Same(KeysState(ph))
  BY <1>1, <1>2 DEF KeysState, StatusType
<1>6. ASSUME UNCHANGED secret PROVE HandsOut(kinds)
  BY <1>6, NothingAssigned
<1>7. \A l \in ControlPlane \cup {Nobody} : Same([status EXCEPT !.leader = l])
  BY <1>1 DEF StatusType
<1> HIDE DEF Same
<1>8. CASE ResetKeys \/ RefuseKeys \/ StartKeys
  <2>1. "" \in KeyPhases /\ "Failed" \in KeyPhases /\ "Prepare" \in KeyPhases
    BY PhasesKnown
  <2>2. /\ UNCHANGED <<paused, secret>>
        /\ \E ph \in KeyPhases : Waiting(KeysState(ph))
    BY <1>8, <2>1 DEF ResetKeys, RefuseKeys, StartKeys
  <2>3. QED
    BY <1>1, <1>3, <1>5, <1>6, <2>2 DEF RoundOver, RotatesKeys, Typed
<1>9. CASE NoLeader
  BY <1>1, <1>3, <1>4, <1>6, <1>9 DEF NoLeader, RoundOver, RotatesKeys, Typed
<1>10. CASE ElectLeader
  <2>1. Leader \in ControlPlane
    BY <1>10, ElectedLeads DEF ElectLeader
  <2>2. Waiting([status EXCEPT !.leader = Leader]) /\ UNCHANGED <<paused, secret>>
    BY <1>1, <1>10 DEF ElectLeader
  <2>3. QED
    BY <1>1, <1>3, <1>6, <1>7, <2>1, <2>2 DEF RoundOver, RotatesKeys, Typed
<1>11. CASE RunCommand
  <2> DEFINE p == PhasePlan("encrypt")
             ms == {m \in {Leader} : NeedsPlan(m, p)}
  <2>1. RotationIn(CommandPhases) /\ paused' \in BOOLEAN
    BY <1>11 DEF RunCommand, Typed
  <2>2. status.keysPhase \in CommandPhases /\ status.initialized
    BY <1>1, <2>1 DEF RotationIn, Rotates
  <2>3. p = Plan("encrypt", status.keysPhase, KeysAsked)
    BY <1>1 DEF PhasePlan
  <2>4. ms \in SUBSET Machines /\ (\A m \in ms : p \in PlansOf(m))
        /\ p.kind = "encrypt"
    BY <1>1, <1>2, <2>1, <2>2, <2>3, LeaderLeads, PlansAre DEF PhasePlan, Plan
  <2>5. Assign(ms, [m \in Machines |-> p], "few") /\ "few" \in Limits
    BY <1>11 DEF RunCommand, Limits
  <2>6. \/ Failing \/ Waiting(status)
        \/ Waiting(KeysState(NextPhase[status.keysPhase]))
    BY <1>1, <1>11 DEF RunCommand
  <2>7. NextPhase[status.keysPhase] \in KeyPhases
    BY <2>2, PhasesKnown
  <2> HIDE DEF ms, p
  <2>8. HandsOut(kinds)
    BY <2>4, <2>5, OnePlanAssigned
  <2>9. /\ RoundEnds /\ status' \in StatusType /\ faults' \in 0..MaxFaults
        /\ KeepsRestore /\ KeepsOthers
    BY <1>3, <1>4, <1>5, <2>6, <2>7
  <2>10. QED
    BY <1>1, <2>1, <2>2, <2>8, <2>9 DEF RoundOver, RotatesKeys
<1>12. CASE RestartNext
  <2> DEFINE m == NextIn(RestartTiers, NotRestarted)
             p == RestartPlan(m)
             ms == {n \in {m} : NeedsPlan(n, p) /\ ~StageDiffers} \cap Machines
  <2>1. RotationIn(RestartPhases) /\ UNCHANGED paused
        /\ (Failing \/ Waiting(status))
    BY <1>1, <1>12 DEF RestartNext
  <2>2. status.keysPhase \in KeyPhases
    BY <1>1 DEF StatusType
  <2>3. view[Leader].out \in KeyStages \cup {""}
    BY <2>1, LeaderLeads DEF Typed, SecretType
  <2>4. \A n \in Machines : p \in PlansOf(n)
    <3> DEFINE a == IF m \in Followers THEN view[Leader].out ELSE ""
    <3>1. a \in KeyStages \cup {""}
      BY <2>3
    <3>2. p = [Plan("restart", status.keysPhase, KeysAsked) EXCEPT !.arg = a]
      BY <1>1 DEF RestartPlan, PhasePlan
    <3> HIDE DEF a, p
    <3>3. QED
      BY <1>2, <2>2, <3>1, <3>2, PlansAre
  <2>5. p.kind = "restart"
    BY DEF RestartPlan, PhasePlan, Plan
  <2>6. Assign(ms, [n \in Machines |-> p], "few") /\ "few" \in Limits
    BY <1>12 DEF RestartNext, Limits, Assign
  <2>7. ms \in SUBSET Machines
    OBVIOUS
  <2> HIDE DEF ms, p, m
  <2>8. HandsOut(kinds)
    BY <2>4, <2>5, <2>6, <2>7, OnePlanAssigned
  <2>9. /\ RoundEnds /\ status' \in StatusType /\ faults' \in 0..MaxFaults
        /\ KeepsRestore /\ KeepsOthers
    BY <1>3, <1>4, <2>1
  <2>10. QED
    BY <1>1, <2>1, <2>8, <2>9 DEF RoundOver, RotatesKeys, Typed
<1>13. CASE EndRestarts
  <2> DEFINE next == NextPhase[status.keysPhase]
             l == IF next = "Done" THEN Nobody ELSE KeysState(next).leader
             s == [KeysState(next) EXCEPT !.leader = l]
  <2>1. /\ RotationIn(RestartPhases) /\ UNCHANGED secret
        /\ paused' \in BOOLEAN
        /\ Failing \/ Waiting(s)
    BY <1>1, <1>13 DEF EndRestarts, Typed
  <2>2. status.keysPhase \in DOMAIN NextPhase /\ status.initialized
    BY <1>1, <2>1 DEF RotationIn, Rotates, RestartPhases
  <2>3. Same(KeysState(next))
    BY <1>5, <2>2, PhasesKnown
  <2>4. l \in ControlPlane \cup {Nobody}
    BY <2>3 DEF Same, StatusType
  <2>5. Same(s)
    <3> HIDE DEF l, next
    <3>1. QED
      BY <2>3, <2>4 DEF Same, StatusType
  <2> HIDE DEF s
  <2>6. QED
    BY <1>1, <1>3, <1>6, <2>1, <2>2, <2>5 DEF RoundOver, RotatesKeys
<1>14. QED
  BY <1>8, <1>9, <1>10, <1>11, <1>12, <1>13 DEF KeyRotationStep

\* The rollout does nothing while the CAPI cluster is paused.
RollsOut ==
  /\ HandsOut({"desired"}) /\ KeepsRequest /\ KeepsOthers /\ UNCHANGED paused
  /\ paused => UNCHANGED <<secret, status.initialized>>
  /\ status.initialized => status'.initialized

LEMMA RolloutEffect ==
  ASSUME Typed, RoundKnows, WaitPaused \/ RolloutStep \/ FinishRound
  PROVE  RoundOver /\ RollsOut
<1> USE DEF KeepsRequest, KeepsOthers
<1>1. /\ pc = "act" /\ cp.status = status /\ status \in StatusType
      /\ cp.paused = paused /\ PlannerOnly /\ UNCHANGED paused
  BY DEF RoundKnows, Typed, WaitPaused, RolloutStep, FinishRound, Turn
<1>2. CASE WaitPaused \/ FinishRound
  <2> DEFINE s == IF WaitPaused THEN status
                  ELSE [status EXCEPT !.bootstrapped = TRUE]
  <2>1. UNCHANGED secret /\ (Waiting(s) \/ Completed(s))
    BY <1>1, <1>2 DEF WaitPaused, FinishRound, Bootstrapped
  <2>2. /\ s \in StatusType /\ s.restFor = status.restFor
        /\ s.restPhase = status.restPhase /\ s.config = status.config
        /\ s.snapPhase = status.snapPhase /\ s.certs = status.certs
        /\ s.initialized = status.initialized
    BY <1>1 DEF StatusType
  <2> HIDE DEF s
  <2>3. /\ RoundEnds /\ Becomes(s) /\ status' \in StatusType
        /\ faults' \in 0..MaxFaults
    BY <2>1, <2>2, WaitingEnds
  <2>4. HandsOut({"desired"})
    BY <2>1, NothingAssigned
  <2>5. QED
    BY <1>1, <2>1, <2>2, <2>3, <2>4, BecomesFields DEF RoundOver, RollsOut, Typed
<1>3. CASE RolloutStep
  <2>1. ~paused /\ FullReconcile
    BY <1>1, <1>3 DEF RolloutStep
  <2>2. PICK b \in BOOLEAN :
          /\ HandsOut({"desired"}) /\ RoundEnds /\ status' \in StatusType
          /\ faults' \in 0..MaxFaults
          /\ status.initialized => b
          /\ Becomes([status EXCEPT !.bootstrapped = TRUE, !.initialized = b])
    BY <1>1, <2>1, FullReconcileEffect
  <2> DEFINE s == [status EXCEPT !.bootstrapped = TRUE, !.initialized = b]
  <2>3. /\ s \in StatusType /\ s.restFor = status.restFor
        /\ s.restPhase = status.restPhase /\ s.config = status.config
        /\ s.certs = status.certs /\ s.snapPhase = status.snapPhase
        /\ s.initialized = b
    BY <1>1 DEF StatusType
  <2>4. Becomes(s)
    BY <2>2
  <2> HIDE DEF s
  <2>5. QED
    BY <1>1, <2>1, <2>2, <2>3, <2>4, BecomesFields DEF RoundOver, RollsOut, Typed
<1>4. QED
  BY <1>2, <1>3

LEMMA LeaveEffect ==
  ASSUME Typed, RoundKnows, LeaveDeleting
  PROVE  /\ RoundOver /\ UNCHANGED secret /\ paused' = FALSE /\ deleting
         /\ KeepsRestore /\ KeepsOthers
<1>1. /\ pc = "act" /\ cp.status = status /\ status \in StatusType /\ deleting
      /\ PlannerOnly /\ UNCHANGED secret /\ paused' = FALSE /\ Completed(status)
  BY DEF RoundKnows, Typed, LeaveDeleting, Turn
<1>2. /\ RoundEnds /\ Becomes(status) /\ status' \in StatusType
      /\ faults' \in 0..MaxFaults
  BY <1>1, WaitingEnds
<1>3. QED
  BY <1>1, <1>2, BecomesFields DEF RoundOver, KeepsRestore, KeepsRequest,
     KeepsOthers

LeavesAlone ==
  /\ UNCHANGED secret /\ paused' = FALSE /\ deleting
  /\ KeepsRestore /\ KeepsOthers

TakesSnapshots ==
  /\ UNCHANGED paused /\ HandsOut({"snapshot", "desired"})
  /\ KeepsRestore /\ UNCHANGED status.certs
  /\ ~status.initialized => UNCHANGED secret
  /\ status'.snapPhase = "RestartCluster" /\ status.snapPhase = "Started"
       => SnapshotTaken

Restores ==
  /\ KeepsOthers
  /\ \/ RestoreAsks \/ RestoreBegins \/ RestoreShutsDown \/ RestoreRuns
     \/ CleansPods \/ CleansNodes \/ Restarts

\* No restore is under way for a round that does anything else but snapshots.
NoRestore == status.restPhase \in {"", "Finished"}

LEMMA ActEffect ==
  ASSUME Typed, RoundKnows, Act
  PROVE  /\ RoundOver
         /\ \/ LeavesAlone \/ TakesSnapshots \/ Restores
            \/ NoRestore /\ RotatesCerts
            \/ NoRestore /\ RotatesKeys
            \/ NoRestore /\ RollsOut
<1>1. pc = "act" /\ cp.status = status
  BY DEF Act, RoundKnows
<1>2. RestoreIdle => NoRestore
  BY <1>1 DEF RestoreIdle, NoRestore
<1>3. CASE LeaveDeleting
  BY <1>3, LeaveEffect DEF LeavesAlone
<1>4. CASE EtcdCreateStep
  BY <1>4, CreateEffect DEF TakesSnapshots, KeepsRestore
<1>5. CASE ActRestore
  BY <1>5, RestoreEffect DEF ActRestore, Restores
<1>6. CASE ActCerts
  BY <1>2, <1>6, CertsEffect DEF ActCerts
<1>7. CASE ActKeys
  BY <1>2, <1>7, KeysEffect DEF ActKeys
<1>8. CASE ActRollout
  BY <1>2, <1>8, RolloutEffect DEF ActRollout
<1>9. QED
  BY <1>3, <1>4, <1>5, <1>6, <1>7, <1>8 DEF Act

LEMMA ActHandsOut ==
  ASSUME Typed, RoundKnows, Act
  PROVE  HandsOut(Kinds \ {"none"})
<1>1. CASE UNCHANGED secret
  BY <1>1, NothingAssigned
<1>2. ASSUME NEW kinds \in SUBSET (Kinds \ {"none"}), HandsOut(kinds)
      PROVE  HandsOut(Kinds \ {"none"})
  BY <1>2 DEF HandsOut
<1>3. \/ UNCHANGED secret
      \/ \E kinds \in SUBSET (Kinds \ {"none"}) : HandsOut(kinds)
  <2>1. CASE LeavesAlone \/ RestoreAsks \/ RestoreBegins
    BY <2>1 DEF LeavesAlone, RestoreAsks, RestoreBegins
  <2>2. CASE TakesSnapshots
    BY <2>2 DEF TakesSnapshots, Kinds
  <2>3. CASE RestoreShutsDown
    BY <2>3 DEF RestoreShutsDown, Kinds
  <2>4. CASE RestoreRuns
    BY <2>4 DEF RestoreRuns, Kinds
  <2>5. CASE CleansPods
    BY <2>5 DEF CleansPods, Kinds
  <2>6. CASE CleansNodes
    BY <2>6 DEF CleansNodes, Kinds
  <2>7. CASE Restarts
    BY <2>7 DEF Restarts, Kinds
  <2>8. CASE RotatesCerts
    BY <2>8 DEF RotatesCerts, Kinds
  <2>9. CASE RotatesKeys
    BY <2>9 DEF RotatesKeys, Kinds
  <2>10. CASE RollsOut
    BY <2>10 DEF RollsOut, Kinds
  <2>11. QED
    BY <2>1, <2>2, <2>3, <2>4, <2>5, <2>6, <2>7, <2>8, <2>9, <2>10, ActEffect
       DEF Restores
<1>4. QED
  BY <1>1, <1>2, <1>3

-----------------------------------------------------------------------------
(* The steps of the agents.                                                 *)

\* What an agent reports of the plan it has been working on.
LEMMA Reported ==
  ASSUME Typed, NEW m \in Machines, NEW out \in KeyStages \cup {""},
         AgentReports(m, out)
  PROVE  /\ secret' \in [Machines -> SecretType]
         /\ \A n \in Machines : secret'[n] \in SecretsOf(n)
         /\ \A n \in Machines \ {m} : secret'[n] = secret[n]
         /\ secret'[m].plan = secret[m].plan
         /\ secret'[m].limit = secret[m].limit
         /\ secret'[m].sum = working[m].plan
         /\ secret'[m].applied =
              (IF secret[m].plan = working[m].plan THEN working[m].plan
               ELSE secret[m].applied)
         /\ secret'[m].failed = NoPlan /\ secret'[m].out = out
         /\ working' = [working EXCEPT ![m] = Resting]
         /\ UNCHANGED <<requestVars, status, paused, unfit, readVars>>
<1> DEFINE p == working[m].plan
           a == IF secret[m].plan = p THEN p ELSE secret[m].applied
<1>1. p \in PlansOf(m) /\ secret \in [Machines -> SecretType]
      /\ secret[m] \in SecretsOf(m)
  BY DEF Typed
<1>2. secret' = [secret EXCEPT
                   ![m].sum = p, ![m].failed = NoPlan, ![m].out = out,
                   ![m].applied = IF secret[m].plan = p THEN p ELSE @]
  BY DEF AgentReports
<1>3. /\ secret'[m].plan = secret[m].plan
      /\ secret'[m].limit = secret[m].limit
      /\ secret'[m].sum = p
      /\ secret'[m].applied = a
      /\ secret'[m].failed = NoPlan /\ secret'[m].out = out
      /\ secret'[m] = Secret(secret'[m].plan, secret'[m].limit,
            secret'[m].applied, secret'[m].sum, secret'[m].failed,
            secret'[m].out)
  BY <1>1, <1>2 DEF SecretType, Secret
<1>4. \A n \in Machines \ {m} : secret'[n] = secret[n]
  BY <1>1, <1>2
<1>5. NoPlan \in PlansOf(m) /\ a \in PlansOf(m)
      /\ secret[m].plan \in PlansOf(m) /\ secret[m].limit \in Limits
  BY <1>1, PlansAre DEF SecretsOf
<1>6. secret'[m] \in SecretsOf(m)
  <2>1. Secret(secret[m].plan, secret[m].limit, a, p, NoPlan, out) \in SecretsOf(m)
    <3> HIDE DEF a, p
    <3>1. QED
      BY <1>1, <1>5, SecretsAre
  <2>2. QED
    BY <1>3, <2>1
<1>7. \A n \in Machines : SecretsOf(n) \subseteq SecretType
  BY DEF SecretsOf, SecretType, PlansOf
<1>8. \A n \in Machines : secret'[n] \in SecretsOf(n)
  BY <1>4, <1>6 DEF Typed
<1>9. secret' \in [Machines -> SecretType]
  BY <1>1, <1>2, <1>7, <1>8
<1>10. QED
  BY <1>3, <1>4, <1>8, <1>9 DEF AgentReports

\* What it reports of one that has failed.
LEMMA ReportedFailed ==
  ASSUME Typed, NEW m \in Machines, PlanFails(m)
  PROVE  /\ secret' \in [Machines -> SecretType]
         /\ \A n \in Machines :
              /\ secret'[n] \in SecretsOf(n)
              /\ secret'[n].plan = secret[n].plan
              /\ secret'[n].sum = secret[n].sum
              /\ secret'[n].applied = secret[n].applied
              /\ secret'[n].out = secret[n].out
         /\ working' = [working EXCEPT ![m] = Resting]
         /\ ran' \subseteq ran
         /\ UNCHANGED <<requestVars, status, paused, unfit, readVars>>
<1>1. working[m].plan \in PlansOf(m) /\ secret \in [Machines -> SecretType]
      /\ secret[m] \in SecretsOf(m)
  BY DEF Typed
<1>2. secret' = [secret EXCEPT ![m].failed = working[m].plan]
  BY DEF PlanFails
<1>3. secret'[m] \in SecretsOf(m)
  <2>1. \A s \in SecretsOf(m), p \in PlansOf(m) :
          [s EXCEPT !.failed = p] \in SecretsOf(m)
    BY DEF SecretsOf
  <2>2. secret'[m] = [secret[m] EXCEPT !.failed = working[m].plan]
    BY <1>1, <1>2
  <2>3. QED
    BY <1>1, <2>1, <2>2
<1>4. \A n \in Machines : SecretsOf(n) \subseteq SecretType
  BY DEF SecretsOf, SecretType, PlansOf
<1>5. \A n \in Machines : secret'[n] \in SecretsOf(n)
  BY <1>2, <1>3 DEF Typed
<1>6. secret' \in [Machines -> SecretType]
  BY <1>1, <1>2, <1>4, <1>5
<1>7. \A n \in Machines :
        /\ secret'[n].plan = secret[n].plan /\ secret'[n].sum = secret[n].sum
        /\ secret'[n].applied = secret[n].applied
        /\ secret'[n].out = secret[n].out
  BY <1>1, <1>2 DEF SecretType
<1>8. QED
  BY <1>5, <1>6, <1>7 DEF PlanFails

\* What a plan does to the node when it is carried out or fails.
NodeTyped ==
  /\ up' \subseteq Machines /\ keyStage' \in KeyStages
  /\ loaded' \in [Machines -> KeyStages] /\ stamp' \in [Machines -> Nat]
  /\ ran' \subseteq ran /\ restored' \subseteq Gens["restore"]
  /\ rotated' \subseteq Machines \X Nat /\ snapped' \subseteq Machines
  /\ faults' \in 0..MaxFaults
  /\ restored \subseteq restored' /\ rotated \subseteq rotated'
  /\ snapped \subseteq snapped'

\* A plan that is reported as carried out leaves its trace.
Traces(m) ==
  LET p == working[m].plan
  IN /\ p.kind = "certs" => <<m, p.gen>> \in rotated'
     /\ p.kind = "snapshot" => m \in snapped'

LEMMA NodeEffect ==
  ASSUME Typed, NEW m \in Machines, NodeRuns(m) \/ AgentFails(m)
  PROVE  /\ NodeTyped
         /\ \/ PlanFails(m)
            \/ Traces(m) /\ \E out \in KeyStages \cup {""} : AgentReports(m, out)
<1>1. /\ working[m].plan \in PlansOf(m) /\ working[m].plan.gen \in Nat
      /\ up \subseteq Machines /\ keyStage \in KeyStages
      /\ loaded \in [Machines -> KeyStages] /\ stamp \in [Machines -> Nat]
      /\ rotated \subseteq Machines \X Nat /\ snapped \subseteq Machines
      /\ restored \subseteq Gens["restore"] /\ faults \in 0..MaxFaults
  BY DEF Typed, PlanType
<1>2. "" \in KeyStages \cup {""}
  OBVIOUS
<1>3. CASE NodeRunsDesired(m)
  BY <1>1, <1>2, <1>3 DEF NodeRunsDesired, Runs, StartsService, NodeTyped, Traces
<1>4. CASE NodeSnapshots(m)
  BY <1>1, <1>2, <1>4 DEF NodeSnapshots, Runs, NodeTyped, Traces
<1>5. CASE NodeStops(m)
  BY <1>1, <1>2, <1>5 DEF NodeStops, Runs, NodeTyped, Traces
<1>6. CASE NodeRestores(m)
  <2>1. "start" \in KeyStages /\ working[m].plan.kind = "restore"
    BY <1>6 DEF KeyStages, NodeRestores, Runs
  <2>2. working[m].plan.gen \in Gens["restore"]
    BY <1>1, <2>1 DEF PlansOf
  <2>3. QED
    BY <1>1, <1>2, <1>6, <2>1, <2>2 DEF NodeRestores, NodeTyped, Traces
<1>7. CASE NodeRotatesCerts(m)
  <2>1. /\ working[m].plan.kind = "certs"
        /\ rotated' = rotated \cup {<<m, working[m].plan.gen>>}
        /\ up' \subseteq Machines /\ loaded' \in [Machines -> KeyStages]
        /\ AgentReports(m, "")
    BY <1>1, <1>7 DEF NodeRotatesCerts, Runs, StartsService
  <2>2. rotated' \subseteq Machines \X Nat
    <3>1. <<m, working[m].plan.gen>> \in Machines \X Nat
      BY <1>1
    <3>2. QED
      BY <1>1, <2>1, <3>1, Zenon
  <2>3. QED
    BY <1>1, <1>2, <1>7, <2>1, <2>2 DEF NodeRotatesCerts, NodeTyped, Traces
<1>8. CASE NodeEncrypts(m)
  <2>1. working[m].plan.kind = "encrypt"
    BY <1>8 DEF NodeEncrypts, Runs
  <2>2. Command[working[m].plan.phase] \in KeyStages
    BY <1>1, <2>1, PhasesKnown DEF PlansOf
  <2>3. keyStage' \in KeyStages /\ AgentReports(m, keyStage')
    BY <1>1, <1>8, <2>2 DEF NodeEncrypts
  <2>4. QED
    BY <1>1, <1>8, <2>1, <2>3 DEF NodeEncrypts, NodeTyped, Traces
<1>9. CASE NodeRefuses(m)
  <2>1. PlanFails(m) /\ ran' \subseteq ran
    BY <1>9 DEF NodeRefuses, PlanFails
  <2>2. QED
    BY <1>1, <1>9, <2>1 DEF NodeRefuses, NodeTyped
<1>10. CASE NodeRestarts(m)
  <2>1. working[m].plan.kind = "restart"
    BY <1>10 DEF NodeRestarts, Runs
  <2>2. up' \subseteq Machines /\ loaded' \in [Machines -> KeyStages]
    BY <1>1, <1>10 DEF NodeRestarts, StartsService
  <2>3. \/ PlanFails(m)
        \/ /\ UNCHANGED ran
           /\ \E out \in KeyStages \cup {""} : AgentReports(m, out)
    BY <1>10, <2>2 DEF NodeRestarts
  <2>4. ran' \subseteq ran
    BY <2>3 DEF PlanFails
  <2>5. QED
    BY <1>1, <1>10, <2>1, <2>2, <2>3, <2>4 DEF NodeRestarts, NodeTyped, Traces
<1>11. CASE AgentFails(m)
  <2>1. PlanFails(m) /\ ran' \subseteq ran /\ faults' \in 0..MaxFaults
    BY <1>11, RoundAssumption DEF AgentFails, PlanFails, Fault, Typed
  <2>2. QED
    BY <1>1, <1>11, <2>1 DEF AgentFails, NodeTyped
<1>12. QED
  BY <1>3, <1>4, <1>5, <1>6, <1>7, <1>8, <1>9, <1>10, <1>11 DEF NodeRuns

-----------------------------------------------------------------------------
(* The basic invariant.                                                     *)

LEMMA InitBasics == Init => Basics
<1>1. SUFFICES ASSUME Init PROVE Basics
  OBVIOUS
<1>2. Provisioned \in StatusType
  BY PhasesKnown DEF Provisioned, StatusType, SnapshotPhases, RestorePhases
<1>3. \A m \in Machines : secret[m] =
        Secret(Plan("desired", "", 0), "forever", Plan("desired", "", 0),
               Plan("desired", "", 0), NoPlan, "")
  BY <1>1 DEF Init, DesiredPlan, Provisioned
<1>4. \A m \in Machines : secret[m] \in SecretsOf(m)
  <2>1. SUFFICES ASSUME NEW m \in Machines PROVE secret[m] \in SecretsOf(m)
    OBVIOUS
  <2>2. Plan("desired", "", 0) \in PlansOf(m) /\ NoPlan \in PlansOf(m)
    BY PlansAre
  <2>3. "forever" \in Limits
    BY DEF Limits
  <2>4. QED
    BY <1>3, <2>2, <2>3, SecretsAre
<1>5. \A m \in Machines : SecretsOf(m) \subseteq SecretType
  BY DEF SecretsOf, SecretType, PlansOf
<1>6. secret \in [Machines -> SecretType]
  BY <1>1, <1>4, <1>5 DEF Init
<1>7. \A m \in Machines : NoPlan \in PlansOf(m) /\ NoPlan \in PlanType
  BY PlansAre DEF PlansOf
<1>8. /\ working \in [Machines -> [plan : PlanType, fresh : BOOLEAN]]
      /\ \A m \in Machines : working[m].plan \in PlansOf(m)
  BY <1>1, <1>7 DEF Init, Resting
<1>9. view \in [Machines -> SecretType]
  <2>1. ASSUME NEW m \in Machines
        PROVE  Secret(NoPlan, "forever", NoPlan, NoPlan, NoPlan, "")
                 \in SecretsOf(m)
    BY <1>7, SecretsAre DEF Limits
  <2>2. QED
    BY <1>1, <1>5, <2>1 DEF Init, NoView
<1>10. asked \in Requests
  <2>1. asked = [o \in Operations |-> 0]
    BY <1>1 DEF Init
  <2>2. QED
    BY <2>1 DEF Requests
<1>11. edits \in 0..MaxEdits /\ faults \in 0..MaxFaults
  <2>1. edits = 0 /\ faults = 0
    BY <1>1 DEF Init
  <2>2. QED
    BY <2>1, RoundAssumption
<1>12. /\ deleting \in BOOLEAN /\ withdrawn \in BOOLEAN /\ paused \in BOOLEAN
       /\ pc = "idle" /\ cp = NotRead
  BY <1>1 DEF Init
<1>13. /\ unfit \subseteq Machines /\ up \subseteq Machines
       /\ keyStage \in KeyStages /\ loaded \in [Machines -> KeyStages]
       /\ stamp \in [Machines -> Nat]
       /\ ran \subseteq Machines \X PlanType
       /\ restored \subseteq Gens["restore"] /\ rotated \subseteq Machines \X Nat
       /\ snapped \subseteq Machines /\ status \in StatusType
  BY <1>1, <1>2 DEF Init, KeyStages, Provisioned
<1>14. Typed
  BY <1>4, <1>6, <1>8, <1>9, <1>10, <1>11, <1>12, <1>13 DEF Typed
<1>15. RoundKnows
  BY <1>12 DEF RoundKnows
<1>16. ReportsTrue
  <2>1. \A m \in Machines : /\ secret[m].sum.kind = "desired"
                            /\ secret[m].applied.kind = "desired"
    <3>1. \A m \in Machines : /\ secret[m].sum = Plan("desired", "", 0)
                              /\ secret[m].applied = Plan("desired", "", 0)
      <4> DEFINE d == Plan("desired", "", 0)
      <4>1. /\ Secret(d, "forever", d, d, NoPlan, "").sum = d
            /\ Secret(d, "forever", d, d, NoPlan, "").applied = d
        BY DEF Secret
      <4>2. QED
        BY <1>3, <4>1
    <3>2. Plan("desired", "", 0).kind = "desired"
      BY DEF Plan
    <3>3. QED
      BY <3>1, <3>2
  <2>2. QED
    BY <2>1 DEF ReportsTrue
<1>17. QED
  BY <1>14, <1>15, <1>16 DEF Basics

LEMMA ActBasics == ASSUME Basics, Act PROVE Basics'
<1>1. RoundOver /\ HandsOut(Kinds \ {"none"})
  BY ActEffect, ActHandsOut DEF Basics
<1>2. /\ secret' \in [Machines -> SecretType]
      /\ \A m \in Machines : secret'[m] \in SecretsOf(m)
  BY <1>1, HandsOutTyped DEF Basics
<1>3. pc' = "idle" /\ cp' = NotRead /\ view' = NoView
      /\ UNCHANGED <<requestVars, agentVars, nodeVars>>
  BY <1>1 DEF RoundOver, RoundEnds, PlannerOnly
<1>4. view' \in [Machines -> SecretType]
  <2>1. ASSUME NEW m \in Machines
        PROVE  Secret(NoPlan, "forever", NoPlan, NoPlan, NoPlan, "")
                 \in SecretType
    <3>1. Secret(NoPlan, "forever", NoPlan, NoPlan, NoPlan, "") \in SecretsOf(m)
      BY PlansAre, SecretsAre DEF Limits
    <3>2. QED
      BY <3>1 DEF SecretsOf, SecretType, PlansOf
  <2>2. QED
    BY <1>3, <2>1 DEF NoView
<1>5. Typed'
  <2>1. /\ status' \in StatusType /\ paused' \in BOOLEAN
        /\ faults' \in 0..MaxFaults
    BY <1>1 DEF RoundOver
  <2>2. UNCHANGED <<asked, deleting, edits, withdrawn, working, unfit, up,
                    keyStage, loaded, stamp, ran, restored, rotated, snapped>>
    BY <1>3 DEF requestVars, agentVars, nodeVars
  <2>3. QED
    BY <1>2, <1>3, <1>4, <2>1, <2>2 DEF Basics, Typed
<1>6. RoundKnows'
  BY <1>3 DEF RoundKnows
<1>7. ReportsTrue'
  <2>1. \A m \in Machines :
          /\ secret'[m].sum = secret[m].sum
          /\ secret'[m].applied \in {secret[m].sum, secret[m].applied}
    BY <1>1 DEF HandsOut, Delivered, Secret
  <2>2. UNCHANGED <<rotated, snapped>>
    BY <1>3 DEF nodeVars
  <2>3. QED
    BY <2>1, <2>2 DEF Basics, ReportsTrue
<1>8. QED
  BY <1>5, <1>6, <1>7 DEF Basics

LEMMA NodeBasics ==
  ASSUME Basics, NEW m \in Machines, NodeRuns(m) \/ AgentFails(m)
  PROVE  Basics'
<1>1. NodeTyped
  BY NodeEffect DEF Basics
<1>2. /\ UNCHANGED <<requestVars, status, paused, unfit, readVars>>
      /\ working' = [working EXCEPT ![m] = Resting]
      /\ secret' \in [Machines -> SecretType]
      /\ \A n \in Machines :
           /\ secret'[n] \in SecretsOf(n) /\ secret'[n].plan = secret[n].plan
           /\ secret[n].applied = secret[n].plan =>
                secret'[n].applied = secret[n].plan
           /\ \A p \in {secret'[n].sum, secret'[n].applied} :
                \/ p \in {secret[n].sum, secret[n].applied}
                \/ n = m /\ p = working[m].plan /\ Traces(m)
  <2>1. CASE PlanFails(m)
    BY <2>1, ReportedFailed DEF Basics
  <2>2. ASSUME Traces(m), NEW out \in KeyStages \cup {""}, AgentReports(m, out)
        PROVE  /\ UNCHANGED <<requestVars, status, paused, unfit, readVars>>
               /\ working' = [working EXCEPT ![m] = Resting]
               /\ secret' \in [Machines -> SecretType]
               /\ \A n \in Machines :
                    /\ secret'[n] \in SecretsOf(n)
                    /\ secret'[n].plan = secret[n].plan
                    /\ secret[n].applied = secret[n].plan =>
                         secret'[n].applied = secret[n].plan
                    /\ \A p \in {secret'[n].sum, secret'[n].applied} :
                         \/ p \in {secret[n].sum, secret[n].applied}
                         \/ n = m /\ p = working[m].plan /\ Traces(m)
    BY <2>2, Reported DEF Basics
  <2>3. QED
    BY <2>1, <2>2, NodeEffect DEF Basics
<1>3. /\ working' \in [Machines -> [plan : PlanType, fresh : BOOLEAN]]
      /\ \A n \in Machines : working'[n].plan \in PlansOf(n)
  <2>1. NoPlan \in PlansOf(m) /\ NoPlan \in PlanType
    BY PlansAre DEF PlansOf
  <2>2. Resting \in [plan : PlanType, fresh : BOOLEAN]
        /\ Resting.plan \in PlansOf(m)
    BY <2>1 DEF Resting
  <2>3. QED
    BY <1>2, <2>2 DEF Basics, Typed
<1>4. Typed'
  BY <1>1, <1>2, <1>3 DEF Basics, Typed, NodeTyped, requestVars, readVars
<1>5. RoundKnows'
  BY <1>2 DEF Basics, RoundKnows, requestVars, readVars
<1>6. ReportsTrue'
  BY <1>1, <1>2 DEF Basics, ReportsTrue, Traces, NodeTyped
<1>7. QED
  BY <1>4, <1>5, <1>6 DEF Basics

LEMMA ReadBasics == ASSUME Basics, Read PROVE Basics'
<1>1. /\ UNCHANGED <<requestVars, status, paused, secret, agentVars, nodeVars>>
      /\ UNCHANGED faults /\ pc' = "act" /\ view' = secret
  BY DEF Read
<1>2. /\ cp'.status = status /\ cp'.paused = paused /\ cp'.asked = asked
      /\ cp'.edits = edits /\ cp'.deleting = deleting
  BY DEF Read
<1>3. UNCHANGED <<asked, deleting, edits, withdrawn, working, unfit, up,
                  keyStage, loaded, stamp, ran, restored, rotated, snapped>>
  BY <1>1 DEF requestVars, agentVars, nodeVars
<1>4. Typed'
  BY <1>1, <1>2, <1>3 DEF Basics, Typed
<1>5. RoundKnows'
  <2>1. edits \in Nat /\ edits <= edits
    BY RoundAssumption DEF Basics, Typed
  <2>2. asked \in Requests /\ deleting \in BOOLEAN
    BY DEF Basics, Typed
  <2>3. QED
    BY <1>1, <1>2, <1>3, <2>1, <2>2 DEF RoundKnows
<1>6. ReportsTrue'
  BY <1>1, <1>3 DEF Basics, ReportsTrue
<1>7. QED
  BY <1>4, <1>5, <1>6 DEF Basics

LEMMA StartBasics ==
  ASSUME Basics, NEW m \in Machines, AgentStart(m)
  PROVE  Basics'
<1>1. /\ UNCHANGED <<asked, deleting, edits, withdrawn, status, paused, secret>>
      /\ UNCHANGED <<unfit, pc, cp, view>>
      /\ UNCHANGED <<up, keyStage, loaded, stamp, restored, rotated, snapped, faults>>
  BY DEF AgentStart, requestVars, readVars
<1>2. \E b \in BOOLEAN : working' =
        [working EXCEPT ![m] = [plan |-> secret[m].plan, fresh |-> b]]
  BY DEF AgentStart
<1>3. secret[m].plan \in PlansOf(m) /\ PlansOf(m) \subseteq PlanType
  BY DEF Basics, Typed, SecretsOf, PlansOf
<1>4. /\ working' \in [Machines -> [plan : PlanType, fresh : BOOLEAN]]
      /\ \A n \in Machines : working'[n].plan \in PlansOf(n)
  BY <1>2, <1>3 DEF Basics, Typed
<1>5. ran' \subseteq Machines \X PlanType
  <2>1. <<m, secret[m].plan>> \in Machines \X PlanType
    BY <1>3
  <2>2. ran \subseteq Machines \X PlanType
    BY DEF Basics, Typed
  <2>3. ran' \in {ran, ran \cup {<<m, secret[m].plan>>},
                 ran \ {<<m, secret[m].plan>>}}
    BY DEF AgentStart
  <2>4. QED
    BY <2>1, <2>2, <2>3
<1>6. Typed'
  BY <1>1, <1>4, <1>5 DEF Basics, Typed
<1>7. RoundKnows' /\ ReportsTrue'
  BY <1>1 DEF Basics, RoundKnows, ReportsTrue
<1>8. QED
  BY <1>6, <1>7 DEF Basics

LEMMA UsersBasics == ASSUME Basics, Users PROVE Basics'
<1>1. /\ UNCHANGED <<status, paused, secret, working, unfit, pc, cp, view>>
      /\ UNCHANGED <<up, keyStage, loaded, stamp, ran, restored, rotated, snapped>>
      /\ UNCHANGED faults /\ edits < MaxEdits /\ edits' = edits + 1
      /\ \/ /\ UNCHANGED deleting
            /\ \E o \in Operations : \E g \in Gens[o] \cup {0} :
                 /\ asked' = [asked EXCEPT ![o] = g]
                 /\ withdrawn' = (withdrawn \/ g = 0)
         \/ deleting' = TRUE /\ UNCHANGED <<asked, withdrawn>>
  BY DEF Users, Ask, DeleteCluster, agentVars, nodeVars, readVars
<1>2. asked' \in Requests
  <2>1. \A o \in Operations : Gens[o] \subseteq Nat
    BY RoundAssumption
  <2>2. asked \in Requests
    BY DEF Basics, Typed
  <2>3. ASSUME NEW o \in Operations, NEW g \in Gens[o] \cup {0}
        PROVE  [asked EXCEPT ![o] = g] \in Requests
    BY <2>1, <2>2 DEF Requests
  <2>4. QED
    BY <1>1, <2>2, <2>3
<1>3. edits' \in 0..MaxEdits /\ edits \in Nat
  BY <1>1, RoundAssumption DEF Basics, Typed
<1>4. deleting' \in BOOLEAN /\ withdrawn' \in BOOLEAN /\ (deleting => deleting')
  <2>1. withdrawn' \in BOOLEAN
    <3>1. withdrawn \in BOOLEAN
      BY DEF Basics, Typed
    <3>2. \A g : (withdrawn \/ g = 0) \in BOOLEAN
      OBVIOUS
    <3>3. QED
      BY <1>1, <3>1, <3>2
  <2>2. deleting' \in BOOLEAN /\ (deleting => deleting')
    <3>1. deleting \in BOOLEAN
      BY DEF Basics, Typed
    <3>2. deleting' = deleting \/ deleting' = TRUE
      BY <1>1
    <3>3. QED
      BY <3>1, <3>2, Zenon
  <2>3. QED
    BY <2>1, <2>2
<1>5. Typed'
  BY <1>1, <1>2, <1>3, <1>4 DEF Basics, Typed
<1>6. RoundKnows'
  <2>1. CASE pc = "act"
    <3>1. cp.edits \in Nat /\ cp.edits <= edits
      BY <2>1 DEF Basics, RoundKnows
    <3>2. cp.edits <= edits' /\ cp.edits # edits'
      BY <1>1, <1>3, <3>1
    <3>3. QED
      BY <1>1, <1>4, <2>1, <3>2 DEF Basics, RoundKnows
  <2>2. CASE pc # "act"
    BY <1>1, <2>2 DEF RoundKnows
  <2>3. QED
    BY <2>1, <2>2
<1>7. ReportsTrue'
  BY <1>1 DEF Basics, ReportsTrue
<1>8. QED
  BY <1>5, <1>6, <1>7 DEF Basics

LEMMA LoseBasics ==
  ASSUME Basics, NEW m \in Machines, LoseMachine(m)
  PROVE  Basics'
<1>1. /\ UNCHANGED <<asked, deleting, edits, withdrawn, status, paused, secret>>
      /\ UNCHANGED <<working, pc, cp, view>>
      /\ UNCHANGED <<up, keyStage, loaded, stamp, ran, restored, rotated, snapped>>
      /\ unfit' = unfit \cup {m}
  BY DEF LoseMachine, requestVars, nodeVars, readVars
<1>2. faults' \in 0..MaxFaults
  BY RoundAssumption DEF LoseMachine, Fault, Basics, Typed
<1>3. Typed'
  BY <1>1, <1>2 DEF Basics, Typed
<1>4. RoundKnows' /\ ReportsTrue'
  BY <1>1 DEF Basics, RoundKnows, ReportsTrue
<1>5. QED
  BY <1>3, <1>4 DEF Basics

LEMMA StutterBasics == ASSUME Basics, UNCHANGED vars PROVE Basics'
<1>1. /\ UNCHANGED <<asked, deleting, edits, withdrawn, status, paused, secret>>
      /\ UNCHANGED <<working, unfit, pc, cp, view, faults>>
      /\ UNCHANGED <<up, keyStage, loaded, stamp, ran, restored, rotated, snapped>>
  BY DEF vars, requestVars, agentVars, nodeVars, readVars
<1>2. Typed'
  BY <1>1 DEF Basics, Typed
<1>3. RoundKnows' /\ ReportsTrue'
  BY <1>1 DEF Basics, RoundKnows, ReportsTrue
<1>4. QED
  BY <1>2, <1>3 DEF Basics

LEMMA NextBasics == Basics /\ [Next]_vars => Basics'
<1>1. SUFFICES ASSUME Basics, [Next]_vars PROVE Basics'
  OBVIOUS
<1>2. CASE Users
  BY <1>1, <1>2, UsersBasics
<1>3. CASE Read
  BY <1>1, <1>3, ReadBasics
<1>4. CASE Act
  BY <1>1, <1>4, ActBasics
<1>5. ASSUME NEW m \in Machines, AgentStart(m) PROVE Basics'
  BY <1>1, <1>5, StartBasics
<1>6. ASSUME NEW m \in Machines, NodeRuns(m) \/ AgentFails(m) PROVE Basics'
  BY <1>1, <1>6, NodeBasics
<1>7. ASSUME NEW m \in Machines, LoseMachine(m) PROVE Basics'
  BY <1>1, <1>7, LoseBasics
<1>8. CASE UNCHANGED vars
  BY <1>1, <1>8, StutterBasics
<1>9. QED
  BY <1>1, <1>2, <1>3, <1>4, <1>5, <1>6, <1>7, <1>8 DEF Next

LEMMA AlwaysBasics == Spec => []Basics
<1>1. Init => Basics
  BY InitBasics
<1>2. Basics /\ [Next]_vars => Basics'
  BY NextBasics
<1>3. QED
  BY <1>1, <1>2, PTL DEF Spec

-----------------------------------------------------------------------------
(* Theorems that need no more.                                              *)

\* Every variable has values of its type: the leader of a key rotation is a
\* control plane machine, and only a command phase has a command.
THEOREM TypeCorrect == Spec => []TypeOK
<1>1. Typed => TypeOK
  <2>1. Gens["restore"] \subseteq Nat
    BY RoundAssumption DEF Operations
  <2>2. QED
    BY <2>1 DEF Typed, TypeOK, Requests
<1>2. Basics => TypeOK
  BY <1>1 DEF Basics
<1>3. QED
  BY <1>2, AlwaysBasics, PTL

\* What a round has seen carried out is carried out.
LEMMA CarriedTrue ==
  ASSUME Basics, pc = "act", NEW m \in Machines, NEW p, Carried(m, p)
  PROVE  secret[m].plan = p /\ secret[m].applied = p
  BY DEF Basics, RoundKnows, Carried, InSync

\* The management plane is restarted after a snapshot only when every etcd
\* machine has taken one: a snapshot plan that is reported as carried out was,
\* whether for this generation or an earlier one.
THEOREM SnapshotsTaken == Spec => SnapshotEverywhere
<1>1. Basics /\ [Next]_vars =>
        [status'.snapPhase = "RestartCluster" /\ status.snapPhase = "Started"
           => Etcd \subseteq snapped]_vars
  <2>1. SUFFICES ASSUME Basics, Next, status'.snapPhase = "RestartCluster",
                        status.snapPhase = "Started"
                 PROVE  Etcd \subseteq snapped
    OBVIOUS
  <2>2. CASE Act
    <3>1. SnapshotTaken
      BY <2>1, <2>2, ActEffect DEF Basics, LeavesAlone, TakesSnapshots, Restores,
         RotatesCerts, RotatesKeys, RollsOut, KeepsOthers
    <3>2. ASSUME NEW m \in Etcd PROVE m \in snapped
      <4>1. m \in Machines /\ Carried(m, SnapshotPlan) /\ pc = "act"
        BY <2>2, <3>1, <3>2, RoundAssumption DEF SnapshotTaken, Act
      <4>2. secret[m].applied = SnapshotPlan
        BY <2>1, <4>1, CarriedTrue
      <4>3. SnapshotPlan.kind = "snapshot"
        BY DEF SnapshotPlan, Plan
      <4>4. QED
        BY <2>1, <4>1, <4>2, <4>3 DEF Basics, ReportsTrue
    <3>3. QED
      BY <3>2
  <2>3. CASE UNCHANGED status
    BY <2>1, <2>3
  <2>4. ASSUME NEW m \in Machines, NodeRuns(m) \/ AgentFails(m)
        PROVE  UNCHANGED status
    BY <2>1, <2>4, NodeEffect, Reported, ReportedFailed DEF Basics
  <2>5. QED
    BY <2>1, <2>2, <2>3, <2>4 DEF Next, Users, Ask, DeleteCluster, Read,
       AgentStart, LoseMachine
<1>2. QED
  BY <1>1, AlwaysBasics, PTL DEF Spec, SnapshotEverywhere

-----------------------------------------------------------------------------
(* Certificate rotation keeps its promise.                                  *)

\* Certificates are renewed by plans of requests that could be made only.
LEMMA RotatedBy ==
  ASSUME Typed, NEW m \in Machines, NodeRuns(m) \/ AgentFails(m)
  PROVE  \/ UNCHANGED rotated
         \/ /\ m \in CertScope /\ working[m].plan.gen \in Gens["certs"]
            /\ rotated' = rotated \cup {<<m, working[m].plan.gen>>}
<1>1. CASE NodeRotatesCerts(m)
  <2>1. working[m].plan \in PlansOf(m) /\ working[m].plan.kind = "certs"
    BY <1>1 DEF NodeRotatesCerts, Runs, Typed
  <2>2. QED
    BY <1>1, <2>1 DEF NodeRotatesCerts, PlansOf
<1>2. CASE ~NodeRotatesCerts(m)
  BY <1>2 DEF NodeRuns, AgentFails, NodeRunsDesired, NodeSnapshots, NodeStops,
     NodeRestores, NodeEncrypts, NodeRefuses, NodeRestarts
<1>3. QED
  BY <1>1, <1>2

\* What a round makes of the answer.
LEMMA CertsAnsweredBy ==
  ASSUME Basics, Act, status'.certs # status.certs
  PROVE  /\ asked["certs"] # 0 /\ status'.certs = asked["certs"]
         /\ CertScope \X {asked["certs"]} \subseteq rotated
<1>1. RotatesCerts
  BY ActEffect DEF Basics, LeavesAlone, TakesSnapshots, Restores, RotatesKeys,
     RollsOut, KeepsOthers
<1>2. pc = "act"
  BY DEF Act
<1>3. asked["certs"] # 0 /\ status'.certs = asked["certs"]
      /\ \A m \in CertScope : Carried(m, CertPlan(asked["certs"]))
  BY <1>1, <1>2 DEF RotatesCerts, Basics, RoundKnows
<1>4. ASSUME NEW m \in CertScope PROVE <<m, asked["certs"]>> \in rotated
  <2>1. m \in Machines /\ Carried(m, CertPlan(asked["certs"]))
    BY <1>3, CertAssumption
  <2>2. secret[m].applied = CertPlan(asked["certs"])
    BY <1>2, <2>1, CarriedTrue
  <2>3. /\ CertPlan(asked["certs"]).kind = "certs"
        /\ CertPlan(asked["certs"]).gen = asked["certs"]
    BY DEF CertPlan, Plan
  <2>4. QED
    BY <2>1, <2>2, <2>3 DEF Basics, ReportsTrue
<1>5. QED
  BY <1>3, <1>4

LEMMA CertsStep == Basics /\ [Next]_vars => [Certs!Next]_(Certs!vars)
<1>1. SUFFICES ASSUME Basics, [Next]_vars,
                      ~UNCHANGED <<asked["certs"], rotated, status.certs>>
               PROVE  Certs!Next
  BY DEF Certs!vars
<1> USE DEF Certs!Next
<1>2. CASE Users
  <2>1. PICK o \in Operations : \E g \in Gens[o] \cup {0} : Ask(o, g)
    BY <1>1, <1>2 DEF Users, DeleteCluster, nodeVars
  <2>2. PICK g \in Gens[o] \cup {0} : Ask(o, g)
    BY <2>1
  <2>3. /\ asked' = [asked EXCEPT ![o] = g]
        /\ UNCHANGED <<rotated, status.certs>>
    BY <2>2 DEF Ask, nodeVars
  <2>4. asked \in [Operations -> Nat] /\ "certs" \in Operations
    BY <1>1 DEF Basics, Typed, Requests, Operations
  <2>5. o = "certs" /\ asked'["certs"] = g
    BY <1>1, <2>3, <2>4
  <2>6. QED
    BY <2>3, <2>5 DEF Certs!Ask
<1>3. CASE Act
  <2>1. UNCHANGED <<asked, rotated>>
    BY <1>1, <1>3, ActEffect DEF Basics, RoundOver, PlannerOnly, requestVars,
       nodeVars
  <2>2. QED
    BY <1>1, <1>3, <2>1, CertsAnsweredBy DEF Certs!Answer
<1>4. ASSUME NEW m \in Machines, NodeRuns(m) \/ AgentFails(m)
      PROVE  Certs!Next
  <2>1. UNCHANGED <<asked, status>>
    BY <1>1, <1>4, NodeEffect, Reported, ReportedFailed DEF Basics, requestVars
  <2>2. QED
    BY <1>1, <1>4, <2>1, RotatedBy DEF Certs!Work, Basics
<1>5. ~Read /\ ~UNCHANGED vars
      /\ \A m \in Machines : ~AgentStart(m) /\ ~LoseMachine(m)
  BY <1>1 DEF Read, AgentStart, LoseMachine, vars, requestVars, nodeVars
<1>6. QED
  BY <1>1, <1>2, <1>3, <1>4, <1>5 DEF Next

\* The rotation of certificates implements Request: the status names a
\* generation only if it is the one asked for and every machine concerned has
\* carried out the plan of that generation, whatever edits, restores and faults
\* came between its rounds.
THEOREM CertsRotated == Spec => CertsKept
<1>1. Init => Certs!Init
  <2>1. SUFFICES ASSUME Init PROVE Certs!Init
    OBVIOUS
  <2>2. "certs" \in Operations /\ asked = [o \in Operations |-> 0]
        /\ rotated = {}
    BY <2>1 DEF Operations, Init
  <2>3. status.certs = 0
    BY <2>1 DEF Init, Provisioned
  <2>4. QED
    BY <2>2, <2>3 DEF Certs!Init
<1>2. Basics /\ [Next]_vars => [Certs!Next]_(Certs!vars)
  BY CertsStep
<1>3. QED
  BY <1>1, <1>2, AlwaysBasics, PTL DEF Spec, CertsKept, Certs!Spec

=============================================================================
