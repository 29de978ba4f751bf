-------------------------- MODULE KeyRotation_proofs --------------------------
(****************************************************************************)
(* Proofs about the rotation of encryption keys, among all that the planner *)
(* does: which keys the control plane machines run with in each phase, as   *)
(* long as no snapshot is restored and the generations asked for grow.      *)
(****************************************************************************)
EXTENDS ProcessLoop_proofs

-----------------------------------------------------------------------------
(* What has to hold of a rotation.                                          *)

\* A rotation of keys is asked for with ever greater generations, of releases
\* that support it, and is not withdrawn.
KeysStep ==
  asked'["keys"] # asked["keys"] =>
    asked'["keys"] \in SupportedKeys /\ asked'["keys"] > asked["keys"]
KeysGrow == [][KeysStep]_vars

Phase == status.keysPhase
KeysWanted == asked["keys"]

\* The stage that a phase is about, and the place of a phase in the rotation.
StageOf ==
  [Prepare |-> "prepare", PostPrepareRestart |-> "prepare",
   Rotate |-> "rotate", PostRotateRestart |-> "rotate",
   Reencrypt |-> "reencrypt", PostReencryptRestart |-> "reencrypt"]
Rank ==
  [Prepare |-> 1, PostPrepareRestart |-> 2, Rotate |-> 3,
   PostRotateRestart |-> 4, Reencrypt |-> 5, PostReencryptRestart |-> 6]

\* The plans that a machine has been seen with, and that it may yet have.
Marked(m) == {p \in PlanType : <<m, p>> \in ran}
Seen(m) == {secret[m].applied, secret[m].sum, working[m].plan} \cup Marked(m)
Kept(m) == {secret[m].plan} \cup Seen(m)

KeysInOrder ==
  /\ Phase # "Failed" /\ (Phase = "" <=> status.keysFor = 0)
  /\ KeysWanted \in SupportedKeys \cup {0} /\ status.keysFor <= KeysWanted

\* A restart plan is of this rotation and a phase that has been, or of an
\* earlier rotation: no phase finds its plan carried out when it begins.
RestartsPast ==
  \A m \in Machines : \A p \in Kept(m) : p.kind = "restart" =>
    /\ p.gen <= KeysWanted /\ p.phase \in RestartPhases
    /\ p.gen = KeysWanted =>
         \/ Phase \in DOMAIN NextPhase /\ Rank[p.phase] <= Rank[Phase]
         \/ Phase = "Done" /\ status.keysFor = KeysWanted

\* A command that can still run is that of the stage that the phase is about.
CommandsLive ==
  \A m \in Machines : \A p \in {secret[m].plan, working[m].plan} :
    p.kind = "encrypt" =>
      /\ m \in ControlPlane /\ Phase \in DOMAIN NextPhase
      /\ Command[p.phase] = StageOf[Phase]

\* Every control plane machine runs with the keys of the stage, and tells no
\* other.
AllLoaded ==
  \A m \in ControlPlane :
    loaded[m] = keyStage /\ secret[m].out \in {"", keyStage}

StageFits ==
  /\ Phase = "" => keyStage = "start" /\ AllLoaded
  /\ Phase = "Done" => keyStage = "reencrypt" /\ AllLoaded
  /\ Phase \in RestartPhases => keyStage = StageOf[Phase]
  /\ Phase \in CommandPhases =>
       \/ keyStage = StageOf[Phase]
       \/ keyStage \in Takes[StageOf[Phase]] /\ AllLoaded

\* A machine that has the plan of this restart has done with commands; once
\* the plan counts as carried out the machine has loaded the keys, and if it
\* is only marked as run then the machine has loaded them or is about to.
Now(p) == p.kind = "restart" /\ p.phase = Phase /\ p.gen = KeysWanted
RestartsCountOn(m) ==
  \A p \in Kept(m) : Now(p) =>
    /\ secret[m].plan.kind # "encrypt"
    /\ p \in Seen(m) => working[m].plan.kind # "encrypt"
    /\ p \in Marked(m) =>
         loaded[m] = keyStage \/ working[m] = [plan |-> p, fresh |-> TRUE]
    /\ working[m] = [plan |-> p, fresh |-> FALSE] => loaded[m] = keyStage
    /\ p \in {secret[m].applied, secret[m].sum} =>
         loaded[m] = keyStage /\ secret[m].out \in {"", keyStage}
RestartsCount ==
  Phase \in RestartPhases => \A m \in Machines : RestartsCountOn(m)

\* What a round has read of the rotation.
RoundTold ==
  pc = "act" =>
    /\ cp.asked["keys"] <= KeysWanted
    /\ cp.asked["keys"] \in SupportedKeys \cup {0}
    /\ cp.asked["keys"] = 0 => Phase = "" /\ status.keysFor = 0
    /\ Phase \in CommandPhases =>
         \A m \in ControlPlane :
           view[m].out = StageOf[Phase] => keyStage = StageOf[Phase]

Rotating ==
  /\ KeysInOrder /\ RestartsPast /\ CommandsLive /\ StageFits
  /\ RestartsCount /\ RoundTold

\* A restore brings the old keys back, and all of this is void.
KeysKept == Basics /\ (restored = {} => Rotating)

-----------------------------------------------------------------------------
(* The phases.                                                              *)

LEMMA PhasesInOrder ==
  /\ {"", "Done", "Failed"} \cap DOMAIN NextPhase = {}
  /\ DOMAIN NextPhase = CommandPhases \cup RestartPhases
  /\ CommandPhases \cap RestartPhases = {}
  /\ \A ph \in DOMAIN NextPhase :
       Rank[ph] \in Nat /\ StageOf[ph] \notin Takes[StageOf[ph]]
  /\ \A ph \in CommandPhases :
       /\ NextPhase[ph] \in RestartPhases
       /\ StageOf[ph] = Command[ph] /\ StageOf[NextPhase[ph]] = StageOf[ph]
       /\ Rank[NextPhase[ph]] = Rank[ph] + 1
  /\ \A ph \in RestartPhases :
       \/ NextPhase[ph] = "Done" /\ StageOf[ph] = "reencrypt"
       \/ /\ NextPhase[ph] \in CommandPhases
          /\ StageOf[ph] \in Takes[StageOf[NextPhase[ph]]]
          /\ Rank[NextPhase[ph]] = Rank[ph] + 1
  /\ {"start", "reencrypt"} \subseteq Takes[StageOf["Prepare"]]
  /\ "Prepare" \in CommandPhases
<1>1. /\ CommandPhases = {"Prepare", "Rotate", "Reencrypt"}
      /\ DOMAIN NextPhase = {"Prepare", "PostPrepareRestart", "Rotate",
                             "PostRotateRestart", "Reencrypt",
                             "PostReencryptRestart"}
  BY PhasesKnown
<1>2. RestartPhases = {"PostPrepareRestart", "PostRotateRestart",
                       "PostReencryptRestart"}
  BY <1>1 DEF RestartPhases
<1>3. /\ NextPhase["Prepare"] = "PostPrepareRestart"
      /\ NextPhase["PostPrepareRestart"] = "Rotate"
      /\ NextPhase["Rotate"] = "PostRotateRestart"
      /\ NextPhase["PostRotateRestart"] = "Reencrypt"
      /\ NextPhase["Reencrypt"] = "PostReencryptRestart"
      /\ NextPhase["PostReencryptRestart"] = "Done"
  BY DEF NextPhase
<1>4. /\ Rank["Prepare"] = 1 /\ Rank["PostPrepareRestart"] = 2
      /\ Rank["Rotate"] = 3 /\ Rank["PostRotateRestart"] = 4
      /\ Rank["Reencrypt"] = 5 /\ Rank["PostReencryptRestart"] = 6
  BY DEF Rank
<1>5. /\ StageOf["Prepare"] = "prepare"
      /\ StageOf["PostPrepareRestart"] = "prepare"
      /\ StageOf["Rotate"] = "rotate"
      /\ StageOf["PostRotateRestart"] = "rotate"
      /\ StageOf["Reencrypt"] = "reencrypt"
      /\ StageOf["PostReencryptRestart"] = "reencrypt"
  BY DEF StageOf
<1>6. /\ Takes["prepare"] = {"start", "reencrypt"}
      /\ Takes["rotate"] = {"prepare"} /\ Takes["reencrypt"] = {"rotate"}
  BY DEF Takes
<1>7. /\ Command["Prepare"] = "prepare" /\ Command["Rotate"] = "rotate"
      /\ Command["Reencrypt"] = "reencrypt"
  BY DEF Command
<1>8. \A ph \in DOMAIN NextPhase :
        Rank[ph] \in Nat /\ StageOf[ph] \notin Takes[StageOf[ph]]
  BY <1>1, <1>4, <1>5, <1>6
<1>9. \A ph \in CommandPhases :
        /\ NextPhase[ph] \in RestartPhases
        /\ StageOf[ph] = Command[ph] /\ StageOf[NextPhase[ph]] = StageOf[ph]
        /\ Rank[NextPhase[ph]] = Rank[ph] + 1
  BY <1>1, <1>2, <1>3, <1>4, <1>5, <1>7
<1>10. \A ph \in RestartPhases :
         \/ NextPhase[ph] = "Done" /\ StageOf[ph] = "reencrypt"
         \/ /\ NextPhase[ph] \in CommandPhases
            /\ StageOf[ph] \in Takes[StageOf[NextPhase[ph]]]
            /\ Rank[NextPhase[ph]] = Rank[ph] + 1
  BY <1>1, <1>2, <1>3, <1>4, <1>5, <1>6
<1>11. QED
  BY <1>1, <1>2, <1>5, <1>6, <1>8, <1>9, <1>10

-----------------------------------------------------------------------------
(* What the planner's other operations do to a rotation: nothing.           *)

KeysSame ==
  UNCHANGED <<status.keysFor, status.keysPhase>>

LEMMA StatusKeepsKeys ==
  ASSUME status \in StatusType, NEW s \in StatusType,
         s.keysFor = status.keysFor, s.keysPhase = status.keysPhase,
         Waiting(s) \/ Completed(s) \/ Failing
  PROVE  KeysSame
<1>1. ASSUME NEW r \in BOOLEAN, Persist([s EXCEPT !.ready = r])
      PROVE  KeysSame
  <2>1. /\ [s EXCEPT !.ready = r].keysFor = s.keysFor
        /\ [s EXCEPT !.ready = r].keysPhase = s.keysPhase
    BY DEF StatusType
  <2>2. status' = status \/ status' = [s EXCEPT !.ready = r]
    BY <1>1 DEF Persist
  <2>3. QED
    BY <2>1, <2>2 DEF KeysSame
<1>2. QED
  BY <1>1 DEF Waiting, Completed, Failing, KeysSame

\* The statuses that the other operations write.
LEMMA OthersKeepKeys ==
  ASSUME Typed, RoundKnows,
         \/ LeaveDeleting \/ EtcdCreateStep \/ EtcdRestoreStep
         \/ CertRotationStep \/ WaitPaused \/ RolloutStep \/ FinishRound
  PROVE  KeysSame
<1> DEFINE Same(s) == /\ s \in StatusType /\ s.keysFor = status.keysFor
                      /\ s.keysPhase = status.keysPhase
<1>1. pc = "act" /\ cp.status = status /\ status \in StatusType
      /\ cp.asked \in Requests
  <2>1. CASE EtcdCreateStep
    BY <2>1, CreateEffect DEF RoundOver, RoundKnows, Typed
  <2>2. CASE EtcdRestoreStep
    BY <2>2, RestoreEffect DEF RoundOver, RoundKnows, Typed
  <2>3. CASE CertRotationStep
    BY <2>3, CertsEffect DEF RoundOver, RoundKnows, Typed
  <2>4. CASE LeaveDeleting \/ WaitPaused \/ RolloutStep \/ FinishRound
    BY <2>4 DEF LeaveDeleting, WaitPaused, RolloutStep, FinishRound, Turn,
       RoundKnows, Typed
  <2>5. QED
    BY <2>1, <2>2, <2>3, <2>4
<1>2. ASSUME NEW s, Same(s), Waiting(s) \/ Completed(s) \/ Failing
      PROVE  KeysSame
  BY <1>1, <1>2, StatusKeepsKeys
<1>3. Same(status)
  BY <1>1
<1>4. \A g \in Nat, ph \in SnapshotPhases :
        Same([status EXCEPT !.snapFor = g, !.snapPhase = ph])
  BY <1>1 DEF StatusType
<1>5. \A ph \in RestorePhases : Same([status EXCEPT !.restPhase = ph])
  BY <1>1 DEF StatusType
<1>6. \A ph \in RestorePhases, g \in Nat :
        Same([[status EXCEPT !.restPhase = ph] EXCEPT !.restFor = g])
  BY <1>1 DEF StatusType
<1>7. \A ph \in RestorePhases, b \in BOOLEAN :
        /\ Same([[status EXCEPT !.restPhase = ph] EXCEPT !.initialized = b])
        /\ Same([[status EXCEPT !.restPhase = ph] EXCEPT !.bootstrapped = b])
  BY <1>1 DEF StatusType
<1>8. \A ph \in RestorePhases :
        Same([[status EXCEPT !.restPhase = ph] EXCEPT !.config = @ + 1])
  <2>1. status.config + 1 \in Nat
    BY <1>1 DEF StatusType
  <2>2. \A ph \in RestorePhases, c \in Nat :
          Same([[status EXCEPT !.restPhase = ph] EXCEPT !.config = c])
    BY <1>1 DEF StatusType
  <2>3. \A ph \in RestorePhases :
          [[status EXCEPT !.restPhase = ph] EXCEPT !.config = @ + 1]
            = [[status EXCEPT !.restPhase = ph] EXCEPT !.config
                 = status.config + 1]
    BY <1>1 DEF StatusType
  <2> HIDE DEF Same
  <2>4. QED
    BY <2>1, <2>2, <2>3
<1>9. /\ Same([status EXCEPT !.bootstrapped = TRUE])
      /\ Same([[status EXCEPT !.bootstrapped = TRUE] EXCEPT !.initialized = TRUE])
      /\ \A g \in Nat : Same([status EXCEPT !.certs = g])
  BY <1>1 DEF StatusType
<1>10. /\ cp.asked["snapshot"] \in Nat /\ cp.asked["restore"] \in Nat
       /\ cp.asked["certs"] \in Nat /\ status.snapFor \in Nat
  BY <1>1 DEF Requests, Operations, StatusType
<1>11. /\ {"", "Started", "RestartCluster", "Finished", "Failed"}
            \subseteq SnapshotPhases
       /\ {"", "Started", "Shutdown", "Restore", "PostRestorePodCleanup",
           "InitialRestartCluster", "PostRestoreNodeCleanup",
           "RestartCluster", "Finished"} \subseteq RestorePhases
  BY DEF SnapshotPhases, RestorePhases
<1> HIDE DEF Same
<1>12. CASE EtcdCreateStep
  <2>1. CASE SnapshotRefused
    <3>1. \/ status' = status
          \/ status' = [status EXCEPT !.ready = FALSE, !.snapPhase = "Failed"]
      BY <1>1, <2>1 DEF SnapshotRefused
    <3>2. /\ [status EXCEPT !.ready = FALSE, !.snapPhase = "Failed"].keysFor
               = status.keysFor
          /\ [status EXCEPT !.ready = FALSE, !.snapPhase = "Failed"].keysPhase
               = status.keysPhase
      BY <1>1 DEF StatusType
    <3>3. QED
      BY <3>1, <3>2 DEF KeysSame
  <2>2. CASE RestartInitNode \/ RestartManagement
    BY <1>1, <1>2, <1>3, <2>2 DEF RestartInitNode, RestartManagement
  <2>3. ASSUME NEW g \in Nat, NEW ph \in SnapshotPhases, SnapshotState(g, ph)
        PROVE  KeysSame
    BY <1>1, <1>2, <1>4, <2>3 DEF SnapshotState
  <2>4. ASSUME ~SnapshotRefused, ~(RestartInitNode \/ RestartManagement)
        PROVE  \E g \in Nat, ph \in SnapshotPhases : SnapshotState(g, ph)
    BY <1>1, <1>10, <1>11, <1>12, <2>4 DEF EtcdCreateStep, ResetSnapshot,
       StartSnapshot, AwaitSnapshots, EndSnapshots, FinishSnapshot
  <2>5. QED
    BY <2>1, <2>2, <2>3, <2>4
<1>13. ASSUME FullReconcile PROVE KeysSame
  <2>1. \/ Waiting([status EXCEPT !.bootstrapped = TRUE])
        \/ Waiting([[status EXCEPT !.bootstrapped = TRUE]
                      EXCEPT !.initialized = TRUE])
    BY <1>1, <1>13 DEF FullReconcile, ReconcileServers, MarkInitialized,
       ReconcileWorkers, Bootstrapped
  <2>2. QED
    BY <1>2, <1>9, <2>1
<1>14. ASSUME NEW m, NEW p, NEW s, Same(s), RunOn(m, p, s) PROVE KeysSame
  <2>1. Failing \/ Waiting(s) \/ Waiting(status)
    BY <1>1, <1>14 DEF RunOn
  <2>2. QED
    BY <1>2, <1>3, <1>14, <2>1
<1>15. CASE EtcdRestoreStep
  <2>1. CASE ResetRestore \/ StartRestore
    <3>1. \E ph \in RestorePhases, g \in Nat :
            Waiting([[status EXCEPT !.restPhase = ph] EXCEPT !.restFor = g])
      BY <1>1, <1>10, <1>11, <2>1 DEF ResetRestore, StartRestore, RestoreState
    <3>2. QED
      BY <1>2, <1>6, <3>1
  <2>2. CASE Uninitialize \/ EndShutdown
    <3>1. \E ph \in RestorePhases, b \in BOOLEAN :
            \/ Waiting([[status EXCEPT !.restPhase = ph] EXCEPT !.initialized = b])
            \/ Waiting([[status EXCEPT !.restPhase = ph] EXCEPT !.bootstrapped = b])
      <4>1. "Shutdown" \in RestorePhases /\ "Restore" \in RestorePhases
            /\ FALSE \in BOOLEAN
        BY <1>11
      <4>2. \/ Waiting([[status EXCEPT !.restPhase = "Shutdown"]
                          EXCEPT !.initialized = FALSE])
            \/ Waiting([[status EXCEPT !.restPhase = "Restore"]
                          EXCEPT !.bootstrapped = FALSE])
        BY <1>1, <2>2 DEF Uninitialize, EndShutdown, RestoreState
      <4>3. QED
        BY <4>1, <4>2
    <3>2. QED
      BY <1>2, <1>7, <3>1
  <2>3. CASE StopServices \/ AwaitStopped
    BY <1>1, <1>2, <1>3, <2>3 DEF StopServices, AwaitStopped
  <2>4. CASE StopRefused
    BY <2>4 DEF StopRefused, KeysSame
  <2>5. CASE RunRestore
    <3> DEFINE s == [[status EXCEPT !.restPhase = "PostRestorePodCleanup"]
                       EXCEPT !.config = @ + 1]
    <3>1. RunOn(InitNode, RestorePlan, s)
      BY <1>1, <2>5 DEF RunRestore, RestoreState
    <3>2. Same(s)
      BY <1>8, <1>11
    <3> HIDE DEF s
    <3>3. QED
      BY <1>14, <3>1, <3>2
  <2>6. CASE CleanUpPods \/ CleanUpNodes
    <3>1. /\ Same(RestoreState("InitialRestartCluster"))
          /\ Same(RestoreState("RestartCluster")) /\ Same(cp.status)
      BY <1>1, <1>3, <1>5, <1>11 DEF RestoreState
    <3>2. \E m, p : \E s \in {RestoreState("InitialRestartCluster"),
                              RestoreState("RestartCluster"), cp.status} :
            RunOn(m, p, s)
      BY <2>6 DEF CleanUpPods, CleanUpNodes
    <3>3. QED
      BY <1>14, <3>1, <3>2
  <2>7. CASE RestartStep
    BY <1>13, <2>7 DEF RestartStep
  <2>8. CASE EndRestart
    <3>1. \E ph \in RestorePhases : Waiting([status EXCEPT !.restPhase = ph])
      <4>1. "Finished" \in RestorePhases
            /\ "PostRestoreNodeCleanup" \in RestorePhases
        BY <1>11
      <4>2. \/ Waiting([status EXCEPT !.restPhase = "Finished"])
            \/ Waiting([status EXCEPT !.restPhase = "PostRestoreNodeCleanup"])
        BY <1>1, <2>8 DEF EndRestart, RestoreState
      <4>3. QED
        BY <4>1, <4>2
    <3>2. QED
      BY <1>2, <1>5, <3>1
  <2>9. QED
    BY <1>15, <2>1, <2>2, <2>3, <2>4, <2>5, <2>6, <2>7, <2>8
       DEF EtcdRestoreStep
<1>16. CASE CertRotationStep
  <2>1. \/ Failing \/ Waiting(status)
        \/ Waiting([status EXCEPT !.certs = cp.asked["certs"]])
    BY <1>1, <1>16 DEF CertRotationStep, RotateNext, CertsDone
  <2>2. QED
    BY <1>2, <1>3, <1>9, <1>10, <2>1
<1>17. CASE LeaveDeleting \/ WaitPaused \/ FinishRound
  <2>1. \/ Completed(status) \/ Waiting(status)
        \/ Completed([status EXCEPT !.bootstrapped = TRUE])
    BY <1>1, <1>17 DEF LeaveDeleting, WaitPaused, FinishRound, Bootstrapped
  <2>2. QED
    BY <1>2, <1>3, <1>9, <2>1
<1>18. CASE RolloutStep
  BY <1>13, <1>18 DEF RolloutStep
<1>19. QED
  BY <1>12, <1>15, <1>16, <1>17, <1>18

-----------------------------------------------------------------------------
(* What a round does.                                                       *)

\* A round may deliver plans, but what has been reported stays.
RoundLeaves ==
  /\ pc = "act" /\ pc' = "idle"
  /\ UNCHANGED <<asked, working, keyStage, loaded, stamp, ran, restored>>
  /\ \A m \in Machines :
       /\ secret'[m].sum = secret[m].sum /\ secret'[m].out = secret[m].out
       /\ secret'[m].applied \in {secret[m].applied, secret[m].sum}

GoesElsewhere ==
  /\ KeysSame
  /\ \A m \in Machines : \/ secret'[m].plan = secret[m].plan
                         \/ secret'[m].plan.kind \notin {"encrypt", "restart"}

RotationBegins ==
  /\ UNCHANGED secret /\ Phase \notin DOMAIN NextPhase
  /\ ~(Phase = "Done" /\ status.keysFor = KeysWanted)
  /\ KeysWanted # 0 /\ status'.keysFor = KeysWanted
  /\ status'.keysPhase = "Prepare"

HandsCommand ==
  /\ Phase \in CommandPhases /\ KeysSame
  /\ \A m \in Machines :
       \/ secret'[m].plan = secret[m].plan
       \/ /\ m \in ControlPlane /\ secret'[m].plan.kind = "encrypt"
          /\ secret'[m].plan.phase = Phase

PhaseEnds ==
  /\ UNCHANGED secret /\ KeysWanted # 0 /\ status'.keysFor = KeysWanted
  /\ status'.keysPhase = NextPhase[Phase]

CommandEnds ==
  /\ Phase \in CommandPhases /\ PhaseEnds
  /\ \E m \in ControlPlane : view[m].out = Command[Phase]

HandsRestart ==
  /\ Phase \in RestartPhases /\ KeysSame
  /\ \A m \in Machines :
       \/ secret'[m].plan = secret[m].plan
       \/ /\ secret'[m].plan.kind = "restart"
          /\ secret'[m].plan.phase = Phase
          /\ secret'[m].plan.gen <= KeysWanted

RestartsEnd ==
  /\ Phase \in RestartPhases /\ PhaseEnds
  /\ \A m \in ControlPlane : Now(secret[m].applied)

LEMMA DeliversPlans ==
  ASSUME Typed, NEW m \in Machines, NEW p, NEW limit,
         secret'[m] = secret[m] \/ secret'[m] = Delivered(secret[m], p, limit)
  PROVE  /\ secret'[m].sum = secret[m].sum /\ secret'[m].out = secret[m].out
         /\ secret'[m].applied \in {secret[m].applied, secret[m].sum}
         /\ secret'[m].plan \in {secret[m].plan, p}
<1>1. secret[m] \in SecretType
  BY DEF Typed
<1>2. /\ Delivered(secret[m], p, limit).sum = secret[m].sum
      /\ Delivered(secret[m], p, limit).out = secret[m].out
      /\ Delivered(secret[m], p, limit).applied
           = (IF secret[m].sum = p THEN p ELSE secret[m].applied)
      /\ Delivered(secret[m], p, limit).plan = p
  BY DEF Delivered, Secret
<1>3. QED
  BY <1>1, <1>2

\* What a round hands out, it delivers.
LEMMA HandsOutLeaves ==
  ASSUME Typed, RoundOver, NEW kinds, HandsOut(kinds)
  PROVE  /\ RoundLeaves
         /\ \A m \in Machines : \/ secret'[m].plan = secret[m].plan
                                \/ secret'[m].plan.kind \in kinds
<1>1. /\ pc = "act" /\ pc' = "idle"
      /\ UNCHANGED <<asked, working, keyStage, loaded, stamp, ran, restored>>
  BY DEF RoundOver, RoundEnds, PlannerOnly, requestVars, agentVars, nodeVars
<1>2. ASSUME NEW m \in Machines
      PROVE  /\ secret'[m].sum = secret[m].sum
             /\ secret'[m].out = secret[m].out
             /\ secret'[m].applied \in {secret[m].applied, secret[m].sum}
             /\ \/ secret'[m].plan = secret[m].plan
                \/ secret'[m].plan.kind \in kinds
  <2>1. CASE secret'[m] = secret[m]
    BY <2>1
  <2>2. CASE secret'[m] # secret[m]
    <3>1. PICK p \in PlansOf(m), limit \in Limits :
            p.kind \in kinds /\ secret'[m] = Delivered(secret[m], p, limit)
      BY <2>2 DEF HandsOut
    <3>2. QED
      BY <3>1, DeliversPlans
  <2>3. QED
    BY <2>1, <2>2
<1>3. QED
  BY <1>1, <1>2 DEF RoundLeaves

OtherKinds == Kinds \ {"none", "encrypt", "restart"}

\* No other operation hands out commands and restarts.
LEMMA OthersGoElsewhere ==
  ASSUME Typed, RoundKnows,
         \/ LeaveDeleting \/ EtcdCreateStep \/ EtcdRestoreStep
         \/ CertRotationStep \/ WaitPaused \/ RolloutStep \/ FinishRound
  PROVE  RoundLeaves /\ GoesElsewhere
<1>1. ASSUME NEW kinds \in SUBSET OtherKinds, HandsOut(kinds)
      PROVE  HandsOut(OtherKinds)
  BY <1>1 DEF HandsOut
<1>2. ASSUME UNCHANGED secret PROVE HandsOut(OtherKinds)
  BY <1>2, NothingAssigned
<1>3. RoundOver /\ HandsOut(OtherKinds)
  <2>1. CASE LeaveDeleting
    BY <1>2, <2>1, LeaveEffect
  <2>2. CASE EtcdCreateStep
    <3>1. RoundOver /\ HandsOut({"snapshot", "desired"})
      BY <2>2, CreateEffect
    <3>2. QED
      BY <1>1, <3>1 DEF OtherKinds, Kinds
  <2>3. CASE EtcdRestoreStep
    <3>1. /\ RoundOver
          /\ \/ RestoreAsks \/ RestoreBegins \/ RestoreShutsDown \/ RestoreRuns
             \/ CleansPods \/ CleansNodes \/ Restarts
      BY <2>3, RestoreEffect
    <3>2. CASE RestoreAsks \/ RestoreBegins
      BY <1>2, <3>1, <3>2 DEF RestoreAsks, RestoreBegins
    <3>3. CASE RestoreShutsDown
      BY <1>1, <1>2, <3>1, <3>3 DEF RestoreShutsDown, OtherKinds, Kinds
    <3>4. CASE RestoreRuns
      BY <1>1, <1>2, <3>1, <3>4 DEF RestoreRuns, OtherKinds, Kinds
    <3>5. CASE CleansPods
      BY <1>1, <1>2, <3>1, <3>5 DEF CleansPods, OtherKinds, Kinds
    <3>6. CASE CleansNodes
      BY <1>1, <1>2, <3>1, <3>6 DEF CleansNodes, OtherKinds, Kinds
    <3>7. CASE Restarts
      BY <1>1, <1>2, <3>1, <3>7 DEF Restarts, OtherKinds, Kinds
    <3>8. QED
      BY <3>1, <3>2, <3>3, <3>4, <3>5, <3>6, <3>7
  <2>4. CASE CertRotationStep
    <3>1. RoundOver /\ RotatesCerts
      BY <2>4, CertsEffect
    <3>2. QED
      BY <1>1, <1>2, <3>1 DEF RotatesCerts, OtherKinds, Kinds
  <2>5. CASE WaitPaused \/ RolloutStep \/ FinishRound
    <3>1. RoundOver /\ HandsOut({"desired"})
      BY <2>5, RolloutEffect DEF RollsOut
    <3>2. QED
      BY <1>1, <3>1 DEF OtherKinds, Kinds
  <2>6. QED
    BY <2>1, <2>2, <2>3, <2>4, <2>5
<1>4. QED
  BY <1>3, HandsOutLeaves, OthersKeepKeys DEF GoesElsewhere, OtherKinds

\* The one plan of a key rotation's round, and to whom it goes.
LEMMA AssignedPlan ==
  ASSUME NEW ms, NEW p, NEW limit,
         Assign(ms, [n \in Machines |-> p], limit)
  PROVE  \A m \in Machines :
           secret'[m].plan = IF m \in ms THEN p ELSE secret[m].plan
<1>1. ASSUME NEW m \in Machines
      PROVE  secret'[m] = IF m \in ms THEN Delivered(secret[m], p, limit)
                          ELSE secret[m]
  BY <1>1 DEF Assign, Delivered
<1>2. \A s : Delivered(s, p, limit).plan = p
  BY DEF Delivered, Secret
<1>3. QED
  BY <1>1, <1>2

\* What a round makes of the generation and the phase.
LEMMA KeysWritten ==
  ASSUME Basics, pc = "act", NEW s \in StatusType,
         Waiting(s) \/ Completed(s) \/ Failing
  PROVE  \/ KeysSame
         \/ /\ cp.asked = asked /\ status'.keysFor = s.keysFor
            /\ status'.keysPhase = s.keysPhase
<1>1. Becomes(s)
  BY WaitingEnds DEF Basics
<1>2. edits = cp.edits => cp.asked = asked
  BY DEF Basics, RoundKnows
<1>3. QED
  BY <1>1, <1>2, BecomesFields DEF KeysSame

LEMMA ActRotates ==
  ASSUME Basics, KeysInOrder, RoundTold, KeyRotationStep
  PROVE  /\ RoundLeaves
         /\ \/ GoesElsewhere \/ RotationBegins \/ HandsCommand \/ CommandEnds
            \/ HandsRestart \/ RestartsEnd
<1> DEFINE Result == \/ GoesElsewhere \/ RotationBegins \/ HandsCommand
                     \/ CommandEnds \/ HandsRestart \/ RestartsEnd
<1>1. RoundOver /\ HandsOut({"encrypt", "restart"})
  BY KeysEffect DEF Basics, RotatesKeys
<1>2. RoundLeaves
  BY <1>1, HandsOutLeaves DEF Basics
<1>3. /\ pc = "act" /\ cp.status = status /\ status \in StatusType
      /\ secret \in [Machines -> SecretType]
      /\ view \in [Machines -> SecretType]
      /\ asked \in Requests /\ cp.asked \in Requests
  BY <1>1 DEF RoundOver, Basics, RoundKnows, Typed
<1>4. /\ KeysAsked \in Nat /\ KeysWanted \in Nat /\ KeysAsked <= KeysWanted
      /\ KeysAsked \in SupportedKeys \cup {0}
      /\ KeysAsked = 0 => Phase = "" /\ status.keysFor = 0
  BY <1>3 DEF RoundTold, Requests, Operations, KeysAsked, KeysWanted
<1>5. \A ph \in KeyPhases :
        /\ KeysState(ph) \in StatusType /\ KeysState(ph).keysFor = KeysAsked
        /\ KeysState(ph).keysPhase = ph
  BY <1>3, <1>4 DEF KeysState, StatusType
<1>6. ASSUME KeysSame, UNCHANGED secret PROVE Result
  BY <1>6 DEF GoesElsewhere
<1>7. SUFFICES Result
  BY <1>2
<1>8. CASE ResetKeys \/ RefuseKeys
  BY <1>3, <1>4, <1>8 DEF ResetKeys, RefuseKeys, KeysIdle, Supported,
     Phase
<1>9. CASE StartKeys
  <2>1. "Prepare" \in KeyPhases
    BY PhasesKnown
  <2>2. \/ KeysSame
        \/ /\ cp.asked = asked /\ status'.keysFor = KeysAsked
           /\ status'.keysPhase = "Prepare"
    BY <1>3, <1>5, <1>9, <2>1, KeysWritten DEF StartKeys
  <2>3. UNCHANGED secret /\ Rotates /\ ShouldRestart
    BY <1>9 DEF StartKeys
  <2>4. CASE KeysSame
    BY <1>6, <2>3, <2>4
  <2>5. CASE ~KeysSame
    <3>1. /\ KeysAsked = KeysWanted /\ KeysWanted # 0
          /\ status'.keysFor = KeysWanted /\ status'.keysPhase = "Prepare"
      BY <2>2, <2>3, <2>5 DEF KeysAsked, KeysWanted, Rotates
    <3>2. Phase \notin DOMAIN NextPhase
      BY <1>3, <2>3, PhasesInOrder
         DEF ShouldRestart, InProgress, KeysInOrder, Phase
    <3>3. ~(Phase = "Done" /\ status.keysFor = KeysWanted)
      BY <1>3, <2>3, <3>1 DEF Rotates, CanRotate, Phase
    <3>4. QED
      BY <2>3, <3>1, <3>2, <3>3 DEF RotationBegins
  <2>6. QED
    BY <2>4, <2>5
<1>10. CASE NoLeader
  BY <1>6, <1>10 DEF NoLeader, Failing, KeysSame
<1>11. CASE ElectLeader
  <2>1. Leader \in ControlPlane
    BY <1>11, ElectedLeads DEF ElectLeader
  <2>2. /\ [status EXCEPT !.leader = Leader] \in StatusType
        /\ [status EXCEPT !.leader = Leader].keysFor = status.keysFor
        /\ [status EXCEPT !.leader = Leader].keysPhase = status.keysPhase
    BY <1>3, <2>1 DEF StatusType
  <2>3. Waiting([status EXCEPT !.leader = Leader]) /\ UNCHANGED secret
    BY <1>3, <1>11 DEF ElectLeader
  <2>4. KeysSame
    BY <1>3, <2>2, <2>3, StatusKeepsKeys
  <2>5. QED
    BY <1>6, <2>3, <2>4
<1>12. CASE RunCommand
  <2> DEFINE p == PhasePlan("encrypt")
             ms == {m \in {Leader} : NeedsPlan(m, p)}
  <2>1. /\ RotationIn(CommandPhases) /\ Phase \in CommandPhases
        /\ KeysAsked # 0
    BY <1>3, <1>12 DEF RunCommand, RotationIn, Rotates, Phase
  <2>2. Leader \in ControlPlane /\ Leader \in Machines
    BY <2>1, LeaderLeads
  <2>3. p.kind = "encrypt" /\ p.phase = Phase
    BY <1>3 DEF PhasePlan, Plan, Phase
  <2>4. Assign(ms, [m \in Machines |-> p], "few")
    BY <1>12 DEF RunCommand
  <2>5. \/ Failing \/ Waiting(status)
        \/ /\ Waiting(KeysState(NextPhase[Phase])) /\ Carried(Leader, p)
           /\ view[Leader].out = Command[Phase]
    BY <1>3, <1>12 DEF RunCommand, Phase
  <2>6. NextPhase[Phase] \in KeyPhases
    BY <2>1, PhasesKnown, PhasesInOrder
  <2> HIDE DEF p
  <2>7. CASE KeysSame
    <3>1. \A m \in Machines :
            secret'[m].plan = IF m \in ms THEN p ELSE secret[m].plan
      <4> HIDE DEF ms
      <4>1. QED
        BY <2>4, AssignedPlan
    <3>2. QED
      BY <2>1, <2>2, <2>3, <2>7, <3>1 DEF HandsCommand
  <2>8. CASE ~KeysSame
    <3>1. ~Failing /\ ~Waiting(status)
      BY <1>3, <2>8, StatusKeepsKeys
    <3>2. /\ Waiting(KeysState(NextPhase[Phase])) /\ Carried(Leader, p)
          /\ view[Leader].out = Command[Phase]
      BY <2>5, <3>1
    <3>3. /\ KeysAsked = KeysWanted /\ status'.keysFor = KeysAsked
          /\ status'.keysPhase = NextPhase[Phase]
      BY <1>3, <1>5, <2>6, <2>8, <3>2, KeysWritten DEF KeysAsked, KeysWanted
    <3>4. ms = {}
      BY <3>2 DEF Carried, NeedsPlan
    <3>5. UNCHANGED secret
      BY <1>3, <2>4, <3>4 DEF Assign
    <3>6. QED
      BY <2>1, <2>2, <3>2, <3>3, <3>5 DEF CommandEnds, PhaseEnds
  <2>9. QED
    BY <2>7, <2>8
<1>13. CASE RestartNext
  <2> DEFINE m == NextIn(RestartTiers, NotRestarted)
             p == RestartPlan(m)
             ms == {n \in {m} : NeedsPlan(n, p) /\ ~StageDiffers}
  <2>1. /\ RotationIn(RestartPhases) /\ Phase \in RestartPhases
        /\ Failing \/ Waiting(status)
    BY <1>3, <1>13 DEF RestartNext, RotationIn, Phase
  <2>2. Assign(ms, [n \in Machines |-> p], "few")
    BY <1>13 DEF RestartNext
  <2>3. p.kind = "restart" /\ p.phase = Phase /\ p.gen = KeysAsked
    BY <1>3 DEF RestartPlan, PhasePlan, Plan, Phase
  <2> HIDE DEF p
  <2>4. \A n \in Machines :
          secret'[n].plan = IF n \in ms THEN p ELSE secret[n].plan
    <3> HIDE DEF ms
    <3>1. QED
      BY <2>2, AssignedPlan
  <2>5. KeysSame
    BY <1>3, <2>1, StatusKeepsKeys
  <2>6. QED
    BY <1>4, <2>1, <2>3, <2>4, <2>5 DEF HandsRestart
<1>14. CASE EndRestarts
  <2> DEFINE next == NextPhase[Phase]
             l == IF next = "Done" THEN Nobody ELSE KeysState(next).leader
             s == [KeysState(next) EXCEPT !.leader = l]
  <2>1. /\ RotationIn(RestartPhases) /\ UNCHANGED secret
        /\ Failing \/ Waiting(s)
        /\ NotRestarted = {}
    BY <1>3, <1>14 DEF EndRestarts, Phase
  <2>2. Phase \in RestartPhases /\ KeysAsked # 0
    BY <1>3, <2>1 DEF RotationIn, Rotates, Phase
  <2>3. CASE KeysSame
    BY <1>6, <2>1, <2>3
  <2>4. CASE ~KeysSame
    <3>1. ~Failing
      BY <1>3, <2>4, StatusKeepsKeys
    <3>2. next \in KeyPhases
      BY <2>2, PhasesKnown, PhasesInOrder
    <3>3. s \in StatusType /\ s.keysFor = KeysAsked /\ s.keysPhase = next
      <4> DEFINE r == KeysState(next)
      <4>1. r \in StatusType /\ r.keysFor = KeysAsked /\ r.keysPhase = next
        BY <1>5, <3>2
      <4>2. l \in ControlPlane \cup {Nobody}
        BY <4>1 DEF StatusType
      <4> HIDE DEF r, l
      <4>3. [r EXCEPT !.leader = l] \in StatusType
            /\ [r EXCEPT !.leader = l].keysFor = r.keysFor
            /\ [r EXCEPT !.leader = l].keysPhase = r.keysPhase
        BY <4>1, <4>2 DEF StatusType
      <4>4. QED
        BY <4>1, <4>3 DEF r
    <3> HIDE DEF s
    <3>4. /\ cp.asked = asked /\ KeysAsked = KeysWanted
          /\ status'.keysFor = KeysAsked /\ status'.keysPhase = next
      BY <1>3, <2>1, <2>4, <3>1, <3>3, KeysWritten DEF KeysAsked, KeysWanted
    <3>5. ASSUME NEW m \in ControlPlane PROVE Now(secret[m].applied)
      <4>1. m \in Machines /\ InitNode \in Machines
        BY RoundAssumption
      <4>2. \E t \in DOMAIN RestartTiers : m \in RestartTiers[t]
        <5>1. CASE Leader = InitNode
          <6>1. RestartTiers = <<{Leader}, ControlPlane \ {Leader}>>
            BY <5>1 DEF RestartTiers
          <6>2. /\ DOMAIN RestartTiers = 1..2 /\ RestartTiers[1] = {Leader}
                /\ RestartTiers[2] = ControlPlane \ {Leader}
            BY <6>1
          <6>3. 1 \in DOMAIN RestartTiers /\ 2 \in DOMAIN RestartTiers
            BY <6>2
          <6>4. QED
            BY <6>2, <6>3
        <5>2. CASE Leader # InitNode
          <6>1. RestartTiers =
                  <<{InitNode}, Etcd \ (ControlPlane \cup {InitNode}),
                    {Leader}, ControlPlane \ {Leader, InitNode}>>
            BY <5>2 DEF RestartTiers
          <6>2. /\ DOMAIN RestartTiers = 1..4 /\ RestartTiers[1] = {InitNode}
                /\ RestartTiers[3] = {Leader}
                /\ RestartTiers[4] = ControlPlane \ {Leader, InitNode}
            BY <6>1
          <6>3. /\ 1 \in DOMAIN RestartTiers /\ 3 \in DOMAIN RestartTiers
                /\ 4 \in DOMAIN RestartTiers
            BY <6>2
          <6>4. QED
            BY <6>2, <6>3
        <5>3. QED
          BY <5>1, <5>2
      <4>3. Restarted(m)
        BY <2>1, <4>2 DEF NotRestarted
      <4>4. secret[m].applied = RestartPlan(m)
        BY <1>3, <4>1, <4>3, CarriedTrue DEF Restarted
      <4>5. /\ RestartPlan(m).kind = "restart"
            /\ RestartPlan(m).phase = Phase /\ RestartPlan(m).gen = KeysAsked
        BY <1>3 DEF RestartPlan, PhasePlan, Plan, Phase
      <4>6. QED
        BY <3>4, <4>4, <4>5 DEF Now
    <3>6. QED
      BY <2>1, <2>2, <3>4, <3>5 DEF RestartsEnd, PhaseEnds
  <2>5. QED
    BY <2>3, <2>4
<1>15. QED
  BY <1>8, <1>9, <1>10, <1>11, <1>12, <1>13, <1>14 DEF KeyRotationStep

\* Every round, then, is one of these.
LEMMA RoundRotates ==
  ASSUME Basics, KeysInOrder, RoundTold, Act
  PROVE  /\ RoundLeaves
         /\ \/ GoesElsewhere \/ RotationBegins \/ HandsCommand \/ CommandEnds
            \/ HandsRestart \/ RestartsEnd
<1>1. CASE KeyRotationStep
  BY <1>1, ActRotates
<1>2. CASE ~KeyRotationStep
  <2>1. \/ LeaveDeleting \/ EtcdCreateStep \/ EtcdRestoreStep
        \/ CertRotationStep \/ WaitPaused \/ RolloutStep \/ FinishRound
    BY <1>2 DEF Act, ActRestore, ActCerts, ActKeys, ActRollout
  <2>2. QED
    BY <2>1, OthersGoElsewhere DEF Basics
<1>3. QED
  BY <1>1, <1>2

-----------------------------------------------------------------------------
(* A round keeps the rotation in order.                                     *)

LEMMA KeysTyped ==
  ASSUME Basics
  PROVE  /\ KeysWanted \in Nat /\ status.keysFor \in Nat
         /\ Phase \in KeyPhases
         /\ SupportedKeys \subseteq Nat \ {0}
         /\ \A m \in Machines : \A p \in Kept(m) : p.gen \in Nat
<1>1. /\ KeysWanted \in Nat /\ status.keysFor \in Nat /\ Phase \in KeyPhases
  BY DEF Basics, Typed, Requests, Operations, StatusType, KeysWanted, Phase
<1>2. SupportedKeys \subseteq Nat \ {0}
  BY RoundAssumption, KeysAssumption DEF Operations
<1>3. ASSUME NEW m \in Machines, NEW p \in Kept(m) PROVE p \in PlanType
  <2>1. secret[m] \in SecretType /\ working[m].plan \in PlanType
    BY DEF Basics, Typed
  <2>2. /\ secret[m].plan \in PlanType /\ secret[m].applied \in PlanType
        /\ secret[m].sum \in PlanType
    BY <2>1 DEF SecretType
  <2>3. QED
    BY <1>3, <2>1, <2>2 DEF Kept, Seen, Marked
<1>4. QED
  BY <1>1, <1>2, <1>3 DEF PlanType

\* What a machine keeps of what it had, and what it is given.
LEMMA RoundSeen ==
  ASSUME RoundLeaves, NEW m \in Machines
  PROVE  /\ Marked(m)' = Marked(m) /\ Seen(m)' \subseteq Seen(m)
         /\ Kept(m)' \subseteq Seen(m) \cup {secret'[m].plan}
         /\ KeysWanted' = KeysWanted
  BY DEF RoundLeaves, Marked, Seen, Kept, KeysWanted

LEMMA ActInOrder ==
  ASSUME Basics, Rotating, Act
  PROVE  KeysInOrder' /\ RoundTold'
<1>1. /\ RoundLeaves
      /\ \/ GoesElsewhere \/ RotationBegins \/ HandsCommand \/ CommandEnds
         \/ HandsRestart \/ RestartsEnd
  BY RoundRotates DEF Rotating
<1>2. RoundTold'
  BY <1>1 DEF RoundLeaves, RoundTold
<1>3. SUFFICES KeysInOrder'
  BY <1>2
<1>4. /\ KeysWanted' = KeysWanted /\ KeysWanted \in Nat
      /\ KeysWanted \in SupportedKeys \cup {0}
  BY <1>1, KeysTyped DEF RoundLeaves, KeysWanted, Rotating, KeysInOrder
<1>5. CASE KeysSame
  BY <1>4, <1>5 DEF Rotating, KeysInOrder, KeysSame, Phase
<1>6. CASE RotationBegins
  BY <1>4, <1>6 DEF RotationBegins, KeysInOrder, Phase
<1>7. CASE CommandEnds \/ RestartsEnd
  <2>1. PhaseEnds /\ Phase \in CommandPhases \cup RestartPhases
    BY <1>7 DEF CommandEnds, RestartsEnd
  <2>2. NextPhase[Phase] \in CommandPhases \cup RestartPhases \cup {"Done"}
    BY <2>1, PhasesInOrder
  <2>3. NextPhase[Phase] # "" /\ NextPhase[Phase] # "Failed"
    BY <2>2, PhasesInOrder
  <2>4. /\ Phase' = NextPhase[Phase] /\ status'.keysFor = KeysWanted
        /\ KeysWanted # 0
    BY <2>1 DEF PhaseEnds, Phase
  <2>5. Phase' # "" /\ Phase' # "Failed"
    BY <2>3, <2>4
  <2>6. status'.keysFor # 0 /\ status'.keysFor <= KeysWanted'
    BY <1>4, <2>4
  <2>7. QED
    BY <1>4, <2>5, <2>6 DEF KeysInOrder
<1>8. QED
  BY <1>1, <1>5, <1>6, <1>7 DEF GoesElsewhere, HandsCommand, HandsRestart

LEMMA ActRestartsPast ==
  ASSUME Basics, Rotating, Act
  PROVE  RestartsPast'
<1> DEFINE Past(p) ==
             /\ p.gen <= KeysWanted /\ p.phase \in RestartPhases
             /\ p.gen = KeysWanted =>
                  \/ Phase' \in DOMAIN NextPhase /\ Rank[p.phase] <= Rank[Phase']
                  \/ Phase' = "Done" /\ status'.keysFor = KeysWanted
<1>1. /\ RoundLeaves
      /\ \/ GoesElsewhere \/ RotationBegins \/ HandsCommand \/ CommandEnds
         \/ HandsRestart \/ RestartsEnd
  BY RoundRotates DEF Rotating
<1>2. KeysWanted' = KeysWanted
  BY <1>1 DEF RoundLeaves, KeysWanted
<1>3. SUFFICES ASSUME NEW m \in Machines, NEW p \in Kept(m)',
                      p.kind = "restart"
               PROVE  Past(p)
  <2> HIDE DEF Past
  <2>1. \A m \in Machines : \A p \in Kept(m)' : p.kind = "restart" => Past(p)
    BY <1>3
  <2>2. QED
    BY <1>2, <2>1 DEF RestartsPast, Past
<1>4. CASE p \in Kept(m)
  <2>1. /\ p.gen <= KeysWanted /\ p.phase \in RestartPhases
        /\ p.gen = KeysWanted =>
             \/ Phase \in DOMAIN NextPhase /\ Rank[p.phase] <= Rank[Phase]
             \/ Phase = "Done" /\ status.keysFor = KeysWanted
    BY <1>3, <1>4 DEF Rotating, RestartsPast
  <2>2. CASE KeysSame
    BY <2>1, <2>2 DEF KeysSame, Phase
  <2>3. CASE RotationBegins
    BY <2>1, <2>3 DEF RotationBegins
  <2>4. CASE PhaseEnds /\ Phase \in DOMAIN NextPhase
    <3>1. Phase' = NextPhase[Phase] /\ status'.keysFor = KeysWanted
      BY <2>4 DEF PhaseEnds, Phase
    <3>2. \/ NextPhase[Phase] = "Done"
          \/ /\ NextPhase[Phase] \in DOMAIN NextPhase
             /\ Rank[NextPhase[Phase]] = Rank[Phase] + 1
      BY <2>4, PhasesInOrder
    <3>3. Rank[Phase] \in Nat /\ Rank[p.phase] \in Nat
          /\ Phase # "Done"
      BY <2>1, <2>4, PhasesInOrder
    <3>4. p.gen = KeysWanted => Rank[p.phase] <= Rank[Phase]
      BY <2>1, <3>3
    <3>5. QED
      BY <2>1, <3>1, <3>2, <3>3, <3>4
  <2>5. QED
    BY <1>1, <2>2, <2>3, <2>4, PhasesInOrder DEF GoesElsewhere, HandsCommand,
       HandsRestart, CommandEnds, RestartsEnd
<1>5. CASE p \notin Kept(m)
  <2>1. p = secret'[m].plan /\ secret'[m].plan # secret[m].plan
    BY <1>1, <1>3, <1>5, RoundSeen DEF Kept
  <2>2. HandsRestart
    BY <1>1, <1>3, <2>1 DEF GoesElsewhere, RotationBegins, HandsCommand,
       CommandEnds, RestartsEnd, PhaseEnds
  <2>3. Phase \in RestartPhases /\ Phase' = Phase /\ p.phase = Phase
        /\ p.gen <= KeysWanted
    BY <2>1, <2>2 DEF HandsRestart, KeysSame, Phase
  <2>4. Rank[Phase] \in Nat /\ Phase \in DOMAIN NextPhase
    BY <2>3, PhasesInOrder
  <2>5. QED
    BY <2>3, <2>4
<1>6. QED
  BY <1>4, <1>5

LEMMA ActCommandsLive ==
  ASSUME Basics, Rotating, Act
  PROVE  CommandsLive'
<1>1. /\ RoundLeaves
      /\ \/ GoesElsewhere \/ RotationBegins \/ HandsCommand \/ CommandEnds
         \/ HandsRestart \/ RestartsEnd
  BY RoundRotates DEF Rotating
<1>2. SUFFICES ASSUME NEW m \in Machines,
                      NEW p \in {secret'[m].plan, working[m].plan},
                      p.kind = "encrypt"
               PROVE  /\ m \in ControlPlane /\ Phase' \in DOMAIN NextPhase
                      /\ Command[p.phase] = StageOf[Phase']
  BY <1>1 DEF CommandsLive, RoundLeaves
<1>3. CASE p \in {secret[m].plan, working[m].plan}
  <2>1. /\ m \in ControlPlane /\ Phase \in DOMAIN NextPhase
        /\ Command[p.phase] = StageOf[Phase]
    BY <1>2, <1>3 DEF Rotating, CommandsLive
  <2>2. CASE KeysSame
    BY <2>1, <2>2 DEF KeysSame, Phase
  <2>3. ~RotationBegins
    BY <2>1 DEF RotationBegins
  <2>4. CASE CommandEnds
    <3>1. Phase' = NextPhase[Phase] /\ Phase \in CommandPhases
      BY <2>4 DEF CommandEnds, PhaseEnds, Phase
    <3>2. QED
      BY <2>1, <3>1, PhasesInOrder
  <2>5. ~RestartsEnd
    <3>1. SUFFICES ASSUME RestartsEnd PROVE FALSE
      OBVIOUS
    <3>2. Phase \in RestartPhases /\ Now(secret[m].applied)
      BY <2>1, <3>1 DEF RestartsEnd
    <3>3. RestartsCountOn(m)
      BY <3>2 DEF Rotating, RestartsCount
    <3>4. secret[m].applied \in Kept(m) /\ secret[m].applied \in Seen(m)
      BY DEF Kept, Seen
    <3>5. secret[m].plan.kind # "encrypt" /\ working[m].plan.kind # "encrypt"
      BY <3>2, <3>3, <3>4 DEF RestartsCountOn
    <3>6. QED
      BY <1>2, <1>3, <3>5
  <2>6. QED
    BY <1>1, <2>2, <2>3, <2>4, <2>5 DEF GoesElsewhere, HandsCommand,
       HandsRestart
<1>4. CASE p \notin {secret[m].plan, working[m].plan}
  <2>1. p = secret'[m].plan /\ secret'[m].plan # secret[m].plan
    BY <1>2, <1>4
  <2>2. HandsCommand
    BY <1>1, <1>2, <2>1 DEF GoesElsewhere, RotationBegins, HandsRestart,
       CommandEnds, RestartsEnd, PhaseEnds
  <2>3. /\ Phase \in CommandPhases /\ Phase' = Phase /\ p.phase = Phase
        /\ m \in ControlPlane
    BY <2>1, <2>2 DEF HandsCommand, KeysSame, Phase
  <2>4. QED
    BY <2>3, PhasesInOrder
<1>5. QED
  BY <1>3, <1>4

LEMMA ActStageFits ==
  ASSUME Basics, Rotating, Act
  PROVE  StageFits'
<1>1. /\ RoundLeaves
      /\ \/ GoesElsewhere \/ RotationBegins \/ HandsCommand \/ CommandEnds
         \/ HandsRestart \/ RestartsEnd
  BY RoundRotates DEF Rotating
<1>2. keyStage' = keyStage /\ AllLoaded' = AllLoaded
  BY <1>1, RoundAssumption DEF RoundLeaves, AllLoaded
<1>3. CASE KeysSame
  BY <1>2, <1>3 DEF Rotating, StageFits, KeysSame, Phase
<1>4. CASE RotationBegins
  <2>1. Phase' = "Prepare" /\ Phase \in {"", "Done"}
    BY <1>4, PhasesKnown, KeysTyped DEF RotationBegins, Phase, Rotating, KeysInOrder
  <2>2. keyStage \in {"start", "reencrypt"} /\ AllLoaded
    BY <2>1 DEF Rotating, StageFits
  <2>3. "Prepare" \in CommandPhases /\ "Prepare" \notin RestartPhases
        /\ keyStage \in Takes[StageOf["Prepare"]]
    BY <2>2, PhasesInOrder
  <2>4. QED
    BY <1>2, <2>1, <2>2, <2>3 DEF StageFits
<1>5. CASE CommandEnds
  <2>1. Phase \in CommandPhases /\ Phase' = NextPhase[Phase] /\ pc = "act"
    BY <1>1, <1>5 DEF CommandEnds, PhaseEnds, Phase, RoundLeaves
  <2>2. PICK m \in ControlPlane : view[m].out = Command[Phase]
    BY <1>5 DEF CommandEnds
  <2>3. /\ Phase' \in RestartPhases /\ StageOf[Phase'] = StageOf[Phase]
        /\ StageOf[Phase] = Command[Phase] /\ Phase' \notin CommandPhases
        /\ Phase' # "" /\ Phase' # "Done"
    BY <2>1, PhasesInOrder
  <2>4. keyStage = StageOf[Phase]
    BY <2>1, <2>2, <2>3 DEF Rotating, RoundTold
  <2>5. QED
    BY <1>2, <2>3, <2>4 DEF StageFits
<1>6. CASE RestartsEnd
  <2>1. Phase \in RestartPhases /\ Phase' = NextPhase[Phase]
    BY <1>6 DEF RestartsEnd, PhaseEnds, Phase
  <2>2. keyStage = StageOf[Phase]
    BY <2>1 DEF Rotating, StageFits
  <2>3. AllLoaded
    <3>1. SUFFICES ASSUME NEW m \in ControlPlane
                   PROVE  loaded[m] = keyStage /\ secret[m].out \in {"", keyStage}
      BY DEF AllLoaded
    <3>2. m \in Machines /\ Now(secret[m].applied)
      BY <1>6, RoundAssumption DEF RestartsEnd
    <3>3. RestartsCountOn(m) /\ secret[m].applied \in Kept(m)
      BY <2>1, <3>2 DEF Rotating, RestartsCount, Kept, Seen
    <3>4. QED
      BY <3>2, <3>3 DEF RestartsCountOn
  <2>4. /\ Phase' # "" /\ Phase' \notin RestartPhases
        /\ Phase' = "Done" => keyStage = "reencrypt"
        /\ Phase' \in CommandPhases => keyStage \in Takes[StageOf[Phase']]
    <3>1. \/ Phase' = "Done" /\ StageOf[Phase] = "reencrypt"
          \/ /\ Phase' \in CommandPhases
             /\ StageOf[Phase] \in Takes[StageOf[Phase']]
      BY <2>1, PhasesInOrder
    <3>2. QED
      BY <2>2, <3>1, PhasesInOrder
  <2>5. QED
    BY <1>2, <2>3, <2>4 DEF StageFits
<1>7. QED
  BY <1>1, <1>3, <1>4, <1>5, <1>6 DEF GoesElsewhere, HandsCommand, HandsRestart

LEMMA ActRestartsCount ==
  ASSUME Basics, Rotating, Act
  PROVE  RestartsCount'
<1>1. /\ RoundLeaves
      /\ \/ GoesElsewhere \/ RotationBegins \/ HandsCommand \/ CommandEnds
         \/ HandsRestart \/ RestartsEnd
  BY RoundRotates DEF Rotating
<1>2. KeysWanted' = KeysWanted
  BY <1>1 DEF RoundLeaves, KeysWanted
<1>3. SUFFICES ASSUME Phase' \in RestartPhases, NEW m \in Machines,
                      NEW p \in Kept(m)', p.kind = "restart",
                      p.phase = Phase', p.gen = KeysWanted
               PROVE  /\ secret'[m].plan.kind # "encrypt"
                      /\ p \in Seen(m)' => working'[m].plan.kind # "encrypt"
                      /\ p \in Marked(m)' =>
                           \/ loaded'[m] = keyStage'
                           \/ working'[m] = [plan |-> p, fresh |-> TRUE]
                      /\ working'[m] = [plan |-> p, fresh |-> FALSE] =>
                           loaded'[m] = keyStage'
                      /\ p \in {secret'[m].applied, secret'[m].sum} =>
                           /\ loaded'[m] = keyStage'
                           /\ secret'[m].out \in {"", keyStage'}
  BY <1>2 DEF RestartsCount, RestartsCountOn, Now
<1>4. KeysSame /\ ~HandsCommand
  <2>1. ~RotationBegins /\ ~RestartsEnd /\ ~HandsCommand
    BY <1>3, PhasesInOrder DEF RotationBegins, RestartsEnd, PhaseEnds,
       HandsCommand, KeysSame, Phase
  <2>2. ~CommandEnds
    <3>1. SUFFICES ASSUME CommandEnds PROVE FALSE
      OBVIOUS
    <3>2. Phase \in CommandPhases /\ Phase' = NextPhase[Phase]
          /\ UNCHANGED secret
      BY <3>1 DEF CommandEnds, PhaseEnds, Phase
    <3>3. p \in Kept(m)
      BY <1>1, <1>3, <3>2, RoundSeen DEF Kept
    <3>4. \/ Phase \in DOMAIN NextPhase /\ Rank[p.phase] <= Rank[Phase]
          \/ Phase = "Done"
      BY <1>3, <3>3 DEF Rotating, RestartsPast
    <3>5. Phase # "Done" /\ Rank[Phase] \in Nat
          /\ Rank[p.phase] = Rank[Phase] + 1
      <4>1. p.phase = NextPhase[Phase] /\ Phase \in DOMAIN NextPhase
        BY <1>3, <3>2, PhasesInOrder
      <4>2. Phase # "Done" /\ Rank[Phase] \in Nat
        BY <4>1, PhasesInOrder
      <4>3. Rank[NextPhase[Phase]] = Rank[Phase] + 1
        BY <3>2, PhasesInOrder
      <4>4. QED
        BY <4>1, <4>2, <4>3
    <3>6. QED
      BY <3>4, <3>5
  <2>3. QED
    BY <1>1, <2>1, <2>2 DEF GoesElsewhere, HandsRestart
<1>5. Phase' = Phase
  BY <1>4 DEF KeysSame, Phase
<1>6. \/ secret'[m].plan = secret[m].plan
      \/ secret'[m].plan.kind # "encrypt"
  BY <1>1, <1>4 DEF GoesElsewhere, HandsRestart, RotationBegins, CommandEnds,
     RestartsEnd, PhaseEnds
<1>7. /\ Marked(m)' = Marked(m) /\ Seen(m)' \subseteq Seen(m)
      /\ Kept(m)' \subseteq Seen(m) \cup {secret'[m].plan}
      /\ UNCHANGED <<working, keyStage, loaded>>
      /\ secret'[m].sum = secret[m].sum /\ secret'[m].out = secret[m].out
      /\ secret'[m].applied \in {secret[m].applied, secret[m].sum}
  BY <1>1, RoundSeen DEF RoundLeaves
<1>8. CASE p \in Kept(m)
  <2>1. RestartsCountOn(m) /\ Now(p)
    BY <1>3, <1>5 DEF Rotating, RestartsCount, Now
  <2>2. /\ secret[m].plan.kind # "encrypt"
        /\ p \in Seen(m) => working[m].plan.kind # "encrypt"
        /\ p \in Marked(m) =>
             loaded[m] = keyStage \/ working[m] = [plan |-> p, fresh |-> TRUE]
        /\ working[m] = [plan |-> p, fresh |-> FALSE] => loaded[m] = keyStage
        /\ p \in {secret[m].applied, secret[m].sum} =>
             loaded[m] = keyStage /\ secret[m].out \in {"", keyStage}
    BY <1>8, <2>1 DEF RestartsCountOn
  <2>3. QED
    BY <1>6, <1>7, <2>2
<1>9. CASE p \notin Kept(m)
  <2>1. p \notin Seen(m) /\ p = secret'[m].plan
    BY <1>3, <1>7, <1>9 DEF Kept
  <2>2. /\ p \notin Marked(m) /\ p # working[m].plan
        /\ p \notin {secret[m].applied, secret[m].sum}
    BY <2>1 DEF Seen
  <2>3. working[m] # [plan |-> p, fresh |-> FALSE]
    BY <2>2
  <2>4. QED
    BY <1>3, <1>7, <2>1, <2>2, <2>3
<1>10. QED
  BY <1>8, <1>9

LEMMA ActRotating ==
  ASSUME Basics, Rotating, Act
  PROVE  Rotating'
  BY ActInOrder, ActRestartsPast, ActCommandsLive, ActStageFits,
     ActRestartsCount DEF Rotating

-----------------------------------------------------------------------------
(* What a node does.                                                        *)

NodeLeaves(m) ==
  /\ UNCHANGED <<asked, status, pc, cp, view>>
  /\ ran' \subseteq ran /\ restored \subseteq restored'
  /\ working' = [working EXCEPT ![m] = Resting]
  /\ loaded'[m] \in {loaded[m], keyStage}
  /\ \A n \in Machines : secret'[n].plan = secret[n].plan
  /\ \A n \in Machines \ {m} :
       /\ secret'[n].sum = secret[n].sum /\ secret'[n].out = secret[n].out
       /\ secret'[n].applied = secret[n].applied /\ loaded'[n] = loaded[n]

\* A restart that fails is not marked as run, one that is carried out at the
\* first attempt has loaded the keys.
NodeTells(m) ==
  LET p == working[m].plan
  IN \/ /\ secret'[m].sum = secret[m].sum /\ secret'[m].out = secret[m].out
        /\ secret'[m].applied = secret[m].applied
        /\ p.kind = "restart" => <<m, p>> \notin ran'
     \/ /\ secret'[m].sum = p /\ secret'[m].applied \in {secret[m].applied, p}
        /\ secret'[m].out \in {"", loaded'[m], keyStage'}
        /\ p.kind = "restart" /\ working[m].fresh => loaded'[m] = keyStage

\* The stage changes by a command of which it is the turn, or by a restore.
NodeStage(m) ==
  LET p == working[m].plan
  IN \/ UNCHANGED keyStage \/ restored' # {}
     \/ /\ p.kind = "encrypt" /\ keyStage \in Takes[Command[p.phase]]
        /\ keyStage' = Command[p.phase]

LEMMA NodeKeys ==
  ASSUME Basics, NEW m \in Machines, NodeRuns(m) \/ AgentFails(m)
  PROVE  NodeLeaves(m) /\ NodeTells(m) /\ NodeStage(m)
<1> DEFINE p == working[m].plan
           Loads == /\ loaded' \in {loaded, [loaded EXCEPT ![m] = keyStage]}
                    /\ working[m].fresh /\ p.kind = "restart" =>
                         loaded' = [loaded EXCEPT ![m] = keyStage]
           Tells == \/ PlanFails(m)
                    \/ \E out \in {"", loaded'[m], keyStage'} : AgentReports(m, out)
<1>1. Typed /\ loaded \in [Machines -> KeyStages] /\ keyStage \in KeyStages
      /\ working \in [Machines -> [plan : PlanType, fresh : BOOLEAN]]
  BY DEF Basics, Typed
<1>2. NodeTyped
  BY NodeEffect DEF Basics
<1>3. /\ \/ Loads
         \/ AgentFails(m) /\ UNCHANGED loaded
      /\ Tells /\ NodeStage(m)
  <2>1. CASE NodeRunsDesired(m)
    <3>1. /\ p.kind # "restart" /\ UNCHANGED keyStage /\ AgentReports(m, "")
          /\ loaded' \in {loaded, [loaded EXCEPT ![m] = keyStage]}
      BY <2>1 DEF NodeRunsDesired, Runs, StartsService
    <3>2. Tells
      BY <3>1
    <3>3. QED
      BY <3>1, <3>2 DEF NodeStage
  <2>2. CASE NodeSnapshots(m)
    BY <2>2 DEF NodeSnapshots, Runs, NodeStage
  <2>3. CASE NodeStops(m)
    BY <2>3 DEF NodeStops, Runs, NodeStage
  <2>4. CASE NodeRestores(m)
    <3>1. /\ p.kind = "restore" /\ UNCHANGED loaded /\ AgentReports(m, "")
          /\ UNCHANGED keyStage \/ restored' = restored \cup {p.gen}
      BY <2>4 DEF NodeRestores, Runs
    <3>2. Tells
      BY <3>1
    <3>3. QED
      BY <3>1, <3>2 DEF NodeStage
  <2>5. CASE NodeRotatesCerts(m)
    <3>1. /\ p.kind # "restart" /\ UNCHANGED keyStage /\ AgentReports(m, "")
          /\ loaded' \in {loaded, [loaded EXCEPT ![m] = keyStage]}
      BY <2>5 DEF NodeRotatesCerts, Runs, StartsService
    <3>2. Tells
      BY <3>1
    <3>3. QED
      BY <3>1, <3>2 DEF NodeStage
  <2>6. CASE NodeEncrypts(m)
    <3>1. p.kind = "encrypt" /\ UNCHANGED loaded /\ AgentReports(m, keyStage')
      BY <2>6 DEF NodeEncrypts, Runs
    <3>2. NodeStage(m)
      BY <2>6, <3>1 DEF NodeEncrypts, NodeStage
    <3>3. QED
      BY <3>1, <3>2
  <2>7. CASE NodeRefuses(m)
    BY <2>7 DEF NodeRefuses, Runs, NodeStage
  <2>8. CASE NodeRestarts(m)
    <3>1. Loads /\ UNCHANGED keyStage
      BY <2>8 DEF NodeRestarts, StartsService
    <3>2. \/ PlanFails(m) \/ AgentReports(m, "")
          \/ AgentReports(m, loaded'[m])
      BY <2>8 DEF NodeRestarts
    <3>3. QED
      BY <3>1, <3>2 DEF NodeStage
  <2>9. CASE AgentFails(m)
    BY <2>9 DEF AgentFails, NodeStage
  <2>10. QED
    BY <2>1, <2>2, <2>3, <2>4, <2>5, <2>6, <2>7, <2>8, <2>9 DEF NodeRuns
<1>4. /\ loaded'[m] \in {loaded[m], keyStage}
      /\ \A n \in Machines \ {m} : loaded'[n] = loaded[n]
  BY <1>1, <1>3
<1>5. loaded'[m] \in KeyStages /\ keyStage' \in KeyStages
  BY <1>2 DEF NodeTyped
<1>6. CASE PlanFails(m)
  <2>1. p.kind = "restart" => <<m, p>> \notin ran'
    BY <1>6 DEF PlanFails
  <2>2. NodeLeaves(m)
    BY <1>1, <1>2, <1>4, <1>6, ReportedFailed DEF NodeLeaves, NodeTyped,
       requestVars, readVars
  <2>3. NodeTells(m)
    BY <1>1, <1>6, <2>1, ReportedFailed DEF NodeTells
  <2>4. QED
    BY <1>3, <2>2, <2>3
<1>7. CASE ~PlanFails(m)
  <2>1. PICK out \in {"", loaded'[m], keyStage'} : AgentReports(m, out)
    BY <1>3, <1>7
  <2>2. out \in KeyStages \cup {""}
    BY <1>5, <2>1
  <2>3. /\ secret' \in [Machines -> SecretType]
        /\ \A n \in Machines \ {m} : secret'[n] = secret[n]
        /\ secret'[m].plan = secret[m].plan /\ secret'[m].sum = p
        /\ secret'[m].applied \in {secret[m].applied, p}
        /\ secret'[m].out = out
        /\ working' = [working EXCEPT ![m] = Resting]
        /\ UNCHANGED <<requestVars, status, paused, unfit, readVars>>
    BY <1>1, <2>1, <2>2, Reported
  <2>4. p.kind = "restart" /\ working[m].fresh => loaded'[m] = keyStage
    BY <1>1, <1>3, <1>7 DEF AgentFails
  <2>5. NodeLeaves(m)
    BY <1>2, <1>4, <2>3 DEF NodeLeaves, NodeTyped, requestVars, readVars
  <2>6. NodeTells(m)
    BY <2>1, <2>3, <2>4 DEF NodeTells
  <2>7. QED
    BY <1>3, <2>5, <2>6
<1>8. QED
  BY <1>6, <1>7

\* As long as nothing is restored, a stage follows on another only when all
\* have loaded that.
LEMMA NodeStages ==
  ASSUME Basics, Rotating, NEW m \in Machines, NodeRuns(m) \/ AgentFails(m),
         restored' = {}
  PROVE  \/ UNCHANGED keyStage
         \/ Phase \in CommandPhases /\ keyStage' = StageOf[Phase] /\ AllLoaded
<1>1. SUFFICES ASSUME keyStage' # keyStage
               PROVE  /\ Phase \in CommandPhases /\ keyStage' = StageOf[Phase]
                      /\ AllLoaded
  OBVIOUS
<1> DEFINE p == working[m].plan
<1>2. /\ p.kind = "encrypt" /\ keyStage \in Takes[Command[p.phase]]
      /\ keyStage' = Command[p.phase]
  BY <1>1, NodeKeys DEF NodeStage
<1>3. Phase \in DOMAIN NextPhase /\ Command[p.phase] = StageOf[Phase]
  <2>1. CommandsLive /\ p \in {secret[m].plan, working[m].plan}
    BY DEF Rotating
  <2>2. QED
    BY <1>2, <2>1 DEF CommandsLive
<1>4. keyStage # StageOf[Phase]
  <2>1. StageOf[Phase] \notin Takes[StageOf[Phase]]
    BY <1>3, PhasesInOrder
  <2>2. keyStage \in Takes[StageOf[Phase]]
    BY <1>2, <1>3
  <2>3. QED
    BY <2>1, <2>2
<1>5. Phase \in CommandPhases
  BY <1>3, <1>4, PhasesInOrder DEF Rotating, StageFits
<1>6. AllLoaded
  BY <1>4, <1>5 DEF Rotating, StageFits
<1>7. QED
  BY <1>2, <1>3, <1>5, <1>6

LEMMA NodeRotating ==
  ASSUME Basics, Rotating, NEW m \in Machines, NodeRuns(m) \/ AgentFails(m),
         restored' = {}
  PROVE  Rotating'
<1>1. NodeLeaves(m) /\ NodeTells(m)
  BY NodeKeys
<1>2. KeysWanted' = KeysWanted /\ Phase' = Phase /\ UNCHANGED status
  BY <1>1 DEF NodeLeaves, KeysWanted, Phase
<1>3. /\ working \in [Machines -> [plan : PlanType, fresh : BOOLEAN]]
      /\ NoPlan.kind = "none"
  BY DEF Basics, Typed, NoPlan, Plan
<1>4. \A n \in Machines :
        /\ secret'[n].plan = secret[n].plan
        /\ working'[n].plan \in {working[n].plan, NoPlan}
  BY <1>1, <1>3 DEF NodeLeaves, Resting
<1>5. ASSUME NEW n \in Machines
      PROVE  /\ Marked(n)' \subseteq Marked(n)
             /\ Seen(n)' \subseteq Seen(n) \cup {NoPlan}
             /\ Kept(n)' \subseteq Kept(n) \cup {NoPlan}
  <2>1. Marked(n)' \subseteq Marked(n)
    BY <1>1 DEF NodeLeaves, Marked
  <2>2. {secret'[n].applied, secret'[n].sum} \subseteq
          {secret[n].applied, secret[n].sum, working[n].plan}
    BY <1>1 DEF NodeLeaves, NodeTells
  <2>3. Seen(n)' \subseteq Seen(n) \cup {NoPlan}
    BY <1>4, <2>1, <2>2 DEF Seen
  <2>4. QED
    BY <1>4, <2>1, <2>3 DEF Kept
<1>6. KeysInOrder'
  BY <1>2 DEF Rotating, KeysInOrder
<1>7. RestartsPast'
  <2>1. SUFFICES ASSUME NEW n \in Machines, NEW p \in Kept(n)',
                        p.kind = "restart"
                 PROVE  p \in Kept(n)
    BY <1>2 DEF Rotating, RestartsPast
  <2>2. QED
    BY <1>3, <1>5, <2>1
<1>8. CommandsLive'
  BY <1>2, <1>3, <1>4 DEF Rotating, CommandsLive
<1>9. \/ UNCHANGED keyStage
      \/ Phase \in CommandPhases /\ keyStage' = StageOf[Phase] /\ AllLoaded
  BY NodeStages
<1>10. StageFits'
  <2>1. CASE UNCHANGED keyStage
    <3>1. AllLoaded => AllLoaded'
      BY <1>1, <2>1, RoundAssumption DEF AllLoaded, NodeLeaves, NodeTells
    <3>2. QED
      BY <1>2, <2>1, <3>1 DEF Rotating, StageFits
  <2>2. CASE Phase \in CommandPhases /\ keyStage' = StageOf[Phase]
    <3>1. Phase # "" /\ Phase # "Done" /\ Phase \notin RestartPhases
      BY <2>2, PhasesInOrder
    <3>2. QED
      BY <1>2, <2>2, <3>1 DEF StageFits
  <2>3. QED
    BY <1>9, <2>1, <2>2
<1>11. RoundTold'
  BY <1>1, <1>2, <1>9 DEF Rotating, RoundTold, NodeLeaves
<1>12. RestartsCount'
  <2>1. SUFFICES ASSUME Phase \in RestartPhases, NEW n \in Machines
                 PROVE  RestartsCountOn(n)'
    BY <1>2 DEF RestartsCount
  <2>2. keyStage' = keyStage /\ RestartsCountOn(n)
    BY <1>9, <2>1, PhasesInOrder DEF Rotating, RestartsCount
  <2>3. SUFFICES ASSUME NEW p \in Kept(n)', Now(p)
                 PROVE  /\ secret'[n].plan.kind # "encrypt"
                        /\ p \in Seen(n)' => working'[n].plan.kind # "encrypt"
                        /\ p \in Marked(n)' =>
                             \/ loaded'[n] = keyStage
                             \/ working'[n] = [plan |-> p, fresh |-> TRUE]
                        /\ working'[n] = [plan |-> p, fresh |-> FALSE] =>
                             loaded'[n] = keyStage
                        /\ p \in {secret'[n].applied, secret'[n].sum} =>
                             /\ loaded'[n] = keyStage
                             /\ secret'[n].out \in {"", keyStage}
    BY <1>2, <2>2 DEF RestartsCountOn, Now
  <2>4. p.kind = "restart" /\ p # NoPlan /\ p \in Kept(n)
    BY <1>3, <1>5, <2>3 DEF Now
  <2>5. /\ secret[n].plan.kind # "encrypt"
        /\ p \in Seen(n) => working[n].plan.kind # "encrypt"
        /\ p \in Marked(n) =>
             loaded[n] = keyStage \/ working[n] = [plan |-> p, fresh |-> TRUE]
        /\ working[n] = [plan |-> p, fresh |-> FALSE] => loaded[n] = keyStage
        /\ p \in {secret[n].applied, secret[n].sum} =>
             loaded[n] = keyStage /\ secret[n].out \in {"", keyStage}
    BY <2>2, <2>3, <2>4 DEF RestartsCountOn
  <2>6. CASE n # m
    <3>1. /\ working'[n] = working[n] /\ loaded'[n] = loaded[n]
          /\ secret'[n].sum = secret[n].sum /\ secret'[n].out = secret[n].out
          /\ secret'[n].applied = secret[n].applied
      BY <1>1, <1>3, <2>6 DEF NodeLeaves
    <3>2. QED
      BY <1>4, <1>5, <2>4, <2>5, <3>1
  <2>7. CASE n = m
    <3> DEFINE q == working[m].plan
    <3>1. /\ working'[m] = Resting /\ Resting.plan = NoPlan
          /\ loaded'[m] \in {loaded[m], keyStage}
      BY <1>1, <1>3 DEF NodeLeaves, Resting
    <3>2. /\ working'[m].plan.kind # "encrypt"
          /\ working'[m] # [plan |-> p, fresh |-> FALSE]
      BY <1>3, <2>4, <3>1
    <3>3. /\ working[m] = [plan |-> q, fresh |-> TRUE]
             \/ working[m] = [plan |-> q, fresh |-> FALSE]
          /\ working[m] = [plan |-> q, fresh |-> TRUE] => working[m].fresh
      BY <1>3
    <3>4. p = q => \/ /\ <<m, q>> \notin ran'
                      /\ secret'[m].sum = secret[m].sum
                      /\ secret'[m].applied = secret[m].applied
                   \/ loaded'[m] = keyStage
      BY <1>1, <2>4, <2>5, <2>7, <3>1, <3>3 DEF NodeTells
    <3>5. p \in Marked(m)' => loaded'[m] = keyStage
      <4>1. SUFFICES ASSUME p \in Marked(m)' PROVE loaded'[m] = keyStage
        OBVIOUS
      <4>2. p \in Marked(m) /\ <<m, p>> \in ran'
        BY <1>5, <4>1 DEF Marked
      <4>3. loaded[m] = keyStage \/ working[m] = [plan |-> p, fresh |-> TRUE]
        BY <2>5, <2>7, <4>2
      <4>4. loaded[m] = keyStage \/ p = q
        BY <4>3
      <4>5. QED
        BY <3>1, <3>4, <4>2, <4>4
    <3>6. p \in {secret'[m].applied, secret'[m].sum} =>
            loaded'[m] = keyStage /\ secret'[m].out \in {"", keyStage}
      <4>1. SUFFICES ASSUME p \in {secret'[m].applied, secret'[m].sum}
                     PROVE  /\ loaded'[m] = keyStage
                            /\ secret'[m].out \in {"", keyStage}
        OBVIOUS
      <4>2. CASE p \in {secret[m].applied, secret[m].sum}
        BY <1>1, <2>2, <2>5, <2>7, <3>1, <4>2 DEF NodeTells
      <4>3. CASE p \notin {secret[m].applied, secret[m].sum}
        <5>1. p = q /\ secret'[m].out \in {"", loaded'[m], keyStage'}
          BY <1>1, <4>1, <4>3 DEF NodeTells
        <5>2. loaded'[m] = keyStage
          BY <3>4, <4>1, <4>3, <5>1
        <5>3. QED
          BY <2>2, <5>1, <5>2
      <4>4. QED
        BY <4>2, <4>3
    <3>7. QED
      BY <1>4, <2>5, <2>7, <3>2, <3>5, <3>6
  <2>8. QED
    BY <2>6, <2>7
<1>13. QED
  BY <1>6, <1>7, <1>8, <1>10, <1>11, <1>12 DEF Rotating

\* An agent starts on what its secret says.
LEMMA StartRotating ==
  ASSUME Basics, Rotating, NEW m \in Machines, AgentStart(m)
  PROVE  Rotating'
<1> DEFINE q == secret[m].plan
           first == secret[m].failed # q
           fresh == ~first \/ <<m, q>> \notin ran
<1>1. /\ UNCHANGED <<asked, status, secret, pc, cp, view, keyStage, loaded>>
      /\ working[m] = Resting
      /\ working' = [working EXCEPT ![m] = [plan |-> q, fresh |-> fresh]]
      /\ ran' = IF ~Wrapped(q) THEN ran
                ELSE IF first THEN ran \cup {<<m, q>>} ELSE ran \ {<<m, q>>}
  BY DEF AgentStart, requestVars, readVars
<1>2. /\ KeysWanted' = KeysWanted /\ Phase' = Phase
      /\ working \in [Machines -> [plan : PlanType, fresh : BOOLEAN]]
      /\ NoPlan.kind = "none" /\ Resting.plan = NoPlan
  BY <1>1 DEF KeysWanted, Phase, Basics, Typed, NoPlan, Plan, Resting
<1>3. /\ working'[m] = [plan |-> q, fresh |-> fresh]
      /\ \A n \in Machines \ {m} : working'[n] = working[n]
  BY <1>1, <1>2
<1> HIDE DEF fresh
<1>4. ASSUME NEW n \in Machines
      PROVE  /\ n # m => Marked(n)' = Marked(n)
             /\ Marked(n)' \subseteq Marked(n) \cup {secret[n].plan}
             /\ Seen(n)' \subseteq Kept(n) /\ Kept(n)' \subseteq Kept(n)
  <2>1. n # m => Marked(n)' = Marked(n)
    BY <1>1 DEF Marked
  <2>2. Marked(n)' \subseteq Marked(n) \cup {secret[n].plan}
    BY <1>1, <2>1 DEF Marked
  <2>3. working'[n].plan \in {working[n].plan, secret[n].plan}
    BY <1>3
  <2>4. QED
    BY <1>1, <2>1, <2>2, <2>3 DEF Seen, Kept
<1>5. KeysInOrder' /\ StageFits' /\ RoundTold'
  <2>1. AllLoaded' = AllLoaded
    BY <1>1 DEF AllLoaded
  <2>2. QED
    BY <1>1, <1>2, <2>1 DEF Rotating, KeysInOrder, StageFits, RoundTold
<1>6. RestartsPast'
  <2>1. SUFFICES ASSUME NEW n \in Machines, NEW p \in Kept(n)',
                        p.kind = "restart"
                 PROVE  p \in Kept(n)
    BY <1>1, <1>2 DEF Rotating, RestartsPast
  <2>2. QED
    BY <1>4, <2>1
<1>7. CommandsLive'
  <2>1. \A n \in Machines : working'[n].plan \in {working[n].plan, secret[n].plan}
    BY <1>3
  <2>2. QED
    BY <1>1, <1>2, <2>1 DEF Rotating, CommandsLive
<1>8. RestartsCount'
  <2>1. SUFFICES ASSUME Phase \in RestartPhases, NEW n \in Machines,
                        NEW p \in Kept(n)', Now(p)
                 PROVE  /\ secret[n].plan.kind # "encrypt"
                        /\ p \in Seen(n)' => working'[n].plan.kind # "encrypt"
                        /\ p \in Marked(n)' =>
                             \/ loaded[n] = keyStage
                             \/ working'[n] = [plan |-> p, fresh |-> TRUE]
                        /\ working'[n] = [plan |-> p, fresh |-> FALSE] =>
                             loaded[n] = keyStage
                        /\ p \in {secret[n].applied, secret[n].sum} =>
                             /\ loaded[n] = keyStage
                             /\ secret[n].out \in {"", keyStage}
    BY <1>1, <1>2 DEF RestartsCount, RestartsCountOn, Now
  <2>2. RestartsCountOn(n) /\ p \in Kept(n) /\ p.kind = "restart"
    BY <1>4, <2>1 DEF Rotating, RestartsCount, Now
  <2>3. /\ secret[n].plan.kind # "encrypt"
        /\ p \in Seen(n) => working[n].plan.kind # "encrypt"
        /\ p \in Marked(n) =>
             loaded[n] = keyStage \/ working[n] = [plan |-> p, fresh |-> TRUE]
        /\ working[n] = [plan |-> p, fresh |-> FALSE] => loaded[n] = keyStage
        /\ p \in {secret[n].applied, secret[n].sum} =>
             loaded[n] = keyStage /\ secret[n].out \in {"", keyStage}
    BY <2>1, <2>2 DEF RestartsCountOn
  <2>4. CASE n # m
    <3>1. /\ working'[n] = working[n] /\ Marked(n)' = Marked(n)
          /\ Seen(n)' = Seen(n)
      BY <1>1, <1>3, <1>4, <2>4 DEF Seen
    <3>2. QED
      BY <2>3, <3>1
  <2>5. CASE n = m
    <3>1. working'[m].plan = q /\ q.kind # "encrypt"
      <4>1. working'[m].plan = q
        BY <1>3
      <4>2. QED
        BY <2>3, <2>5, <4>1
    <3>2. p \in Marked(m) => loaded[m] = keyStage
      <4>1. working[m] # [plan |-> p, fresh |-> TRUE]
        BY <1>1, <1>2, <2>2
      <4>2. QED
        BY <2>3, <2>5, <4>1
    <3>3. p = q => \/ fresh \/ loaded[m] = keyStage
      <4>1. SUFFICES ASSUME p = q, ~fresh PROVE loaded[m] = keyStage
        OBVIOUS
      <4>2. <<m, q>> \in ran
        BY <4>1 DEF fresh
      <4>3. q \in PlanType
        BY DEF Basics, Typed, SecretType
      <4>4. QED
        BY <3>2, <4>1, <4>2, <4>3 DEF Marked
    <3>4. p \in Marked(m)' => \/ loaded[m] = keyStage
                              \/ working'[m] = [plan |-> p, fresh |-> TRUE]
      <4>1. SUFFICES ASSUME p \in Marked(m)', loaded[m] # keyStage
                     PROVE  working'[m] = [plan |-> p, fresh |-> TRUE]
        OBVIOUS
      <4>2. p = q /\ fresh
        BY <1>4, <3>2, <3>3, <4>1
      <4>3. fresh = TRUE
        BY <4>2 DEF fresh
      <4>4. QED
        BY <1>3, <4>2, <4>3
    <3>5. working'[m] = [plan |-> p, fresh |-> FALSE] => loaded[m] = keyStage
      <4>1. SUFFICES ASSUME [plan |-> q, fresh |-> fresh]
                              = [plan |-> p, fresh |-> FALSE]
                     PROVE  loaded[m] = keyStage
        BY <1>3
      <4>2. p = q /\ fresh = FALSE
        BY <4>1
      <4>3. QED
        BY <3>3, <4>2
    <3>6. QED
      BY <2>3, <2>5, <3>1, <3>4, <3>5
  <2>6. QED
    BY <2>4, <2>5
<1>9. QED
  BY <1>5, <1>6, <1>7, <1>8 DEF Rotating

-----------------------------------------------------------------------------
(* The other steps.                                                         *)

\* A greater generation makes the plans of all before old ones.
LEMMA OthersRotating ==
  ASSUME Basics, Rotating, Basics',
         UNCHANGED <<status, secret, working, keyStage, loaded, ran>>,
         UNCHANGED <<pc, cp, view>>,
         \/ KeysWanted' = KeysWanted
         \/ KeysWanted' \in SupportedKeys /\ KeysWanted' > KeysWanted
  PROVE  Rotating'
<1>1. /\ KeysWanted \in Nat /\ KeysWanted' \in Nat /\ status.keysFor \in Nat
      /\ KeysWanted <= KeysWanted'
  <2>1. KeysWanted' \in Nat
    <3>1. asked' \in [Operations -> Nat] /\ "keys" \in Operations
      BY DEF Basics, Typed, Requests, Operations
    <3>2. QED
      BY <3>1 DEF KeysWanted
  <2>2. QED
    BY <2>1, KeysTyped
<1>2. Phase' = Phase /\ AllLoaded' = AllLoaded
      /\ \A m \in Machines : /\ Kept(m)' = Kept(m) /\ Seen(m)' = Seen(m)
                             /\ Marked(m)' = Marked(m)
  BY DEF Phase, AllLoaded, Kept, Seen, Marked
<1>3. KeysInOrder'
  <2>1. Phase # "Failed" /\ (Phase = "" <=> status.keysFor = 0)
    BY DEF Rotating, KeysInOrder
  <2>2. status.keysFor <= KeysWanted /\ KeysWanted \in SupportedKeys \cup {0}
    BY DEF Rotating, KeysInOrder
  <2>3. KeysWanted' \in SupportedKeys \cup {0}
    BY <2>2
  <2>4. status.keysFor <= KeysWanted'
    BY <1>1, <2>2
  <2>5. QED
    BY <1>2, <2>1, <2>3, <2>4 DEF KeysInOrder
<1>4. ASSUME NEW m \in Machines, NEW p \in Kept(m), p.kind = "restart"
      PROVE  /\ p.gen <= KeysWanted' /\ p.phase \in RestartPhases
             /\ p.gen = KeysWanted' => KeysWanted' = KeysWanted
  <2>1. p.gen <= KeysWanted /\ p.phase \in RestartPhases /\ p.gen \in Nat
    BY <1>4, KeysTyped DEF Rotating, RestartsPast
  <2>2. QED
    BY <1>1, <2>1
<1>5. RestartsPast'
  <2>1. SUFFICES ASSUME NEW m \in Machines, NEW p \in Kept(m),
                        p.kind = "restart", p.gen = KeysWanted'
                 PROVE  \/ Phase \in DOMAIN NextPhase
                             /\ Rank[p.phase] <= Rank[Phase]
                        \/ Phase = "Done" /\ status.keysFor = KeysWanted'
    BY <1>2, <1>4 DEF RestartsPast
  <2>2. KeysWanted' = KeysWanted
    BY <1>4, <2>1
  <2>3. QED
    BY <2>1, <2>2 DEF Rotating, RestartsPast
<1>6. CommandsLive' /\ StageFits'
  BY <1>2 DEF Rotating, CommandsLive, StageFits
<1>7. RestartsCount'
  <2>1. SUFFICES ASSUME Phase \in RestartPhases, NEW m \in Machines
                 PROVE  RestartsCountOn(m)'
    BY <1>2 DEF RestartsCount
  <2>2. RestartsCountOn(m)
    BY <2>1 DEF Rotating, RestartsCount
  <2>3. \A p \in Kept(m) : Now(p)' => Now(p)
    BY <1>2, <1>4 DEF Now
  <2>4. QED
    BY <1>2, <2>2, <2>3 DEF RestartsCountOn
<1>8. RoundTold'
  <2>1. CASE pc = "act"
    <3>1. cp.asked["keys"] \in Nat /\ cp.asked["keys"] <= KeysWanted
      BY <2>1 DEF Basics, RoundKnows, Requests, Operations, Rotating, RoundTold
    <3>2. cp.asked["keys"] <= KeysWanted'
      BY <1>1, <3>1
    <3>3. QED
      BY <1>2, <2>1, <3>2 DEF Rotating, RoundTold
  <2>2. CASE pc # "act"
    BY <2>2 DEF RoundTold
  <2>3. QED
    BY <2>1, <2>2
<1>9. QED
  BY <1>3, <1>5, <1>6, <1>7, <1>8 DEF Rotating

LEMMA ReadRotating ==
  ASSUME Basics, Rotating, Read
  PROVE  Rotating'
<1>1. /\ UNCHANGED <<asked, status, secret, working, keyStage, loaded, ran>>
      /\ view' = secret /\ cp'.asked = asked
  BY DEF Read, requestVars, agentVars, nodeVars
<1>2. /\ Phase' = Phase /\ AllLoaded' = AllLoaded
      /\ KeysWanted' = KeysWanted
      /\ \A m \in Machines : /\ Kept(m)' = Kept(m) /\ Seen(m)' = Seen(m)
                             /\ Marked(m)' = Marked(m)
  BY <1>1 DEF Phase, AllLoaded, KeysWanted, Kept, Seen, Marked
<1>3. KeysInOrder' /\ RestartsPast' /\ CommandsLive' /\ StageFits'
  BY <1>1, <1>2 DEF Rotating, KeysInOrder, RestartsPast, CommandsLive, StageFits
<1>4. RestartsCount'
  <2>1. \A m \in Machines : RestartsCountOn(m) => RestartsCountOn(m)'
    BY <1>1, <1>2 DEF RestartsCountOn, Now
  <2>2. QED
    BY <1>2, <2>1 DEF Rotating, RestartsCount
<1>5. RoundTold'
  <2>1. /\ KeysWanted \in Nat /\ status.keysFor \in Nat
        /\ KeysWanted \in SupportedKeys \cup {0}
        /\ status.keysFor <= KeysWanted
    BY KeysTyped DEF Rotating, KeysInOrder
  <2>2. KeysWanted = 0 => Phase = "" /\ status.keysFor = 0
    <3>1. KeysWanted = 0 => status.keysFor = 0
      BY <2>1
    <3>2. status.keysFor = 0 => Phase = ""
      BY DEF Rotating, KeysInOrder
    <3>3. QED
      BY <3>1, <3>2
  <2>3. ASSUME Phase \in CommandPhases, NEW m \in ControlPlane,
               secret[m].out = StageOf[Phase]
        PROVE  keyStage = StageOf[Phase]
    <3>1. SUFFICES ASSUME keyStage # StageOf[Phase] PROVE FALSE
      OBVIOUS
    <3>2. AllLoaded
      BY <2>3, <3>1 DEF Rotating, StageFits
    <3>3. StageOf[Phase] # ""
      <4>1. StageOf[Phase] = Command[Phase] /\ Command[Phase] \in KeyStages
        BY <2>3, PhasesInOrder, PhasesKnown
      <4>2. QED
        BY <4>1 DEF KeyStages
    <3>4. QED
      BY <2>3, <3>1, <3>2, <3>3 DEF AllLoaded
  <2>4. cp'.asked["keys"] = KeysWanted
    BY <1>1 DEF KeysWanted
  <2>5. KeysWanted <= KeysWanted /\ UNCHANGED <<status, keyStage>>
    BY <1>1, <2>1
  <2>6. QED
    BY <1>1, <1>2, <2>1, <2>2, <2>3, <2>4, <2>5 DEF RoundTold
<1>6. QED
  BY <1>3, <1>4, <1>5 DEF Rotating

LEMMA InitRotating == Init => KeysKept
<1>1. SUFFICES ASSUME Init PROVE Rotating
  BY InitBasics DEF KeysKept
<1>2. /\ Phase = "" /\ status.keysFor = 0 /\ KeysWanted = 0 /\ pc = "idle"
      /\ keyStage = "start" /\ \A m \in Machines : loaded[m] = "start"
  <2>1. "keys" \in Operations /\ asked = [o \in Operations |-> 0]
    BY <1>1 DEF Init, Operations
  <2>2. status = Provisioned /\ pc = "idle" /\ keyStage = "start"
        /\ loaded = [m \in Machines |-> "start"]
    BY <1>1 DEF Init
  <2>3. QED
    BY <2>1, <2>2 DEF Provisioned, Phase, KeysWanted
<1>3. ASSUME NEW m \in Machines
      PROVE  /\ secret[m].out = "" /\ secret[m].plan.kind = "desired"
             /\ \A p \in Kept(m) : p.kind \in {"desired", "none"}
  <2> DEFINE d == DesiredPlan(Provisioned)
  <2>1. secret[m] = Secret(d, "forever", d, d, NoPlan, "")
        /\ working[m] = Resting /\ ran = {}
    BY <1>1 DEF Init
  <2>2. d.kind = "desired" /\ NoPlan.kind = "none" /\ Resting.plan = NoPlan
    BY DEF DesiredPlan, NoPlan, Plan, Resting
  <2> HIDE DEF d
  <2>3. /\ Secret(d, "forever", d, d, NoPlan, "").plan = d
        /\ Secret(d, "forever", d, d, NoPlan, "").applied = d
        /\ Secret(d, "forever", d, d, NoPlan, "").sum = d
        /\ Secret(d, "forever", d, d, NoPlan, "").out = ""
    BY DEF Secret
  <2>4. QED
    BY <2>1, <2>2, <2>3 DEF Kept, Seen, Marked
<1>4. "" \notin DOMAIN NextPhase /\ "" \notin CommandPhases
      /\ "" \notin RestartPhases
  BY PhasesInOrder
<1>5. KeysInOrder
  <2>1. status.keysFor = 0 /\ KeysWanted = 0
    BY <1>2
  <2>2. status.keysFor <= KeysWanted
    BY <2>1
  <2>3. KeysWanted \in SupportedKeys \cup {0}
    BY <2>1
  <2>4. Phase # "Failed" /\ (Phase = "" <=> status.keysFor = 0)
    BY <1>2
  <2>5. QED
    BY <2>2, <2>3, <2>4 DEF KeysInOrder
<1>6. RestartsPast
  BY <1>3 DEF RestartsPast
<1>7. CommandsLive
  BY <1>3 DEF CommandsLive, Kept, Seen
<1>8. StageFits
  BY <1>2, <1>3, <1>4, RoundAssumption DEF StageFits, AllLoaded
<1>9. RestartsCount /\ RoundTold
  BY <1>2, <1>4 DEF RestartsCount, RoundTold
<1>10. QED
  BY <1>5, <1>6, <1>7, <1>8, <1>9 DEF Rotating

\* What is restored stays so.
LEMMA NextRestored ==
  ASSUME Basics, [Next]_vars
  PROVE  restored \subseteq restored'
<1>1. CASE Act
  BY <1>1, ActEffect DEF Basics, RoundOver, PlannerOnly, nodeVars
<1>2. ASSUME NEW m \in Machines, NodeRuns(m) \/ AgentFails(m)
      PROVE  restored \subseteq restored'
  BY <1>2, NodeKeys DEF NodeLeaves
<1>3. QED
  BY <1>1, <1>2 DEF Next, Users, Ask, DeleteCluster, Read, AgentStart,
     LoseMachine, nodeVars, vars

LEMMA NextKeysKept ==
  KeysKept /\ [Next]_vars /\ [KeysStep]_vars => KeysKept'
<1>1. SUFFICES ASSUME KeysKept, [Next]_vars, [KeysStep]_vars, restored' = {}
               PROVE  Rotating'
  BY NextBasics DEF KeysKept
<1>2. Basics /\ Rotating /\ Basics'
  BY <1>1, NextRestored, NextBasics DEF KeysKept
<1>3. \/ KeysWanted' = KeysWanted
      \/ KeysWanted' \in SupportedKeys /\ KeysWanted' > KeysWanted
  BY <1>1 DEF KeysStep, KeysWanted, vars, requestVars
<1>4. ASSUME \/ Users \/ UNCHANGED vars
             \/ \E m \in Machines : LoseMachine(m)
      PROVE  Rotating'
  <2>1. /\ UNCHANGED <<status, secret, working, keyStage, loaded, ran>>
        /\ UNCHANGED <<pc, cp, view>>
    BY <1>4 DEF Users, Ask, DeleteCluster, LoseMachine, agentVars, nodeVars,
       readVars, vars
  <2>2. QED
    BY <1>2, <1>3, <2>1, OthersRotating
<1>5. CASE Read
  BY <1>2, <1>5, ReadRotating
<1>6. CASE Act
  BY <1>2, <1>6, ActRotating
<1>7. ASSUME NEW m \in Machines, AgentStart(m) PROVE Rotating'
  BY <1>2, <1>7, StartRotating
<1>8. ASSUME NEW m \in Machines, NodeRuns(m) \/ AgentFails(m) PROVE Rotating'
  BY <1>1, <1>2, <1>8, NodeRotating
<1>9. QED
  BY <1>1, <1>4, <1>5, <1>6, <1>7, <1>8 DEF Next

LEMMA AlwaysKeysKept == Spec /\ KeysGrow => []KeysKept
<1>1. Init => KeysKept
  BY InitRotating
<1>2. KeysKept /\ [Next]_vars /\ [KeysStep]_vars => KeysKept'
  BY NextKeysKept
<1>3. QED
  BY <1>1, <1>2, PTL DEF Spec, KeysGrow

-----------------------------------------------------------------------------
(* The theorem.                                                             *)

\* A rotation of keys that is called done has reached its last stage, on every
\* control plane machine, unless a restore has brought the old keys back: for
\* any interleaving with other operations, lost writes and failures, as long
\* as the generations asked for grow.
THEOREM RotationDone == Spec /\ KeysGrow => KeysDoneEverywhere
<1>1. KeysKept /\ KeysKept' /\ [Next]_vars =>
        [status'.keysPhase = "Done" /\ status.keysPhase # "Done"
           /\ restored = {}
           => /\ keyStage = "reencrypt"
              /\ \A m \in ControlPlane : loaded[m] = keyStage]_vars
  <2>1. SUFFICES ASSUME KeysKept, Next, status'.keysPhase = "Done",
                        status.keysPhase # "Done", restored = {}
                 PROVE  /\ keyStage = "reencrypt"
                        /\ \A m \in ControlPlane : loaded[m] = keyStage
    OBVIOUS
  <2>2. Basics /\ Rotating
    BY <2>1 DEF KeysKept
  <2>3. CASE Act
    <3>1. RoundLeaves /\ StageFits'
      BY <2>2, <2>3, ActStageFits, RoundRotates DEF Rotating
    <3>2. keyStage' = "reencrypt" /\ AllLoaded'
      BY <2>1, <3>1 DEF StageFits, Phase
    <3>3. QED
      BY <3>1, <3>2 DEF RoundLeaves, AllLoaded
  <2>4. ASSUME NEW m \in Machines, NodeRuns(m) \/ AgentFails(m)
        PROVE  UNCHANGED status
    BY <2>2, <2>4, NodeKeys DEF NodeLeaves
  <2>5. CASE UNCHANGED status
    BY <2>1, <2>5
  <2>6. QED
    BY <2>1, <2>3, <2>4, <2>5 DEF Next, Users, Ask, DeleteCluster, Read,
       AgentStart, LoseMachine
<1>2. QED
  BY <1>1, AlwaysKeysKept, PTL DEF Spec, KeysDoneEverywhere

=============================================================================
