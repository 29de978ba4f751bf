-------------------------- MODULE EtcdRestore_proofs --------------------------
(****************************************************************************)
(* Proofs about the restore of etcd snapshots among the other operations of *)
(* ProcessLoop.                                                             *)
(****************************************************************************)
EXTENDS ProcessLoop_proofs

\* The plans that depend on the configuration, and those that take a server
\* down.
ConfigKinds == {"desired", "podcleanup", "nodecleanup"}
DownKinds == {"stop", "restore"}

\* The phases in which the restored cluster is brought up again.
AfterRestore ==
  {"PostRestorePodCleanup", "InitialRestartCluster", "PostRestoreNodeCleanup",
   "RestartCluster"}

\* The plans that a machine has anything to do with, and those of them that it
\* is known to have carried out.
Seen(m) == {secret[m].plan, secret[m].applied, secret[m].sum, working[m].plan}
Done(m) == {secret[m].applied, secret[m].sum}

Current(p) == p.kind \in ConfigKinds /\ p.gen = status.config

RestorePending(m) ==
  "restore" \in {secret[m].plan.kind, working[m].plan.kind}

-----------------------------------------------------------------------------
(* The invariants.                                                          *)

\* No machine has a plan of a configuration that is yet to come, so that the
\* configuration which a restore begins is new to all of them.
ConfigsPast ==
  \A m \in Machines : \A p \in Seen(m) :
    p.kind \in ConfigKinds => p.gen <= status.config

Uninitialized ==
  status.restPhase \in {"Shutdown", "Restore", "PostRestorePodCleanup"} =>
    ~status.initialized

\* While a plan may still restore a snapshot, nothing ends the pause.
HeldPaused ==
  ~deleting /\ (\E m \in Machines : RestorePending(m)) =>
    /\ paused /\ ~status.initialized
    /\ status.restPhase \notin AfterRestore \ {"PostRestorePodCleanup"}

\* After a restore a machine that gets a plan of the new configuration will not
\* be taken down again, and it runs once it has carried one out.
ComesBack ==
  status.restPhase \in AfterRestore =>
    \A m \in Machines :
      /\ (\E p \in Seen(m) : Current(p)) => secret[m].plan.kind \notin DownKinds
      /\ (\E p \in Done(m) : Current(p)) =>
           working[m].plan.kind \notin DownKinds /\ m \in up

Safely ==
  /\ Basics /\ ConfigsPast /\ Uninitialized /\ HeldPaused /\ ComesBack

-----------------------------------------------------------------------------
(* What a step makes of the plans of a machine.                             *)

LEMMA DeliveredSeen ==
  ASSUME Typed, NEW kinds, HandsOut(kinds), UNCHANGED working, NEW m \in Machines
  PROVE  \/ secret'[m] = secret[m] /\ Seen(m)' = Seen(m) /\ Done(m)' = Done(m)
         \/ \E p \in PlansOf(m) :
              /\ p.kind \in kinds /\ p = secret'[m].plan
              /\ p.kind \in ConfigKinds => p.gen = status.config
              /\ p.kind = "restore" => p.gen = status.restFor
              /\ Seen(m)' \subseteq Seen(m) \cup {p}
              /\ Done(m)' \subseteq Done(m)
<1>1. CASE secret'[m] = secret[m]
  BY <1>1 DEF Seen, Done
<1>2. ASSUME NEW p \in PlansOf(m), NEW limit \in Limits, p.kind \in kinds,
             p.kind \in ConfigKinds => p.gen = status.config,
             p.kind = "restore" => p.gen = status.restFor,
             secret'[m] = Delivered(secret[m], p, limit)
      PROVE  /\ p = secret'[m].plan /\ Seen(m)' \subseteq Seen(m) \cup {p}
             /\ Done(m)' \subseteq Done(m)
  <2>1. /\ secret'[m].plan = p /\ secret'[m].sum = secret[m].sum
        /\ secret'[m].applied \in Done(m)
    BY <1>2 DEF Delivered, Secret, Done
  <2>2. QED
    BY <2>1 DEF Seen, Done
<1>3. QED
  BY <1>1, <1>2 DEF HandsOut, ConfigKinds

\* An agent that has carried out a plan, or failed to.
LEMMA ReportedSeen ==
  ASSUME Typed, NEW m \in Machines, NodeRuns(m) \/ AgentFails(m)
  PROVE  /\ UNCHANGED <<requestVars, status, paused, readVars>>
         /\ \A n \in Machines :
              /\ secret'[n].plan = secret[n].plan
              /\ n # m => /\ working'[n] = working[n] /\ Seen(n)' = Seen(n)
                          /\ Done(n)' = Done(n) /\ (n \in up' <=> n \in up)
         /\ working'[m] = Resting
         /\ Seen(m)' \subseteq Seen(m) \cup {NoPlan}
         /\ \/ Done(m)' = Done(m)
            \/ /\ Done(m)' \subseteq Done(m) \cup {working[m].plan}
               /\ working[m].plan.kind \in ConfigKinds => m \in up'
         /\ working[m].plan.kind \notin DownKinds /\ m \in up => m \in up'
<1>1. working \in [Machines -> [plan : PlanType, fresh : BOOLEAN]]
  BY DEF Typed
<1>2. Resting.plan = NoPlan
  BY DEF Resting
<1>3. /\ UNCHANGED <<requestVars, status, paused, readVars>>
      /\ working' = [working EXCEPT ![m] = Resting]
      /\ \A n \in Machines :
           /\ secret'[n].plan = secret[n].plan
           /\ n # m => /\ secret'[n].sum = secret[n].sum
                       /\ secret'[n].applied = secret[n].applied
      /\ \/ /\ secret'[m].sum = secret[m].sum
            /\ secret'[m].applied = secret[m].applied
         \/ /\ secret'[m].sum = working[m].plan
            /\ secret'[m].applied \in {secret[m].applied, working[m].plan}
  <2>1. CASE PlanFails(m)
    BY <2>1, ReportedFailed
  <2>2. ASSUME NEW out \in KeyStages \cup {""}, AgentReports(m, out)
        PROVE  /\ UNCHANGED <<requestVars, status, paused, readVars>>
               /\ working' = [working EXCEPT ![m] = Resting]
               /\ \A n \in Machines :
                    /\ secret'[n].plan = secret[n].plan
                    /\ n # m => secret'[n] = secret[n]
               /\ secret'[m].sum = working[m].plan
               /\ secret'[m].applied \in {secret[m].applied, working[m].plan}
    BY <2>2, Reported
  <2>3. QED
    BY <2>1, <2>2, NodeEffect
<1>4. working'[m] = Resting /\ \A n \in Machines \ {m} : working'[n] = working[n]
  BY <1>1, <1>3
<1>5. /\ \A n \in Machines \ {m} : n \in up' <=> n \in up
      /\ working[m].plan.kind \notin DownKinds /\ m \in up => m \in up'
      /\ NodeRunsDesired(m) => m \in up'
  BY DEF NodeRuns, AgentFails, NodeRunsDesired, NodeSnapshots, NodeStops,
     NodeRestores, NodeRotatesCerts, NodeEncrypts, NodeRefuses, NodeRestarts,
     Runs, StartsService, DownKinds
<1>6. \/ /\ secret'[m].sum = secret[m].sum
         /\ secret'[m].applied = secret[m].applied
      \/ /\ secret'[m].sum = working[m].plan
         /\ secret'[m].applied \in {secret[m].applied, working[m].plan}
         /\ working[m].plan.kind \in ConfigKinds => m \in up'
  <2>1. CASE AgentFails(m)
    BY <2>1, ReportedFailed DEF AgentFails
  <2>2. CASE NodeRunsDesired(m)
    BY <1>3, <1>5, <2>2
  <2>3. CASE ~AgentFails(m) /\ ~NodeRunsDesired(m)
    <3>1. working[m].plan.kind \notin ConfigKinds
      BY <2>3 DEF NodeRuns, NodeSnapshots, NodeStops, NodeRestores,
         NodeRotatesCerts, NodeEncrypts, NodeRefuses, NodeRestarts, Runs,
         ConfigKinds
    <3>2. QED
      BY <1>3, <3>1
  <2>4. QED
    BY <2>1, <2>2, <2>3
<1>7. Seen(m)' \subseteq Seen(m) \cup {NoPlan}
  BY <1>2, <1>3, <1>4 DEF Seen
<1>8. \A n \in Machines \ {m} : Seen(n)' = Seen(n) /\ Done(n)' = Done(n)
  BY <1>3, <1>4 DEF Seen, Done
<1>9. \/ Done(m)' = Done(m)
      \/ /\ Done(m)' \subseteq Done(m) \cup {working[m].plan}
         /\ working[m].plan.kind \in ConfigKinds => m \in up'
  BY <1>6 DEF Done
<1>10. QED
  BY <1>3, <1>4, <1>5, <1>7, <1>8, <1>9

\* An agent that begins to execute its plan.
LEMMA StartedSeen ==
  ASSUME Typed, NEW m \in Machines, AgentStart(m)
  PROVE  /\ UNCHANGED <<asked, deleting, status, paused, secret, up>>
         /\ \A n \in Machines : Seen(n)' \subseteq Seen(n) /\ Done(n)' = Done(n)
         /\ working'[m].plan = secret[m].plan
         /\ \A n \in Machines \ {m} : working'[n] = working[n]
<1>1. working \in [Machines -> [plan : PlanType, fresh : BOOLEAN]]
  BY DEF Typed
<1>2. /\ UNCHANGED <<asked, deleting, status, paused, secret, up>>
      /\ \E b : working' = [working EXCEPT ![m] = [plan |-> secret[m].plan,
                                                   fresh |-> b]]
  BY DEF AgentStart, requestVars
<1>3. working'[m].plan = secret[m].plan
      /\ \A n \in Machines \ {m} : working'[n] = working[n]
  BY <1>1, <1>2
<1>4. \A n \in Machines : Seen(n)' \subseteq Seen(n) /\ Done(n)' = Done(n)
  BY <1>2, <1>3 DEF Seen, Done
<1>5. QED
  BY <1>2, <1>3, <1>4

-----------------------------------------------------------------------------
(* What a round makes of a restore.                                         *)

\* The configuration changes only when the restored cluster is brought up.
LEMMA ActMoves ==
  ASSUME Basics, Act
  PROVE  /\ UNCHANGED <<asked, deleting, working, up, restored, loaded, keyStage>>
         /\ status.config <= status'.config
         /\ status'.restPhase \in AfterRestore =>
              \/ status.restPhase = "Restore" /\ status.config < status'.config
              \/ /\ status.restPhase \in AfterRestore
                 /\ status'.config = status.config
                 /\ HandsOut(Kinds \ ({"none"} \cup DownKinds))
<1> DEFINE kinds == Kinds \ ({"none"} \cup DownKinds)
           Returns == /\ UNCHANGED status.config
                      /\ status'.restPhase \in AfterRestore =>
                           status.restPhase \in AfterRestore /\ HandsOut(kinds)
           Begins == /\ status.restPhase = "Restore"
                     /\ status'.config = status.config + 1
<1>1. /\ UNCHANGED <<asked, deleting, working, up, restored, loaded, keyStage>>
      /\ status.config \in Nat /\ Typed
  BY ActEffect DEF Basics, RoundOver, PlannerOnly, requestVars, agentVars,
     nodeVars, Typed, StatusType
<1>2. \A ks \in SUBSET kinds : HandsOut(ks) => HandsOut(kinds)
  BY DEF HandsOut
<1>3. /\ {"snapshot", "desired"} \in SUBSET kinds
      /\ {"podcleanup", "desired"} \in SUBSET kinds
      /\ {"nodecleanup"} \in SUBSET kinds /\ {"desired"} \in SUBSET kinds
  BY DEF Kinds, DownKinds
<1>4. UNCHANGED secret => HandsOut(kinds)
  BY <1>1, NothingAssigned
<1> HIDE DEF kinds
<1>5. SUFFICES Returns \/ Begins
  BY <1>1 DEF kinds
<1>6. CASE NoRestore /\ (RotatesCerts \/ RotatesKeys \/ RollsOut)
  <2>1. UNCHANGED <<status.config, status.restPhase>>
    BY <1>6 DEF RotatesCerts, RotatesKeys, RollsOut, KeepsRestore, KeepsRequest
  <2>2. QED
    BY <1>6, <2>1 DEF NoRestore, AfterRestore
<1>7. CASE LeavesAlone \/ TakesSnapshots
  <2>1. UNCHANGED <<status.config, status.restPhase>>
    BY <1>7 DEF LeavesAlone, TakesSnapshots, KeepsRestore, KeepsRequest
  <2>2. HandsOut(kinds)
    BY <1>2, <1>3, <1>4, <1>7 DEF LeavesAlone, TakesSnapshots
  <2>3. QED
    BY <2>1, <2>2
<1>8. CASE RestoreAsks \/ RestoreBegins
  BY <1>4, <1>8 DEF RestoreAsks, RestoreBegins, KeepsRestore, KeepsRequest,
     AfterRestore
<1>9. CASE RestoreShutsDown
  BY <1>9 DEF RestoreShutsDown, KeepsRestore, KeepsRequest, AfterRestore
<1>10. CASE RestoreRuns
  BY <1>10 DEF RestoreRuns, KeepsRestore, KeepsRequest, AfterRestore
<1>11. CASE CleansPods \/ CleansNodes \/ Restarts
  <2>1. status.restPhase \in AfterRestore /\ UNCHANGED status.config
    BY <1>11 DEF CleansPods, CleansNodes, Restarts, KeepsRestore, KeepsRequest,
       AfterRestore
  <2>2. HandsOut(kinds)
    BY <1>2, <1>3, <1>11 DEF CleansPods, CleansNodes, Restarts
  <2>3. QED
    BY <2>1, <2>2
<1>12. QED
  BY <1>6, <1>7, <1>8, <1>9, <1>10, <1>11, ActEffect DEF Basics, Restores

LEMMA ActConfigs == ASSUME Safely, Act PROVE ConfigsPast'
<1>1. /\ status.config \in Nat /\ status'.config \in Nat
      /\ status.config <= status'.config /\ UNCHANGED working
  BY ActEffect, ActMoves DEF Safely, Basics, RoundOver, Typed, StatusType
<1>2. ASSUME NEW m \in Machines, NEW p \in Seen(m)', p.kind \in ConfigKinds
      PROVE  p.gen <= status'.config
  <2>1. \A q \in PlansOf(m) : q.gen \in Nat
    BY DEF PlansOf, PlanType
  <2>2. Seen(m) \subseteq PlansOf(m)
    BY DEF Safely, Basics, Typed, SecretsOf, Seen
  <2>3. p \in Seen(m) \/ p.gen = status.config
    BY <1>1, <1>2, ActHandsOut, DeliveredSeen DEF Safely, Basics
  <2>4. p \in Seen(m) => p.gen <= status.config /\ p.gen \in Nat
    BY <1>2, <2>1, <2>2 DEF Safely, ConfigsPast
  <2>5. QED
    BY <1>1, <2>3, <2>4
<1>3. QED
  BY <1>2 DEF ConfigsPast

LEMMA ActUninitialized == ASSUME Safely, Act PROVE Uninitialized'
<1>1. CASE LeavesAlone \/ TakesSnapshots
  BY <1>1 DEF LeavesAlone, TakesSnapshots, KeepsRestore, KeepsRequest, Safely,
     Uninitialized
<1>2. CASE NoRestore /\ (RotatesCerts \/ RotatesKeys \/ RollsOut)
  BY <1>2 DEF RotatesCerts, RotatesKeys, RollsOut, KeepsRestore, KeepsRequest,
     NoRestore, Uninitialized
<1>3. CASE Restores
  BY <1>3 DEF Restores, RestoreAsks, RestoreBegins, RestoreShutsDown,
     RestoreRuns, CleansPods, CleansNodes, Restarts, KeepsRestore, KeepsRequest,
     Safely, Uninitialized
<1>4. QED
  BY <1>1, <1>2, <1>3, ActEffect DEF Safely, Basics

\* Whoever has gone on to bring the cluster up has seen a plan of the new
\* configuration carried out, so that no restore is to be expected any more.
LEMMA CarriedNoRestore ==
  ASSUME Safely, pc = "act", NEW k \in ConfigKinds,
         Carried(InitNode, Plan(k, "", status.config)),
         status.restPhase \in AfterRestore
  PROVE  \A m \in Machines : ~RestorePending(m)
<1> DEFINE p == Plan(k, "", status.config)
<1>1. InitNode \in Machines
  BY RoundAssumption
<1>2. secret[InitNode].plan = p /\ secret[InitNode].applied = p
  BY <1>1, CarriedTrue DEF Safely
<1>3. Current(p)
  BY DEF Current, Plan
<1>4. p \in Seen(InitNode) /\ p \in Done(InitNode)
  BY <1>2 DEF Seen, Done
<1>5. /\ secret[InitNode].plan.kind # "restore"
      /\ working[InitNode].plan.kind # "restore"
  BY <1>1, <1>3, <1>4 DEF Safely, ComesBack, DownKinds
<1>6. \A m \in Machines \ {InitNode} :
        secret[m].plan.kind # "restore" /\ working[m].plan.kind # "restore"
  BY DEF Safely, Basics, Typed, SecretsOf, PlansOf
<1>7. QED
  BY <1>5, <1>6 DEF RestorePending

\* Who delivers no restore leaves none pending that was not.
LEMMA NoneDelivered ==
  ASSUME Typed, NEW kinds, HandsOut(kinds), UNCHANGED working,
         "restore" \notin kinds, NEW m \in Machines, RestorePending(m)'
  PROVE  RestorePending(m)
<1>1. secret'[m].plan = secret[m].plan \/ secret'[m].plan.kind \in kinds
  BY DeliveredSeen
<1>2. QED
  BY <1>1 DEF RestorePending

LEMMA ActHeldPaused == ASSUME Safely, Act PROVE HeldPaused'
<1>1. SUFFICES ASSUME ~deleting, NEW m \in Machines, RestorePending(m)'
               PROVE  /\ paused' /\ ~status'.initialized
                      /\ status'.restPhase \notin
                           AfterRestore \ {"PostRestorePodCleanup"}
  BY ActMoves DEF HeldPaused, Safely
<1> USE DEF AfterRestore
<1>2. UNCHANGED working /\ Typed /\ pc = "act" /\ paused \in BOOLEAN
  BY ActMoves DEF Safely, Basics, Typed, Act
<1>3. RestorePending(m) => /\ paused /\ ~status.initialized
                           /\ status.restPhase \notin
                                AfterRestore \ {"PostRestorePodCleanup"}
  BY <1>1 DEF Safely, HeldPaused
<1>4. CASE LeavesAlone
  BY <1>1, <1>4 DEF LeavesAlone
<1>5. CASE TakesSnapshots
  <2>1. RestorePending(m)
    BY <1>1, <1>2, <1>5, NoneDelivered DEF TakesSnapshots
  <2>2. QED
    BY <1>3, <1>5, <2>1 DEF TakesSnapshots, KeepsRestore, KeepsRequest
<1>6. CASE RotatesCerts
  <2>1. RestorePending(m)
    BY <1>1, <1>2, <1>6, NoneDelivered DEF RotatesCerts, RestorePending
  <2>2. QED
    BY <1>3, <1>6, <2>1 DEF RotatesCerts
<1>7. CASE RotatesKeys
  <2>1. RestorePending(m)
    BY <1>1, <1>2, <1>7, NoneDelivered DEF RotatesKeys
  <2>2. UNCHANGED paused
    BY <1>3, <1>7, <2>1 DEF RotatesKeys
  <2>3. QED
    BY <1>3, <1>7, <2>1, <2>2 DEF RotatesKeys, KeepsRestore, KeepsRequest
<1>8. CASE RollsOut
  <2>1. RestorePending(m)
    BY <1>1, <1>2, <1>8, NoneDelivered DEF RollsOut
  <2>2. QED
    BY <1>3, <1>8, <2>1 DEF RollsOut, KeepsRequest
<1>9. CASE RestoreAsks \/ RestoreBegins
  <2>1. RestorePending(m)
    BY <1>1, <1>2, <1>9 DEF RestoreAsks, RestoreBegins, RestorePending
  <2>2. QED
    BY <1>3, <1>9, <2>1 DEF RestoreAsks, RestoreBegins, KeepsRestore,
       KeepsRequest
<1>10. CASE RestoreShutsDown
  <2>1. RestorePending(m)
    BY <1>1, <1>2, <1>10, NoneDelivered DEF RestoreShutsDown
  <2>2. QED
    BY <1>3, <1>10, <2>1 DEF RestoreShutsDown, KeepsRestore, KeepsRequest
<1>11. CASE RestoreRuns
  BY <1>11 DEF RestoreRuns, KeepsRestore, KeepsRequest, Safely, Uninitialized
<1>12. CASE CleansPods
  <2>1. RestorePending(m)
    BY <1>1, <1>2, <1>12, NoneDelivered DEF CleansPods
  <2>2. ~(\E k \in {"podcleanup", "desired"} :
            Carried(InitNode, Plan(k, "", status.config)))
    BY <1>2, <1>12, <2>1, CarriedNoRestore DEF CleansPods, ConfigKinds
  <2>3. QED
    BY <1>3, <1>12, <2>1, <2>2 DEF CleansPods, KeepsRestore, KeepsRequest
<1>13. CASE CleansNodes
  <2>1. RestorePending(m)
    BY <1>1, <1>2, <1>13, NoneDelivered DEF CleansNodes
  <2>2. QED
    BY <1>3, <1>13, <2>1 DEF CleansNodes
<1>14. CASE Restarts
  <2>1. RestorePending(m)
    BY <1>1, <1>2, <1>14, NoneDelivered DEF Restarts
  <2>2. QED
    BY <1>3, <1>14, <2>1 DEF Restarts
<1>15. QED
  BY <1>4, <1>5, <1>6, <1>7, <1>8, <1>9, <1>10, <1>11, <1>12, <1>13, <1>14,
     ActEffect DEF Safely, Basics, Restores

LEMMA ActComesBack == ASSUME Safely, Act PROVE ComesBack'
<1>1. SUFFICES ASSUME status'.restPhase \in AfterRestore, NEW m \in Machines
               PROVE  /\ (\E p \in Seen(m)' : Current(p)') =>
                           secret'[m].plan.kind \notin DownKinds
                      /\ (\E p \in Done(m)' : Current(p)') =>
                           working'[m].plan.kind \notin DownKinds /\ m \in up'
  BY DEF ComesBack
<1>2. UNCHANGED <<working, up>> /\ Typed /\ status.config \in Nat
  BY ActMoves DEF Safely, Basics, Typed, StatusType
<1>3. CASE status.restPhase = "Restore" /\ status.config < status'.config
  <2>1. ASSUME NEW p \in Seen(m)' \cup Done(m)', p.kind \in ConfigKinds
        PROVE  p.gen \in Nat /\ p.gen <= status.config
    <3>1. p \in Seen(m) \/ p.gen = status.config
      BY <1>2, <2>1, ActHandsOut, DeliveredSeen DEF Safely, Basics, Seen, Done
    <3>2. p \in Seen(m) => p.gen \in Nat
      BY DEF Safely, Basics, Typed, SecretsOf, Seen, PlansOf, PlanType
    <3>3. QED
      BY <1>2, <2>1, <3>1, <3>2 DEF Safely, ConfigsPast
  <2>2. status'.config \in Nat
    BY ActEffect DEF Safely, Basics, RoundOver, StatusType
  <2>3. \A p \in Seen(m)' \cup Done(m)' : ~Current(p)'
    BY <1>2, <1>3, <2>1, <2>2 DEF Current
  <2>4. QED
    BY <2>3
<1>4. CASE /\ status.restPhase \in AfterRestore
           /\ status'.config = status.config
           /\ HandsOut(Kinds \ ({"none"} \cup DownKinds))
  <2>1. /\ (\E p \in Seen(m) : Current(p)) =>
             secret[m].plan.kind \notin DownKinds
        /\ (\E p \in Done(m) : Current(p)) =>
             working[m].plan.kind \notin DownKinds /\ m \in up
    BY <1>4 DEF Safely, ComesBack
  <2>2. \A p : Current(p)' <=> Current(p)
    BY <1>4 DEF Current
  <2>3. /\ Done(m)' \subseteq Done(m)
        /\ \/ secret'[m].plan.kind \notin DownKinds
           \/ secret'[m] = secret[m] /\ Seen(m)' = Seen(m)
    BY <1>2, <1>4, DeliveredSeen
  <2>4. QED
    BY <1>2, <2>1, <2>2, <2>3
<1>5. QED
  BY <1>1, <1>3, <1>4, ActMoves DEF Safely

-----------------------------------------------------------------------------
(* The other steps.                                                         *)

LEMMA NodeSafely ==
  ASSUME Safely, NEW m \in Machines, NodeRuns(m) \/ AgentFails(m)
  PROVE  ConfigsPast' /\ Uninitialized' /\ HeldPaused' /\ ComesBack'
<1>1. /\ UNCHANGED <<status, paused, deleting>>
      /\ \A n \in Machines : secret'[n].plan = secret[n].plan
      /\ \A n \in Machines \ {m} :
           /\ working'[n] = working[n] /\ Seen(n)' = Seen(n)
           /\ Done(n)' = Done(n) /\ (n \in up' <=> n \in up)
      /\ working'[m] = Resting
      /\ Seen(m)' \subseteq Seen(m) \cup {NoPlan}
      /\ \/ Done(m)' = Done(m)
         \/ /\ Done(m)' \subseteq Done(m) \cup {working[m].plan}
            /\ working[m].plan.kind \in ConfigKinds => m \in up'
      /\ working[m].plan.kind \notin DownKinds /\ m \in up => m \in up'
  BY ReportedSeen DEF Safely, Basics, requestVars
<1>2. working'[m].plan.kind = "none" /\ NoPlan.kind = "none"
  <2>1. Resting.plan = NoPlan
    BY DEF Resting
  <2>2. NoPlan.kind = "none"
    BY DEF NoPlan, Plan
  <2>3. QED
    BY <1>1, <2>1, <2>2
<1>3. \A p : Current(p)' <=> Current(p)
  BY <1>1 DEF Current
<1>4. ~Current(NoPlan)
  BY <1>2 DEF Current, ConfigKinds
<1>5. ConfigsPast'
  <2>1. \A n \in Machines : Seen(n)' \subseteq Seen(n) \cup {NoPlan}
    BY <1>1
  <2>2. QED
    BY <1>1, <1>2, <2>1 DEF Safely, ConfigsPast, ConfigKinds
<1>6. Uninitialized'
  BY <1>1 DEF Safely, Uninitialized
<1>7. HeldPaused'
  <2>1. \A n \in Machines : RestorePending(n)' => RestorePending(n)
    BY <1>1, <1>2 DEF RestorePending
  <2>2. QED
    BY <1>1, <2>1 DEF Safely, HeldPaused
<1>8. ComesBack'
  <2>1. SUFFICES ASSUME status.restPhase \in AfterRestore, NEW n \in Machines
                 PROVE  /\ (\E p \in Seen(n)' : Current(p)) =>
                             secret[n].plan.kind \notin DownKinds
                        /\ (\E p \in Done(n)' : Current(p)) =>
                             working'[n].plan.kind \notin DownKinds /\ n \in up'
    BY <1>1, <1>3 DEF ComesBack
  <2>2. /\ (\E p \in Seen(n) : Current(p)) =>
             secret[n].plan.kind \notin DownKinds
        /\ (\E p \in Done(n) : Current(p)) =>
             working[n].plan.kind \notin DownKinds /\ n \in up
    BY <2>1 DEF Safely, ComesBack
  <2>3. CASE n # m
    BY <1>1, <2>2, <2>3
  <2>4. CASE n = m
    <3>1. (\E p \in Seen(m)' : Current(p)) => \E p \in Seen(m) : Current(p)
      BY <1>1, <1>4
    <3>2. working'[m].plan.kind \notin DownKinds
      BY <1>2 DEF DownKinds
    <3>3. ASSUME NEW p \in Done(m)', Current(p) PROVE m \in up'
      <4>1. CASE \E q \in Done(m) : Current(q)
        BY <1>1, <2>2, <2>4, <4>1
      <4>2. CASE p \notin Done(m)
        BY <1>1, <3>3, <4>2 DEF Current
      <4>3. QED
        BY <3>3, <4>1, <4>2
    <3>4. QED
      BY <2>2, <2>4, <3>1, <3>2, <3>3
  <2>5. QED
    BY <2>3, <2>4
<1>9. QED
  BY <1>5, <1>6, <1>7, <1>8

LEMMA StartSafely ==
  ASSUME Safely, NEW m \in Machines, AgentStart(m)
  PROVE  ConfigsPast' /\ Uninitialized' /\ HeldPaused' /\ ComesBack'
<1>1. /\ UNCHANGED <<asked, deleting, status, paused, secret, up>>
      /\ \A n \in Machines : Seen(n)' \subseteq Seen(n) /\ Done(n)' = Done(n)
      /\ working'[m].plan = secret[m].plan
      /\ \A n \in Machines \ {m} : working'[n] = working[n]
  BY StartedSeen DEF Safely, Basics
<1>2. ConfigsPast'
  BY <1>1 DEF Safely, ConfigsPast
<1>3. Uninitialized'
  BY <1>1 DEF Safely, Uninitialized
<1>4. HeldPaused'
  <2>1. \A n \in Machines : RestorePending(n)' => RestorePending(n)
    BY <1>1 DEF RestorePending
  <2>2. QED
    BY <1>1, <2>1 DEF Safely, HeldPaused
<1>5. ComesBack'
  <2>1. SUFFICES ASSUME status.restPhase \in AfterRestore, NEW n \in Machines
                 PROVE  /\ (\E p \in Seen(n)' : Current(p)) =>
                             secret[n].plan.kind \notin DownKinds
                        /\ (\E p \in Done(n) : Current(p)) =>
                             working'[n].plan.kind \notin DownKinds /\ n \in up
    BY <1>1 DEF ComesBack, Current
  <2>2. /\ (\E p \in Seen(n) : Current(p)) =>
             secret[n].plan.kind \notin DownKinds
        /\ (\E p \in Done(n) : Current(p)) =>
             working[n].plan.kind \notin DownKinds /\ n \in up
    BY <2>1 DEF Safely, ComesBack
  <2>3. Done(n) \subseteq Seen(n)
    BY DEF Done, Seen
  <2>4. QED
    BY <1>1, <2>2, <2>3
<1>6. QED
  BY <1>2, <1>3, <1>4, <1>5

\* The rest of the world is about none of this.
LEMMA OthersSafely ==
  ASSUME Safely, UNCHANGED <<status, paused, secret, working, up>>,
         deleting => deleting'
  PROVE  ConfigsPast' /\ Uninitialized' /\ HeldPaused' /\ ComesBack'
<1>1. ConfigsPast' /\ Uninitialized' /\ HeldPaused'
  BY DEF Safely, ConfigsPast, Uninitialized, HeldPaused, Seen, RestorePending
<1>2. ComesBack'
  BY DEF Safely, ComesBack, Seen, Done, Current
<1>3. QED
  BY <1>1, <1>2

LEMMA InitSafely == Init => Safely
<1>1. SUFFICES ASSUME Init PROVE Safely
  OBVIOUS
<1>2. Basics
  BY <1>1, InitBasics
<1>3. /\ status.restPhase = "" /\ status.initialized = TRUE
      /\ status.config = 0
  BY <1>1 DEF Init, Provisioned
<1>4. ASSUME NEW m \in Machines
      PROVE  /\ Seen(m) \subseteq {Plan("desired", "", 0), NoPlan}
             /\ ~RestorePending(m)
  <2>1. secret[m] = Secret(Plan("desired", "", 0), "forever",
                           Plan("desired", "", 0), Plan("desired", "", 0),
                           NoPlan, "")
    BY <1>1 DEF Init, DesiredPlan, Provisioned
  <2>2. working[m].plan = NoPlan
    BY <1>1 DEF Init, Resting
  <2>3. /\ secret[m].plan = Plan("desired", "", 0)
        /\ secret[m].applied = Plan("desired", "", 0)
        /\ secret[m].sum = Plan("desired", "", 0)
    <3>1. \A p, q : LET s == Secret(p, "forever", p, p, q, "")
                   IN s.plan = p /\ s.applied = p /\ s.sum = p
      BY DEF Secret
    <3>2. QED
      BY <2>1, <3>1
  <2>4. Plan("desired", "", 0).kind = "desired"
    BY DEF Plan
  <2>5. NoPlan.kind = "none"
    BY DEF Plan, NoPlan
  <2>6. ~RestorePending(m)
    BY <2>2, <2>3, <2>4, <2>5 DEF RestorePending
  <2>7. Seen(m) \subseteq {Plan("desired", "", 0), NoPlan}
    BY <2>2, <2>3 DEF Seen
  <2>8. QED
    BY <2>6, <2>7
<1>5. ConfigsPast
  <2>1. Plan("desired", "", 0).gen = 0
    BY DEF Plan
  <2>2. NoPlan.gen = 0
    BY DEF Plan, NoPlan
  <2>3. \A m \in Machines : \A p \in Seen(m) : p.gen = 0
    BY <1>4, <2>1, <2>2
  <2>4. 0 <= 0
    OBVIOUS
  <2>5. QED
    BY <1>3, <2>3, <2>4 DEF ConfigsPast
<1>6. Uninitialized /\ HeldPaused /\ ComesBack
  BY <1>3, <1>4 DEF Uninitialized, HeldPaused, ComesBack, AfterRestore
<1>7. QED
  BY <1>2, <1>5, <1>6 DEF Safely

LEMMA NextSafely == Safely /\ [Next]_vars => Safely'
<1>1. SUFFICES ASSUME Safely, [Next]_vars
               PROVE  ConfigsPast' /\ Uninitialized' /\ HeldPaused' /\ ComesBack'
  BY NextBasics DEF Safely
<1>2. CASE Act
  BY <1>1, <1>2, ActConfigs, ActUninitialized, ActHeldPaused, ActComesBack
<1>3. ASSUME NEW m \in Machines, NodeRuns(m) \/ AgentFails(m)
      PROVE  ConfigsPast' /\ Uninitialized' /\ HeldPaused' /\ ComesBack'
  BY <1>1, <1>3, NodeSafely
<1>4. ASSUME NEW m \in Machines, AgentStart(m)
      PROVE  ConfigsPast' /\ Uninitialized' /\ HeldPaused' /\ ComesBack'
  BY <1>1, <1>4, StartSafely
<1>5. CASE \/ Users \/ Read \/ UNCHANGED vars
           \/ \E m \in Machines : LoseMachine(m)
  <2>1. UNCHANGED <<status, paused, secret, working, up>>
    BY <1>1, <1>5 DEF Users, Ask, DeleteCluster, Read, LoseMachine, vars,
       agentVars, nodeVars
  <2>2. deleting => deleting'
    BY <1>1, <1>5 DEF Users, Ask, DeleteCluster, Read, LoseMachine, vars,
       requestVars
  <2>3. QED
    BY <1>1, <2>1, <2>2, OthersSafely
<1>6. QED
  BY <1>1, <1>2, <1>3, <1>4, <1>5 DEF Next

LEMMA AlwaysSafely == Spec => []Safely
<1>1. Init => Safely
  BY InitSafely
<1>2. Safely /\ [Next]_vars => Safely'
  BY NextSafely
<1>3. QED
  BY <1>1, <1>2, PTL DEF Spec

-----------------------------------------------------------------------------
(* Theorems.                                                                *)

\* What has been restored changes only by a plan that was pending.
LEMMA RestoredBy ==
  ASSUME Safely, Next, restored' # restored
  PROVE  \E m \in Machines : /\ NodeRestores(m) /\ working[m].fresh
                             /\ RestorePending(m)
<1>1. ~Act
  BY ActMoves DEF Safely
<1>2. PICK m \in Machines : NodeRuns(m)
  BY <1>1 DEF Next, Users, Ask, DeleteCluster, Read, AgentStart, AgentFails,
     LoseMachine, nodeVars
<1>3. NodeRestores(m) /\ working[m].fresh
  BY <1>2 DEF NodeRuns, NodeRunsDesired, NodeSnapshots, NodeStops, NodeRestores,
     NodeRotatesCerts, NodeEncrypts, NodeRefuses, NodeRestarts
<1>4. QED
  BY <1>3 DEF NodeRestores, Runs, RestorePending

\* A snapshot is restored only while the CAPI cluster is paused, however late
\* the agent comes to it: the restore may have been withdrawn or replaced by
\* another one, certificates and keys may be waiting to be rotated.
THEOREM RestoredPaused == Spec => RestoresPaused
<1>1. Safely /\ [Next]_vars =>
        [restored' # restored => paused \/ deleting]_vars
  <2>1. SUFFICES ASSUME Safely, Next, restored' # restored
                 PROVE  paused \/ deleting
    OBVIOUS
  <2>2. QED
    BY <2>1, RestoredBy DEF Safely, HeldPaused
<1>2. QED
  BY <1>1, AlwaysSafely, PTL DEF Spec, RestoresPaused

\* A round that finishes a restore has seen everybody carry out the plan of the
\* new configuration, and nobody has asked for anything since it has read.
LEMMA FinishesWhen ==
  ASSUME Safely, Next, status'.restPhase = "Finished",
         status.restPhase # "Finished"
  PROVE  /\ pc = "act" /\ status.restPhase \in AfterRestore /\ ~deleting
         /\ \A m \in Machines : Carried(m, Plan("desired", "", status.config))
<1>1. Act
  BY ReportedSeen DEF Safely, Basics, Next, Users, Ask, DeleteCluster, Read,
     AgentStart, LoseMachine
<1>2. /\ status.restPhase \in AfterRestore /\ pc = "act" /\ edits = cp.edits
      /\ \A m \in Machines : Carried(m, Plan("desired", "", status.config))
  BY <1>1, ActEffect DEF Safely, Basics, LeavesAlone, TakesSnapshots, Restores,
     RotatesCerts, RotatesKeys, RollsOut, KeepsRestore, KeepsRequest,
     RestoreAsks, RestoreBegins, RestoreShutsDown, RestoreRuns, CleansPods,
     CleansNodes, Restarts, AfterRestore, Act
<1>3. ~LeaveDeleting
  BY <1>2, LeaveEffect DEF Safely, Basics, KeepsRestore, KeepsRequest
<1>4. ~cp.deleting
  BY <1>1, <1>3 DEF Act
<1>5. QED
  BY <1>2, <1>4 DEF Safely, Basics, RoundKnows

\* When a restore is finished all machines run, even though those that had not
\* come to their stop plan when it counted as carried out may have come to it
\* after the restore, between two plans of the new configuration or before.
THEOREM RestoreStarts == Spec => RestoreStartsAll
<1>1. Safely /\ [Next]_vars =>
        [status'.restPhase = "Finished" /\ status.restPhase # "Finished"
           => up = Machines]_vars
  <2>1. SUFFICES ASSUME Safely, Next, status'.restPhase = "Finished",
                        status.restPhase # "Finished"
                 PROVE  up = Machines
    OBVIOUS
  <2>2. /\ status.restPhase \in AfterRestore /\ pc = "act"
        /\ \A m \in Machines : Carried(m, Plan("desired", "", status.config))
    BY <2>1, FinishesWhen
  <2>3. Current(Plan("desired", "", status.config))
    BY DEF Current, Plan, ConfigKinds
  <2>4. ASSUME NEW m \in Machines PROVE m \in up
    <3>1. secret[m].applied = Plan("desired", "", status.config)
      BY <2>1, <2>2, CarriedTrue DEF Safely
    <3>2. \E p \in Done(m) : Current(p)
      BY <2>3, <3>1 DEF Done
    <3>3. QED
      BY <2>1, <2>2, <3>2 DEF Safely, ComesBack
  <2>5. up \subseteq Machines
    BY <2>1 DEF Safely, Basics, Typed
  <2>6. QED
    BY <2>4, <2>5
<1>2. QED
  BY <1>1, AlwaysSafely, PTL DEF Spec, RestoreStartsAll

-----------------------------------------------------------------------------
(* With which keys the machines run after a restore.                        *)

\* A machine is installed with one configuration after the other.
Installed ==
  \A m \in Machines :
    LET p == secret[m].plan
        w == working[m].plan
    IN /\ stamp[m] <= status.config
       /\ p.kind \in ConfigKinds => stamp[m] <= p.gen
       /\ w.kind \in ConfigKinds => stamp[m] <= w.gen
       /\ p.kind \in ConfigKinds /\ w.kind \in ConfigKinds => w.gen <= p.gen
       /\ \A d \in Done(m) : d.kind \in ConfigKinds => d.gen <= stamp[m]

\* A machine runs with the new configuration, or one that cannot be restored is
\* about to.
New(m) ==
  \/ stamp[m] = status.config
  \/ m # InitNode /\ (Current(secret[m].plan) \/ Current(working[m].plan))

\* Then the init node has, and will not restore anything any more.
RestoredFirst ==
  ~deleting /\ status.restPhase \in AfterRestore /\ (\E m \in Machines : New(m))
    => ~RestorePending(InitNode)

\* So whoever runs with the new configuration has started since the restore.
LoadsRestored ==
  ~deleting /\ status.restPhase \in AfterRestore /\ keyStage = "start" =>
    \A m \in Machines : stamp[m] = status.config => loaded[m] = "start"

Reloading == Safely /\ Installed /\ RestoredFirst /\ LoadsRestored

\* Only the init node restores.
LEMMA OthersRestoreNothing ==
  ASSUME Safely, NEW m \in Machines, RestorePending(m)
  PROVE  m = InitNode
<1>1. {secret[m].plan, working[m].plan} \subseteq PlansOf(m)
  BY DEF Safely, Basics, Typed, SecretsOf
<1>2. QED
  BY <1>1 DEF RestorePending, PlansOf

\* No round hands out a configuration that is yet to come.
LEMMA HandedConfigs ==
  ASSUME Safely, Act, NEW m \in Machines, NEW p \in Seen(m)',
         p.kind \in ConfigKinds
  PROVE  p.gen \in Nat /\ p.gen <= status.config
<1>1. UNCHANGED working /\ status.config \in Nat
  BY ActMoves DEF Safely, Basics, Typed, StatusType
<1>2. p \in Seen(m) \/ p.gen = status.config
  BY <1>1, ActHandsOut, DeliveredSeen DEF Safely, Basics
<1>3. p \in Seen(m) => p.gen \in Nat
  BY DEF Safely, Basics, Typed, SecretsOf, Seen, PlansOf, PlanType
<1>4. QED
  BY <1>1, <1>2, <1>3 DEF Safely, ConfigsPast

\* While the pods are to be cleaned up nobody but the init node gets a plan,
\* until the init node runs again.
LEMMA CleanedFirst ==
  ASSUME Basics, Act, status.restPhase = "PostRestorePodCleanup",
         ~status.initialized, NEW m \in Machines \ {InitNode}
  PROVE  \/ secret'[m] = secret[m]
         \/ Carried(InitNode, Plan("desired", "", status.config))
<1>1. pc = "act" /\ cp.status = status /\ Typed /\ RoundKnows
  BY DEF Act, Basics, RoundKnows
<1>2. ~RestoreIdle
  BY <1>1 DEF RestoreIdle
<1>3. CASE UNCHANGED secret
  BY <1>3
<1>4. CASE EtcdCreateStep
  BY <1>1, <1>4, CreateEffect
<1>5. CASE CleanUpPods
  <2>1. \/ \E p : Assign({n \in {InitNode} : NeedsPlan(n, p)},
                         [n \in Machines |-> p], "few")
        \/ Carried(InitNode, DesiredPlan(cp.status))
    BY <1>5 DEF CleanUpPods, RunOn
  <2>2. \A ms, f, limit :
          Assign(ms, f, limit) /\ m \notin ms => secret'[m] = secret[m]
    BY DEF Assign
  <2>3. QED
    BY <1>1, <2>1, <2>2 DEF DesiredPlan
<1>6. CASE EtcdRestoreStep /\ ~CleanUpPods
  BY <1>1, <1>6 DEF EtcdRestoreStep, ResetRestore, StartRestore, Uninitialize,
     StopServices, StopRefused, AwaitStopped, EndShutdown, RunRestore,
     CleanUpNodes, RestartStep, EndRestart, Restarting, RestoreIn
<1>7. QED
  BY <1>2, <1>3, <1>4, <1>5, <1>6 DEF Act, LeaveDeleting, ActRestore, ActCerts,
     ActKeys, ActRollout

LEMMA ActInstalled == ASSUME Reloading, Act PROVE Installed'
<1>1. /\ UNCHANGED <<working, stamp>> /\ status.config <= status'.config
      /\ status.config \in Nat /\ status'.config \in Nat
      /\ stamp \in [Machines -> Nat]
  BY ActEffect, ActMoves DEF Reloading, Safely, Basics, RoundOver, Typed,
     StatusType, PlannerOnly, nodeVars
<1>2. ASSUME NEW m \in Machines
      PROVE  /\ stamp[m] <= status'.config
             /\ secret'[m].plan.kind \in ConfigKinds =>
                  stamp[m] <= secret'[m].plan.gen
             /\ working[m].plan.kind \in ConfigKinds =>
                  stamp[m] <= working[m].plan.gen
             /\ secret'[m].plan.kind \in ConfigKinds
                  /\ working[m].plan.kind \in ConfigKinds =>
                    working[m].plan.gen <= secret'[m].plan.gen
             /\ \A d \in Done(m)' : d.kind \in ConfigKinds => d.gen <= stamp[m]
  <2> DEFINE p == secret[m].plan
             q == secret'[m].plan
             w == working[m].plan
  <2>1. /\ stamp[m] <= status.config /\ stamp[m] \in Nat
        /\ p.kind \in ConfigKinds => stamp[m] <= p.gen
        /\ w.kind \in ConfigKinds => stamp[m] <= w.gen
        /\ p.kind \in ConfigKinds /\ w.kind \in ConfigKinds => w.gen <= p.gen
        /\ \A d \in Done(m) : d.kind \in ConfigKinds => d.gen <= stamp[m]
    BY <1>1 DEF Reloading, Installed
  <2>2. w.kind \in ConfigKinds => w.gen <= status.config
    BY DEF Reloading, Safely, ConfigsPast, Seen
  <2>3. /\ Done(m)' \subseteq Done(m)
        /\ q = p \/ (q.kind \in ConfigKinds => q.gen = status.config)
    BY <1>1, ActHandsOut, DeliveredSeen DEF Reloading, Safely, Basics
  <2>4. stamp[m] <= status'.config
    BY <1>1, <2>1
  <2>5. QED
    BY <2>1, <2>2, <2>3, <2>4
<1>3. QED
  BY <1>1, <1>2 DEF Installed

LEMMA ActRestoredFirst == ASSUME Reloading, Act PROVE RestoredFirst'
<1>1. SUFFICES ASSUME ~deleting, status'.restPhase \in AfterRestore,
                      NEW m \in Machines, New(m)', RestorePending(InitNode)'
               PROVE  FALSE
  BY ActMoves DEF RestoredFirst, Reloading, Safely
<1>2. /\ UNCHANGED <<working, stamp>> /\ Typed /\ InitNode \in Machines
      /\ status.config \in Nat /\ stamp[m] \in Nat /\ pc = "act"
  BY ActEffect, RoundAssumption DEF Reloading, Safely, Basics, RoundOver, Typed,
     StatusType, PlannerOnly, agentVars, nodeVars
<1>3. CASE status.restPhase = "Restore" /\ status.config < status'.config
  <2>1. status'.config \in Nat /\ stamp[m] <= status.config
    BY ActEffect DEF Reloading, Installed, Safely, Basics, RoundOver, StatusType
  <2>2. \A p \in Seen(m)' : p.kind \in ConfigKinds =>
          p.gen \in Nat /\ p.gen <= status.config
    BY HandedConfigs DEF Reloading
  <2>3. \A p \in Seen(m)' : ~Current(p)'
    BY <1>2, <1>3, <2>1, <2>2 DEF Current
  <2>4. stamp'[m] # status'.config
    BY <1>2, <1>3, <2>1
  <2>5. {secret'[m].plan, working'[m].plan} \subseteq Seen(m)'
    BY DEF Seen
  <2>6. QED
    BY <1>1, <2>3, <2>4, <2>5 DEF New
<1>4. CASE /\ status.restPhase \in AfterRestore
           /\ status'.config = status.config
           /\ HandsOut(Kinds \ ({"none"} \cup DownKinds))
  <2>1. RestorePending(InitNode)
    BY <1>1, <1>2, <1>4, NoneDelivered DEF DownKinds
  <2>2. ~New(m)
    BY <1>1, <1>4, <2>1 DEF Reloading, RestoredFirst
  <2>3. m # InitNode /\ Current(secret'[m].plan) /\ ~Current(secret[m].plan)
    BY <1>1, <1>2, <1>4, <2>2 DEF New, Current
  <2>4. ~status.initialized /\ status.restPhase = "PostRestorePodCleanup"
    BY <1>1, <1>2, <1>4, <2>1 DEF Reloading, Safely, HeldPaused
  <2>5. Carried(InitNode, Plan("desired", "", status.config))
    BY <2>3, <2>4, CleanedFirst DEF Reloading, Safely
  <2>6. QED
    BY <1>2, <1>4, <2>1, <2>5, CarriedNoRestore DEF Reloading, ConfigKinds
<1>5. QED
  BY <1>3, <1>4, <1>1, ActMoves DEF Reloading, Safely

LEMMA ActLoadsRestored == ASSUME Reloading, Act PROVE LoadsRestored'
<1>1. /\ UNCHANGED <<deleting, loaded, keyStage, stamp>>
      /\ status'.restPhase \in AfterRestore =>
           \/ status.config < status'.config
           \/ status.restPhase \in AfterRestore /\ status'.config = status.config
  BY ActEffect, ActMoves DEF Reloading, Safely, Basics, RoundOver, PlannerOnly,
     nodeVars
<1>2. ASSUME NEW m \in Machines, status.config < status'.config
      PROVE  stamp[m] # status'.config
  <2>1. /\ stamp[m] <= status.config /\ stamp[m] \in Nat
        /\ status.config \in Nat /\ status'.config \in Nat
    BY ActEffect DEF Reloading, Installed, Safely, Basics, RoundOver, Typed,
       StatusType
  <2>2. QED
    BY <1>2, <2>1
<1>3. QED
  BY <1>1, <1>2 DEF Reloading, LoadsRestored

\* What the plan of a node does to the keys and to what it has loaded.
LEMMA NodeLoads ==
  ASSUME Typed, NEW m \in Machines, NodeRuns(m) \/ AgentFails(m)
  PROVE  /\ \A n \in Machines \ {m} : stamp'[n] = stamp[n] /\ loaded'[n] = loaded[n]
         /\ \/ stamp'[m] = stamp[m]
            \/ /\ working[m].plan.kind \in ConfigKinds
               /\ stamp'[m] = working[m].plan.gen /\ loaded'[m] = keyStage
         /\ loaded'[m] \in {loaded[m], keyStage}
         /\ keyStage' = "start" /\ keyStage # "start" =>
              working[m].plan.kind = "restore"
         /\ working[m].plan.kind \in ConfigKinds /\ Done(m)' # Done(m) =>
              stamp'[m] = working[m].plan.gen
<1>1. /\ loaded \in [Machines -> KeyStages] /\ stamp \in [Machines -> Nat]
      /\ working[m].plan \in PlansOf(m)
  BY DEF Typed
<1>2. CASE NodeRunsDesired(m)
  BY <1>1, <1>2 DEF NodeRunsDesired, Runs, StartsService, ConfigKinds
<1>3. CASE AgentFails(m)
  <2>1. UNCHANGED <<stamp, loaded, keyStage>> /\ Done(m)' = Done(m)
    BY <1>3, ReportedFailed DEF AgentFails, Done
  <2>2. QED
    BY <2>1
<1>4. CASE NodeRuns(m) /\ ~NodeRunsDesired(m)
  <2>1. working[m].plan.kind \notin ConfigKinds
    BY <1>4 DEF NodeRuns, NodeSnapshots, NodeStops, NodeRestores,
       NodeRotatesCerts, NodeEncrypts, NodeRefuses, NodeRestarts, Runs,
       ConfigKinds
  <2>2. /\ UNCHANGED stamp
        /\ \A n \in Machines \ {m} : loaded'[n] = loaded[n]
        /\ loaded'[m] \in {loaded[m], keyStage}
    BY <1>1, <1>4 DEF NodeRuns, NodeSnapshots, NodeStops, NodeRestores,
       NodeRotatesCerts, NodeEncrypts, NodeRefuses, NodeRestarts, StartsService
  <2>3. CASE NodeEncrypts(m)
    <3>1. working[m].plan.phase \in CommandPhases
      BY <1>1, <2>3 DEF PlansOf, NodeEncrypts, Runs
    <3>2. Command[working[m].plan.phase] # "start"
      BY <3>1, PhasesKnown
    <3>3. QED
      BY <2>1, <2>2, <2>3, <3>2 DEF NodeEncrypts
  <2>4. CASE ~NodeEncrypts(m)
    BY <1>4, <2>1, <2>2, <2>4 DEF NodeRuns, NodeSnapshots, NodeStops,
       NodeRestores, NodeRotatesCerts, NodeRefuses, NodeRestarts, Runs
  <2>5. QED
    BY <2>3, <2>4
<1>5. QED
  BY <1>2, <1>3, <1>4

LEMMA NodeReloading ==
  ASSUME Reloading, NEW m \in Machines, NodeRuns(m) \/ AgentFails(m)
  PROVE  Installed' /\ RestoredFirst' /\ LoadsRestored'
<1> DEFINE w == working[m].plan
<1>1. /\ UNCHANGED <<status, deleting>>
      /\ \A n \in Machines : secret'[n].plan = secret[n].plan
      /\ \A n \in Machines \ {m} :
           working'[n] = working[n] /\ Done(n)' = Done(n)
      /\ working'[m] = Resting
      /\ Done(m)' = Done(m) \/ Done(m)' \subseteq Done(m) \cup {w}
  BY ReportedSeen DEF Reloading, Safely, Basics, requestVars
<1>2. /\ \A n \in Machines \ {m} : stamp'[n] = stamp[n] /\ loaded'[n] = loaded[n]
      /\ \/ stamp'[m] = stamp[m]
         \/ /\ w.kind \in ConfigKinds
            /\ stamp'[m] = w.gen /\ loaded'[m] = keyStage
      /\ loaded'[m] \in {loaded[m], keyStage}
      /\ keyStage' = "start" /\ keyStage # "start" => w.kind = "restore"
      /\ w.kind \in ConfigKinds /\ Done(m)' # Done(m) => stamp'[m] = w.gen
  BY NodeLoads DEF Reloading, Safely, Basics
<1>3. working'[m].plan.kind \notin ConfigKinds \cup {"restore"}
  <2>1. Resting.plan = NoPlan
    BY DEF Resting
  <2>2. NoPlan.kind = "none"
    BY DEF NoPlan, Plan
  <2>3. QED
    BY <1>1, <2>1, <2>2 DEF ConfigKinds
<1>4. \A n \in Machines :
        /\ stamp[n] <= status.config /\ stamp[n] \in Nat
        /\ secret[n].plan.kind \in ConfigKinds => stamp[n] <= secret[n].plan.gen
        /\ working[n].plan.kind \in ConfigKinds =>
             stamp[n] <= working[n].plan.gen
        /\ secret[n].plan.kind \in ConfigKinds
             /\ working[n].plan.kind \in ConfigKinds =>
               working[n].plan.gen <= secret[n].plan.gen
        /\ \A d \in Done(n) : d.kind \in ConfigKinds =>
             d.gen <= stamp[n] /\ d.gen \in Nat
  BY DEF Reloading, Installed, Safely, Basics, Typed, SecretsOf, Done, PlansOf,
     PlanType
<1>5. /\ w.kind \in ConfigKinds => w.gen <= status.config /\ w.gen \in Nat
      /\ status.config \in Nat
  BY DEF Reloading, Safely, ConfigsPast, Seen, Basics, Typed, PlanType,
     StatusType
<1> HIDE DEF w
<1>6. Installed'
  <2>1. SUFFICES ASSUME NEW n \in Machines
                 PROVE  /\ stamp'[n] <= status.config
                        /\ secret[n].plan.kind \in ConfigKinds =>
                             stamp'[n] <= secret[n].plan.gen
                        /\ working'[n].plan.kind \in ConfigKinds =>
                             stamp'[n] <= working'[n].plan.gen
                        /\ secret[n].plan.kind \in ConfigKinds
                             /\ working'[n].plan.kind \in ConfigKinds =>
                               working'[n].plan.gen <= secret[n].plan.gen
                        /\ \A d \in Done(n)' : d.kind \in ConfigKinds =>
                             d.gen <= stamp'[n]
    BY <1>1 DEF Installed
  <2>2. CASE n # m
    BY <1>1, <1>2, <1>4, <2>2
  <2>3. CASE n = m
    <3>1. /\ stamp'[m] <= status.config
          /\ secret[m].plan.kind \in ConfigKinds =>
               stamp'[m] <= secret[m].plan.gen
      BY <1>2, <1>4, <1>5 DEF w
    <3>2. stamp[m] <= stamp'[m] /\ stamp'[m] \in Nat
      BY <1>2, <1>4, <1>5 DEF w
    <3>3. ASSUME NEW d \in Done(m)', d.kind \in ConfigKinds
          PROVE  d.gen <= stamp'[m]
      <4>1. CASE d \in Done(m)
        BY <1>4, <3>2, <3>3, <4>1
      <4>2. CASE d \notin Done(m)
        <5>1. d = w /\ Done(m)' # Done(m)
          BY <1>1, <3>3, <4>2
        <5>2. d.gen = stamp'[m]
          BY <1>2, <3>3, <5>1
        <5>3. QED
          BY <3>2, <5>2
      <4>3. QED
        BY <4>1, <4>2
    <3>4. QED
      BY <1>3, <2>3, <3>1, <3>3
  <2>4. QED
    BY <2>2, <2>3
<1>7. RestorePending(InitNode)' => RestorePending(InitNode)
  BY <1>1, <1>3, RoundAssumption DEF RestorePending
<1>8. RestoredFirst'
  <2>1. SUFFICES ASSUME ~deleting, status.restPhase \in AfterRestore,
                        NEW n \in Machines, New(n)', RestorePending(InitNode)'
                 PROVE  FALSE
    BY <1>1 DEF RestoredFirst
  <2>2. \A k \in Machines : ~New(k)
    BY <1>7, <2>1 DEF Reloading, RestoredFirst
  <2>3. n = m /\ stamp'[m] = status.config /\ stamp'[m] # stamp[m]
    BY <1>1, <1>2, <1>3, <2>1, <2>2 DEF New, Current
  <2>4. Current(w)
    BY <1>2, <2>3 DEF Current
  <2>5. m = InitNode
    BY <2>2, <2>4 DEF New, w
  <2>6. secret[m].plan.kind # "restore"
    BY <2>1, <2>4 DEF Reloading, Safely, ComesBack, Seen, DownKinds, w
  <2>7. QED
    BY <1>1, <1>3, <2>1, <2>5, <2>6 DEF RestorePending
<1>9. LoadsRestored'
  <2>1. SUFFICES ASSUME ~deleting, status.restPhase \in AfterRestore,
                        keyStage' = "start", NEW n \in Machines,
                        stamp'[n] = status.config
                 PROVE  loaded'[n] = "start"
    BY <1>1 DEF LoadsRestored
  <2>2. CASE keyStage = "start"
    BY <1>2, <2>1, <2>2 DEF Reloading, LoadsRestored
  <2>3. CASE keyStage # "start"
    <3>1. w.kind = "restore"
      BY <1>2, <2>1, <2>3
    <3>2. RestorePending(m) /\ m = InitNode
      BY <3>1, OthersRestoreNothing DEF Reloading, RestorePending, w
    <3>3. stamp[n] # status.config
      BY <2>1, <3>2 DEF Reloading, RestoredFirst, New
    <3>4. stamp'[n] = stamp[n]
      BY <1>2, <3>1 DEF ConfigKinds
    <3>5. QED
      BY <2>1, <3>3, <3>4
  <2>4. QED
    BY <2>2, <2>3
<1>10. QED
  BY <1>6, <1>8, <1>9

LEMMA StartReloading ==
  ASSUME Reloading, NEW m \in Machines, AgentStart(m)
  PROVE  Installed' /\ RestoredFirst' /\ LoadsRestored'
<1>1. /\ UNCHANGED <<deleting, status, secret, keyStage, loaded, stamp>>
      /\ \A n \in Machines : Done(n)' = Done(n)
      /\ working'[m].plan = secret[m].plan
      /\ \A n \in Machines \ {m} : working'[n] = working[n]
  BY StartedSeen DEF Reloading, Safely, Basics, AgentStart
<1>2. secret[m].plan.gen \in Nat
  BY DEF Reloading, Safely, Basics, Typed, SecretsOf, PlansOf, PlanType
<1>3. Installed'
  BY <1>1, <1>2 DEF Reloading, Installed
<1>4. RestorePending(InitNode)' => RestorePending(InitNode)
  BY <1>1, RoundAssumption DEF RestorePending
<1>5. \A n \in Machines : New(n)' => New(n)
  BY <1>1 DEF New, Current
<1>6. RestoredFirst'
  BY <1>1, <1>4, <1>5 DEF Reloading, RestoredFirst
<1>7. LoadsRestored'
  BY <1>1 DEF Reloading, LoadsRestored
<1>8. QED
  BY <1>3, <1>6, <1>7

LEMMA InitReloading == Init => Reloading
<1>1. SUFFICES ASSUME Init PROVE Reloading
  OBVIOUS
<1>2. Safely
  BY <1>1, InitSafely
<1>3. /\ status.restPhase = "" /\ status.config = 0
      /\ \A m \in Machines : stamp[m] = 0
  BY <1>1 DEF Init, Provisioned
<1>4. \A m \in Machines :
        /\ secret[m].plan.gen = 0 /\ working[m].plan.gen = 0
        /\ \A p \in Done(m) : p.gen = 0
  <2>1. \A p, q : LET s == Secret(p, "forever", p, p, q, "")
                 IN s.plan = p /\ s.applied = p /\ s.sum = p
    BY DEF Secret
  <2>2. DesiredPlan(Provisioned).gen = 0
    BY DEF DesiredPlan, Provisioned, Plan
  <2>3. Resting.plan.gen = 0
    BY DEF Resting, NoPlan, Plan
  <2>4. ASSUME NEW m \in Machines
        PROVE  /\ secret[m] = Secret(DesiredPlan(Provisioned), "forever",
                                DesiredPlan(Provisioned),
                                DesiredPlan(Provisioned), NoPlan, "")
               /\ working[m] = Resting
    BY <1>1 DEF Init
  <2>5. ASSUME NEW m \in Machines
        PROVE  /\ secret[m].plan.gen = 0 /\ working[m].plan.gen = 0
               /\ \A p \in Done(m) : p.gen = 0
    <3>1. /\ secret[m].plan = DesiredPlan(Provisioned)
          /\ secret[m].applied = DesiredPlan(Provisioned)
          /\ secret[m].sum = DesiredPlan(Provisioned)
      <4> HIDE DEF Provisioned
      <4>1. QED
        BY <2>1, <2>4
    <3>2. QED
      BY <2>2, <2>3, <2>4, <3>1 DEF Done
  <2>6. QED
    BY <2>5
<1>5. Installed
  <2>1. 0 <= 0
    OBVIOUS
  <2>2. QED
    BY <1>3, <1>4, <2>1 DEF Installed
<1>6. RestoredFirst /\ LoadsRestored
  BY <1>3 DEF RestoredFirst, LoadsRestored, AfterRestore
<1>7. QED
  BY <1>2, <1>5, <1>6 DEF Reloading

LEMMA NextReloading == Reloading /\ [Next]_vars => Reloading'
<1>1. SUFFICES ASSUME Reloading, [Next]_vars
               PROVE  Installed' /\ RestoredFirst' /\ LoadsRestored'
  BY NextSafely DEF Reloading
<1>2. CASE Act
  BY <1>1, <1>2, ActInstalled, ActRestoredFirst, ActLoadsRestored
<1>3. ASSUME NEW m \in Machines, NodeRuns(m) \/ AgentFails(m)
      PROVE  Installed' /\ RestoredFirst' /\ LoadsRestored'
  BY <1>1, <1>3, NodeReloading
<1>4. ASSUME NEW m \in Machines, AgentStart(m)
      PROVE  Installed' /\ RestoredFirst' /\ LoadsRestored'
  BY <1>1, <1>4, StartReloading
<1>5. CASE \/ Users \/ Read \/ UNCHANGED vars
           \/ \E m \in Machines : LoseMachine(m)
  <2>1. UNCHANGED <<status, secret, working, stamp, loaded, keyStage>>
    BY <1>1, <1>5 DEF Users, Ask, DeleteCluster, Read, LoseMachine, vars,
       agentVars, nodeVars
  <2>2. deleting => deleting'
    BY <1>1, <1>5 DEF Users, Ask, DeleteCluster, Read, LoseMachine, vars,
       requestVars
  <2>3. Installed'
    BY <1>1, <2>1 DEF Reloading, Installed, Done
  <2>4. RestoredFirst' /\ LoadsRestored'
    BY <1>1, <2>1, <2>2 DEF Reloading, RestoredFirst, LoadsRestored, New,
       Current, RestorePending
  <2>5. QED
    BY <2>3, <2>4
<1>6. QED
  BY <1>1, <1>2, <1>3, <1>4, <1>5 DEF Next

LEMMA AlwaysReloading == Spec => []Reloading
<1>1. Init => Reloading
  BY InitReloading
<1>2. Reloading /\ [Next]_vars => Reloading'
  BY NextReloading
<1>3. QED
  BY <1>1, <1>2, PTL DEF Spec

\* When a restore is finished every machine has started since it was executed,
\* and so with the restored keys, unless a command left by a key rotation has
\* changed them: nobody is installed with the new configuration before the init
\* node is, which by then has no restore left to execute.
THEOREM RestoreReloads == Spec => RestoreLoadsKeys
<1>1. Reloading /\ [Next]_vars =>
        [status'.restPhase = "Finished" /\ status.restPhase # "Finished"
           /\ keyStage = "start" => \A m \in Machines : loaded[m] = "start"]_vars
  <2>1. SUFFICES ASSUME Reloading, Next, status'.restPhase = "Finished",
                        status.restPhase # "Finished", keyStage = "start",
                        NEW m \in Machines
                 PROVE  loaded[m] = "start"
    OBVIOUS
  <2>2. /\ pc = "act" /\ status.restPhase \in AfterRestore /\ ~deleting
        /\ Carried(m, Plan("desired", "", status.config))
    BY <2>1, FinishesWhen DEF Reloading
  <2>3. secret[m].applied = Plan("desired", "", status.config)
    BY <2>1, <2>2, CarriedTrue DEF Reloading, Safely
  <2>4. /\ Plan("desired", "", status.config).kind \in ConfigKinds
        /\ Plan("desired", "", status.config).gen = status.config
    BY DEF Plan, ConfigKinds
  <2>5. status.config <= stamp[m] /\ stamp[m] <= status.config
    BY <2>1, <2>3, <2>4 DEF Reloading, Installed, Done
  <2>6. stamp[m] \in Nat /\ status.config \in Nat
    BY <2>1 DEF Reloading, Safely, Basics, Typed, StatusType
  <2>7. stamp[m] = status.config
    BY <2>5, <2>6
  <2>8. QED
    BY <2>1, <2>2, <2>7 DEF Reloading, LoadsRestored
<1>2. QED
  BY <1>1, AlwaysReloading, PTL DEF Spec, RestoreLoadsKeys

-----------------------------------------------------------------------------
(* When every restore is asked for with a greater generation than the one   *)
(* before, so that none is told apart from another by what is left of it.   *)

RestoresGrow ==
  [][asked'["restore"] # asked["restore"] =>
       asked'["restore"] > asked["restore"]]_vars

\* The plan of the restore in the status.
ThisRestore == Plan("restore", "", status.restFor)

\* The plans that are found at the init node.
Known ==
  Seen(InitNode) \cup {secret[InitNode].failed}
    \cup {p \in PlanType : <<InitNode, p>> \in ran}

\* Nothing is known there of a restore that is yet to be asked for.
Growing ==
  /\ status.restFor <= asked["restore"]
  /\ pc = "act" => status.restFor <= cp.asked["restore"]
  /\ status.restPhase # "" => status.restFor # 0
  /\ \A p \in Known : p.kind = "restore" => p.gen <= status.restFor

\* A restore is tried once: it is marked as run when it is begun, and if it has
\* failed it is not delivered anew, and not begun again.  So who reports that it
\* is carried out has executed it.
Tried ==
  LET p == ThisRestore
      s == secret[InitNode]
      w == working[InitNode]
  IN status.restFor \notin restored =>
       /\ status.restPhase \in {"", "Started", "Shutdown"} => p \notin Known
       /\ p \notin Done(InitNode)
       /\ s.plan = p => s.limit # "forever"
       /\ w.plan = p => w.fresh /\ s.plan = p
       /\ <<InitNode, p>> \in ran => w.plan = p \/ s.failed = p
       /\ s.failed = p => s.plan = p /\ w = Resting

\* The restore that is brought to its end has been executed.
RestoredInPhase ==
  status.restPhase \in AfterRestore \cup {"Finished"} =>
    status.restFor \in restored

Restoring == Safely /\ Growing /\ Tried /\ RestoredInPhase

\* Of a restore of which nothing is known everything is true.
LEMMA UnknownTried ==
  ASSUME ThisRestore \notin Known, ThisRestore \in PlanType
  PROVE  Tried
  BY DEF Tried, Known, Seen, Done

LEMMA RestoreIs ==
  ASSUME NEW g \in Nat
  PROVE  /\ Plan("restore", "", g) \in PlanType
         /\ Plan("restore", "", g).kind = "restore"
         /\ Plan("restore", "", g).gen = g
<1>1. "" \in KeyPhases /\ "restore" \in Kinds
  BY PhasesKnown DEF Kinds
<1>2. QED
  BY <1>1 DEF Plan, PlanType

\* What a round hands out to the init node when it is to restore, and that no
\* round hands out a restore otherwise.
LEMMA RestoreHandedOut ==
  ASSUME Safely, Act
  PROVE  IF status.restPhase = "Restore"
         THEN \/ secret'[InitNode] = secret[InitNode]
              \/ secret'[InitNode] =
                   Delivered(secret[InitNode], ThisRestore, "few")
         ELSE HandsOut(Kinds \ {"restore"})
<1>1. /\ pc = "act" /\ cp.status = status /\ Typed /\ RoundKnows
      /\ InitNode \in Machines
  BY RoundAssumption DEF Act, Safely, Basics, RoundKnows
<1>2. CASE status.restPhase = "Restore"
  <2>1. ~status.initialized /\ ~RestoreIdle
    BY <1>1, <1>2 DEF Safely, Uninitialized, RestoreIdle
  <2>2. CASE UNCHANGED secret
    BY <1>2, <2>2
  <2>3. CASE EtcdCreateStep
    BY <1>1, <1>2, <2>1, <2>3, CreateEffect
  <2>4. CASE RunRestore
    <3>1. Assign({n \in {InitNode} : NeedsPlan(n, RestorePlan)},
                 [n \in Machines |-> RestorePlan], "few")
      BY <2>4 DEF RunRestore, RunOn
    <3>2. RestorePlan = ThisRestore
      BY <1>1 DEF RestorePlan, ThisRestore
    <3>3. QED
      BY <1>1, <1>2, <3>1, <3>2 DEF Assign, Delivered
  <2>5. CASE EtcdRestoreStep /\ ~RunRestore
    BY <1>1, <1>2, <2>5 DEF EtcdRestoreStep, ResetRestore, StartRestore,
       Uninitialize, StopServices, StopRefused, AwaitStopped, EndShutdown,
       CleanUpPods, CleanUpNodes, RestartStep, EndRestart, Restarting, RestoreIn
  <2>6. QED
    BY <2>1, <2>2, <2>3, <2>4, <2>5 DEF Act, LeaveDeleting, ActRestore, ActCerts,
       ActKeys, ActRollout
<1>3. CASE status.restPhase # "Restore"
  <2> DEFINE kinds == Kinds \ {"restore"}
  <2>1. UNCHANGED secret => HandsOut(kinds)
    BY <1>1, NothingAssigned
  <2>2. \A ks \in SUBSET kinds : HandsOut(ks) => HandsOut(kinds)
    BY DEF HandsOut
  <2>3. /\ {"snapshot", "desired"} \in SUBSET kinds /\ {"stop"} \in SUBSET kinds
        /\ {"podcleanup", "desired"} \in SUBSET kinds
        /\ {"nodecleanup"} \in SUBSET kinds /\ {"desired"} \in SUBSET kinds
        /\ {"certs"} \in SUBSET kinds /\ {"encrypt", "restart"} \in SUBSET kinds
    BY DEF Kinds
  <2> HIDE DEF kinds
  <2>4. ~RestoreRuns
    BY <1>3 DEF RestoreRuns
  <2>5. \/ UNCHANGED secret
        \/ HandsOut({"snapshot", "desired"}) \/ HandsOut({"stop"})
        \/ HandsOut({"podcleanup", "desired"}) \/ HandsOut({"nodecleanup"})
        \/ HandsOut({"desired"}) \/ HandsOut({"certs"})
        \/ HandsOut({"encrypt", "restart"})
    BY <1>1, <2>4, ActEffect DEF LeavesAlone, TakesSnapshots, Restores,
       RestoreAsks, RestoreBegins, RestoreShutsDown, CleansPods, CleansNodes,
       Restarts, RotatesCerts, RotatesKeys, RollsOut
  <2>6. HandsOut(kinds)
    BY <2>1, <2>2, <2>3, <2>5
  <2>7. QED
    BY <1>3, <2>6 DEF kinds
<1>4. QED
  BY <1>2, <1>3

\* What a round makes of the restore in the status.
LEMMA RestoreMoves ==
  ASSUME Restoring, Act
  PROVE  \/ UNCHANGED <<status.restFor, status.restPhase>>
         \/ /\ UNCHANGED status.restFor /\ status.restPhase \in AfterRestore
         \/ /\ UNCHANGED status.restFor
            /\ status.restPhase \in {"Started", "Shutdown"}
            /\ status'.restPhase \notin AfterRestore \cup {"", "Finished"}
         \/ /\ UNCHANGED status.restFor /\ status.restPhase = "Restore"
            /\ status.restFor \in restored
         \/ /\ cp.asked = asked /\ status.restFor < asked["restore"]
            /\ status'.restFor = asked["restore"]
            /\ status'.restPhase = "Started"
<1>1. /\ pc = "act" /\ Typed /\ InitNode \in Machines
      /\ cp.edits = edits => cp.asked = asked
      /\ cp.asked["restore"] \in Nat /\ status.restFor \in Nat
      /\ status.restFor <= cp.asked["restore"]
      /\ status.restFor = 0 => status.restPhase = ""
  BY RoundAssumption DEF Act, Restoring, Growing, Safely, Basics, RoundKnows,
     Typed, Requests, Operations, StatusType
<1>2. CASE RestoreAsks
  <2>1. CASE cp.asked["restore"] = 0 /\ status'.restFor = 0
             /\ status'.restPhase = ""
    <3>1. status.restFor \in Nat /\ status.restFor <= 0
      BY <1>1, <2>1
    <3>2. status.restFor = 0
      BY <3>1
    <3>3. QED
      BY <1>1, <2>1, <3>2
  <2>2. CASE /\ edits = cp.edits /\ status.restFor # cp.asked["restore"]
             /\ status'.restFor = cp.asked["restore"]
             /\ status'.restPhase = "Started"
    <3> DEFINE a == cp.asked["restore"]
               g == status.restFor
    <3>1. a \in Nat /\ g \in Nat /\ g <= a /\ g # a
      BY <1>1, <2>2
    <3> HIDE DEF a, g
    <3>2. g < a
      BY <3>1
    <3>3. QED
      BY <1>1, <2>2, <3>2 DEF a, g
  <2>3. QED
    BY <1>2, <2>1, <2>2 DEF RestoreAsks, KeepsRequest
<1>3. CASE RestoreRuns
  <2>1. CASE KeepsRestore
    BY <2>1 DEF KeepsRestore, KeepsRequest
  <2>2. CASE Carried(InitNode, ThisRestore)
    <3>1. ThisRestore \in Done(InitNode)
      BY <1>1, <2>2, CarriedTrue DEF Restoring, Safely, Done
    <3>2. QED
      BY <1>3, <3>1 DEF Restoring, Tried, RestoreRuns
  <2>3. QED
    BY <1>3, <2>1, <2>2 DEF RestoreRuns, ThisRestore
<1>4. CASE ~RestoreAsks /\ ~RestoreRuns
  BY <1>4, ActEffect DEF Restoring, Safely, Basics, LeavesAlone, TakesSnapshots,
     Restores, RotatesCerts, RotatesKeys, RollsOut, KeepsRestore, KeepsRequest,
     RestoreBegins, RestoreShutsDown, CleansPods, CleansNodes, Restarts,
     AfterRestore
<1>5. QED
  BY <1>2, <1>3, <1>4

LEMMA ActRestoring ==
  ASSUME Restoring, Act
  PROVE  Growing' /\ Tried' /\ RestoredInPhase'
<1> DEFINE p == ThisRestore
           s == secret[InitNode]
           w == working[InitNode]
<1>1. /\ UNCHANGED <<asked, working, ran, restored>> /\ Typed
      /\ pc = "act" /\ pc' = "idle" /\ InitNode \in Machines
      /\ status.restFor \in Nat /\ status'.restFor \in Nat
      /\ asked["restore"] \in Nat
  BY ActEffect, RoundAssumption DEF Restoring, Safely, Basics, RoundOver,
     RoundEnds, PlannerOnly, requestVars, agentVars, nodeVars, Typed, Requests,
     Operations, StatusType
<1>2. /\ Done(InitNode)' \subseteq Done(InitNode)
      /\ secret'[InitNode].failed = secret[InitNode].failed
  <2>1. HandsOut(Kinds \ {"none"})
    BY ActHandsOut DEF Restoring, Safely, Basics
  <2>2. \A t, q, limit : Delivered(t, q, limit).failed = t.failed
    BY DEF Delivered, Secret
  <2>3. Done(InitNode)' \subseteq Done(InitNode)
    BY <1>1, <2>1, DeliveredSeen
  <2>4. secret'[InitNode].failed = secret[InitNode].failed
    BY <1>1, <2>1, <2>2 DEF HandsOut
  <2>5. QED
    BY <2>3, <2>4
<1>3. ASSUME NEW q \in Known', q.kind = "restore"
      PROVE  q \in Known \/ (status.restPhase = "Restore" /\ q = p)
  <2>1. CASE q \notin Seen(InitNode)'
    BY <1>1, <1>2, <1>3, <2>1 DEF Known
  <2>2. CASE q \in Seen(InitNode)' /\ status.restPhase # "Restore"
    <3>1. HandsOut(Kinds \ {"restore"})
      BY <2>2, RestoreHandedOut DEF Restoring
    <3>2. q \in Seen(InitNode)
      BY <1>1, <1>3, <2>2, <3>1, DeliveredSeen
    <3>3. QED
      BY <3>2 DEF Known
  <2>3. CASE q \in Seen(InitNode)' /\ status.restPhase = "Restore"
    <3>1. \/ secret'[InitNode] = s
          \/ secret'[InitNode] = Delivered(s, p, "few")
      BY <2>3, RestoreHandedOut DEF Restoring
    <3>2. Seen(InitNode)' \subseteq Seen(InitNode) \cup {p}
      BY <1>1, <3>1 DEF Seen, Delivered, Secret
    <3>3. QED
      BY <2>3, <3>2 DEF Known
  <2>4. QED
    BY <2>1, <2>2, <2>3
<1>4. p.kind = "restore" /\ p.gen = status.restFor /\ p \in PlanType
      /\ p'.kind = "restore" /\ p'.gen = status'.restFor /\ p' \in PlanType
  BY <1>1, RestoreIs DEF ThisRestore
<1>5. \A q \in Known : q.kind = "restore" =>
        q.gen \in Nat /\ q.gen <= status.restFor
  <2>1. Known \subseteq PlanType
    BY <1>1 DEF Known, Seen, Typed, SecretsOf, PlansOf
  <2>2. QED
    BY <2>1 DEF Restoring, Growing, PlanType
<1>6. status.restFor <= status'.restFor /\ status'.restFor <= asked["restore"]
      /\ (status'.restPhase # "" => status'.restFor # 0)
  <2>1. /\ status.restFor <= asked["restore"]
        /\ status.restPhase # "" => status.restFor # 0
    BY DEF Restoring, Growing
  <2>2. \/ /\ status'.restFor = status.restFor
           /\ status'.restPhase # "" => status.restPhase # ""
        \/ status.restFor < asked["restore"] /\ status'.restFor = asked["restore"]
    BY RestoreMoves DEF AfterRestore
  <2>3. CASE /\ status'.restFor = status.restFor
             /\ status'.restPhase # "" => status.restPhase # ""
    <3>1. status'.restPhase # "" => status'.restFor # 0
      BY <2>1, <2>3
    <3> DEFINE g == status.restFor
               h == status'.restFor
    <3>2. g \in Nat /\ h = g
      BY <1>1, <2>3
    <3>3. h <= asked["restore"]
      BY <2>1, <2>3
    <3> HIDE DEF g, h
    <3>4. g <= h
      BY <3>2
    <3>5. QED
      BY <3>1, <3>3, <3>4 DEF g, h
  <2>4. CASE status.restFor < asked["restore"] /\ status'.restFor = asked["restore"]
    <3> DEFINE a == asked["restore"]
               g == status.restFor
    <3>1. a \in Nat /\ g \in Nat /\ g < a
      BY <1>1, <2>4
    <3> HIDE DEF a, g
    <3>2. g <= a /\ a <= a /\ a # 0
      BY <3>1
    <3>3. QED
      BY <2>4, <3>2 DEF a, g
  <2>5. QED
    BY <2>2, <2>3, <2>4
<1> HIDE DEF p, s, w
<1>7. Growing'
  <2>1. ASSUME NEW q \in Known', q.kind = "restore"
        PROVE  q.gen <= status'.restFor
    <3>1. q.gen \in Nat /\ q.gen <= status.restFor
      BY <1>1, <1>3, <1>4, <1>5, <2>1
    <3>2. status.restFor \in Nat /\ status'.restFor \in Nat
      BY <1>1
    <3>3. status.restFor <= status'.restFor
      BY <1>6
    <3>4. QED
      BY <3>1, <3>2, <3>3
  <2>2. QED
    BY <1>1, <1>6, <2>1 DEF Growing
<1>8. RestoredInPhase'
  <2>1. status.restPhase \in AfterRestore \cup {"Finished"} =>
          status.restFor \in restored
    BY DEF Restoring, RestoredInPhase
  <2>2. QED
    BY <1>1, <2>1, RestoreMoves DEF RestoredInPhase, AfterRestore
<1>9. Tried'
  <2>1. SUFFICES ASSUME status'.restFor \notin restored
                 PROVE  Tried'
    BY <1>1 DEF Tried
  <2>2. ASSUME UNCHANGED <<status.restFor, status.restPhase>>,
               status.restPhase = "Restore"
        PROVE  Tried'
    <3>1. /\ p \notin Done(InitNode)
          /\ s.plan = p => s.limit # "forever"
          /\ w.plan = p => w.fresh /\ s.plan = p
          /\ <<InitNode, p>> \in ran => w.plan = p \/ s.failed = p
          /\ s.failed = p => s.plan = p /\ w = Resting
      BY <2>1, <2>2 DEF Restoring, Tried, p, s, w
    <3>2. \/ secret'[InitNode] = s
          \/ secret'[InitNode].plan = p /\ secret'[InitNode].limit = "few"
      <4>1. Delivered(s, p, "few").plan = p
            /\ Delivered(s, p, "few").limit = "few"
        BY DEF Delivered, Secret
      <4>2. QED
        BY <2>2, <4>1, RestoreHandedOut DEF Restoring, p, s
    <3>3. /\ p \notin Done(InitNode)'
          /\ secret'[InitNode].plan = p => secret'[InitNode].limit # "forever"
          /\ w.plan = p => w.fresh /\ secret'[InitNode].plan = p
          /\ <<InitNode, p>> \in ran =>
               w.plan = p \/ secret'[InitNode].failed = p
          /\ secret'[InitNode].failed = p =>
               secret'[InitNode].plan = p /\ w = Resting
      BY <1>2, <3>1, <3>2 DEF s
    <3>4. ThisRestore' = p /\ w' = w
      BY <1>1, <2>2 DEF ThisRestore, p, w
    <3>5. QED
      BY <1>1, <2>2, <3>3, <3>4 DEF Tried, w
  <2>3. ASSUME p' \notin Known' PROVE Tried'
    BY <1>4, <2>3, UnknownTried DEF Tried, Known, Seen, Done, p
  <2>4. ASSUME UNCHANGED status.restFor,
               status.restPhase \in {"", "Started", "Shutdown"}
        PROVE  Tried'
    <3>1. p \notin Known /\ p' = p
      BY <2>1, <2>4 DEF Restoring, Tried, p, ThisRestore
    <3>2. QED
      BY <1>3, <1>4, <2>3, <2>4, <3>1
  <2>5. ASSUME status.restFor < status'.restFor PROVE Tried'
    <3>1. p' \notin Known /\ p' # p
      BY <1>1, <1>4, <1>5, <2>5
    <3>2. QED
      BY <1>3, <1>4, <2>3, <3>1
  <2>6. status.restPhase \in AfterRestore \cup {"Finished"} =>
          status.restFor \in restored
    BY DEF Restoring, RestoredInPhase
  <2>7. status.restPhase \in {"", "Started", "Shutdown", "Restore", "Finished"}
                               \cup AfterRestore
    BY <1>1 DEF Typed, StatusType, RestorePhases, AfterRestore
  <2>8. QED
    BY <2>1, <2>2, <2>4, <2>5, <2>6, <2>7, RestoreMoves
<1>10. QED
  BY <1>7, <1>8, <1>9

LEMMA StartRestoring ==
  ASSUME Restoring, NEW m \in Machines, AgentStart(m)
  PROVE  Growing' /\ Tried' /\ RestoredInPhase'
<1> DEFINE p == ThisRestore
           s == secret[InitNode]
           w == working[InitNode]
           q == secret[m].plan
<1>1. /\ UNCHANGED <<asked, pc, cp, status, secret, restored>>
      /\ working[m] = Resting
      /\ working \in [Machines -> [plan : PlanType, fresh : BOOLEAN]]
      /\ q \in PlanType /\ InitNode \in Machines
      /\ status.restFor \in Nat
  BY RoundAssumption DEF AgentStart, Restoring, Safely, Basics, Typed,
     SecretType, requestVars, readVars, StatusType
<1>2. /\ \A n \in Machines \ {m} : working'[n] = working[n]
      /\ working'[m].plan = q
      /\ working'[m].fresh <=> secret[m].failed = q \/ <<m, q>> \notin ran
      /\ ran' \subseteq ran \cup {<<m, q>>}
      /\ secret[m].failed = q => secret[m].limit = "forever"
  BY <1>1 DEF AgentStart
<1>3. Done(InitNode)' = Done(InitNode) /\ p' = p
  BY <1>1 DEF Done, ThisRestore
<1>4. Known' \subseteq Known
  BY <1>1, <1>2 DEF Known, Seen
<1>5. p.kind = "restore"
  BY <1>1, RestoreIs DEF ThisRestore
<1>6. Growing' /\ RestoredInPhase'
  BY <1>1, <1>4 DEF Restoring, Growing, RestoredInPhase
<1>7. Resting.plan # p
  <2>1. Resting.plan = NoPlan
    BY DEF Resting
  <2>2. NoPlan.kind = "none"
    BY DEF NoPlan, Plan
  <2>3. QED
    BY <1>5, <2>1, <2>2
<1> HIDE DEF p, q
<1>8. ASSUME status.restFor \notin restored
      PROVE  /\ status.restPhase \in {"", "Started", "Shutdown"} =>
                  p \notin Known'
             /\ p \notin Done(InitNode)'
             /\ s.plan = p => s.limit # "forever"
             /\ working'[InitNode].plan = p =>
                  working'[InitNode].fresh /\ s.plan = p
             /\ <<InitNode, p>> \in ran' =>
                  working'[InitNode].plan = p \/ s.failed = p
             /\ s.failed = p => s.plan = p /\ working'[InitNode] = Resting
  <2>1. /\ status.restPhase \in {"", "Started", "Shutdown"} => p \notin Known
        /\ p \notin Done(InitNode)
        /\ s.plan = p => s.limit # "forever"
        /\ w.plan = p => w.fresh /\ s.plan = p
        /\ <<InitNode, p>> \in ran => w.plan = p \/ s.failed = p
        /\ s.failed = p => s.plan = p /\ w = Resting
    BY <1>8 DEF Restoring, Tried, p
  <2>2. CASE m # InitNode
    BY <1>1, <1>2, <1>3, <1>4, <2>1, <2>2
  <2>3. CASE m = InitNode
    <3>1. s.failed # p /\ <<InitNode, p>> \notin ran
      BY <1>1, <1>2, <1>7, <2>1, <2>3 DEF q
    <3>2. QED
      BY <1>1, <1>2, <1>3, <1>4, <2>1, <2>3, <3>1 DEF q
  <2>4. QED
    BY <2>2, <2>3
<1>9. Tried'
  BY <1>1, <1>3, <1>8 DEF Tried, p
<1>10. QED
  BY <1>6, <1>9

LEMMA NodeRestoring ==
  ASSUME Restoring, NEW m \in Machines, NodeRuns(m) \/ AgentFails(m)
  PROVE  Growing' /\ Tried' /\ RestoredInPhase'
<1> DEFINE p == ThisRestore
           s == secret[InitNode]
           w == working[InitNode]
<1>1. /\ Typed /\ UNCHANGED <<status, asked, pc, cp>> /\ InitNode \in Machines
      /\ restored \subseteq restored' /\ ran' \subseteq ran
      /\ status.restFor \in Nat
      /\ working \in [Machines -> [plan : PlanType, fresh : BOOLEAN]]
  BY NodeEffect, ReportedSeen, RoundAssumption DEF Restoring, Safely, Basics,
     NodeTyped, requestVars, readVars, Typed, StatusType
<1>2. p' = p /\ p.kind = "restore" /\ p.gen = status.restFor
  BY <1>1, RestoreIs DEF ThisRestore
<1>3. NoPlan.kind = "none" /\ Resting.plan = NoPlan
  <2>1. Resting.plan = NoPlan
    BY DEF Resting
  <2>2. NoPlan.kind = "none"
    BY DEF NoPlan, Plan
  <2>3. QED
    BY <2>1, <2>2
<1>4. CASE m # InitNode
  <2>1. /\ working'[InitNode] = w /\ secret'[InitNode] = s
        /\ Known' \subseteq Known /\ Done(InitNode)' = Done(InitNode)
    <3>1. /\ working'[InitNode] = w /\ Seen(InitNode)' = Seen(InitNode)
          /\ Done(InitNode)' = Done(InitNode)
      BY <1>1, <1>4, ReportedSeen
    <3>2. secret'[InitNode] = s
      <4>1. CASE PlanFails(m)
        BY <1>1, <1>4, <4>1 DEF PlanFails, Typed
      <4>2. ASSUME NEW out \in KeyStages \cup {""}, AgentReports(m, out)
            PROVE  secret'[InitNode] = s
        BY <1>1, <1>4, <4>2, Reported
      <4>3. QED
        BY <1>1, <4>1, <4>2, NodeEffect
    <3>3. QED
      BY <1>1, <3>1, <3>2 DEF Known
  <2>2. QED
    BY <1>1, <1>2, <2>1 DEF Restoring, Growing, Tried, RestoredInPhase
<1>5. CASE m = InitNode
  <2>1. /\ secret'[m].plan = s.plan /\ secret'[m].limit = s.limit
        /\ working'[m] = Resting
        /\ secret'[m].failed \in {NoPlan, w.plan}
        /\ \/ secret'[m].failed = w.plan /\ Done(m)' = Done(m)
           \/ /\ Done(m)' \subseteq Done(m) \cup {w.plan}
              /\ w.plan = p /\ w.fresh => p.gen \in restored'
    <3>1. CASE PlanFails(m)
      <4>1. /\ secret' = [secret EXCEPT ![m].failed = w.plan]
            /\ secret \in [Machines -> SecretType]
            /\ working'[m] = Resting
        BY <1>1, <1>5, <3>1 DEF PlanFails, Typed
      <4>2. \A t \in SecretType : \A r :
              LET u == [t EXCEPT !.failed = r]
              IN /\ u.plan = t.plan /\ u.limit = t.limit /\ u.failed = r
                 /\ u.applied = t.applied /\ u.sum = t.sum
        BY DEF SecretType
      <4>3. secret'[m] = [secret[m] EXCEPT !.failed = w.plan]
            /\ secret[m] \in SecretType
        BY <4>1
      <4>4. QED
        BY <1>5, <4>1, <4>2, <4>3 DEF Done
    <3>2. ASSUME NEW out \in KeyStages \cup {""}, AgentReports(m, out),
                 ~AgentFails(m)
          PROVE  /\ secret'[m].plan = s.plan /\ secret'[m].limit = s.limit
                 /\ working'[m] = Resting /\ secret'[m].failed = NoPlan
                 /\ Done(m)' \subseteq Done(m) \cup {w.plan}
                 /\ w.plan = p /\ w.fresh => p.gen \in restored'
      <4>1. ASSUME w.plan = p, w.fresh PROVE p.gen \in restored'
        <5>1. NodeRestores(m)
          BY <1>2, <1>5, <3>2, <4>1 DEF NodeRuns, NodeRunsDesired,
             NodeSnapshots, NodeStops, NodeRotatesCerts, NodeEncrypts,
             NodeRefuses, NodeRestarts, Runs
        <5>2. QED
          BY <1>5, <4>1, <5>1 DEF NodeRestores
      <4>2. QED
        BY <1>1, <1>5, <3>2, <4>1, Reported, ReportedSeen
    <3>3. QED
      BY <1>1, <3>1, <3>2, NodeEffect DEF AgentFails
  <2>2. \A r \in Known' : r.kind = "restore" => r \in Known
    <3>1. Seen(m)' \subseteq Seen(m) \cup {NoPlan} /\ w.plan \in Seen(m)
      BY <1>1, <1>5, ReportedSeen DEF Seen
    <3>2. QED
      BY <1>1, <1>3, <1>5, <2>1, <3>1 DEF Known
  <2>3. Growing' /\ RestoredInPhase'
    BY <1>1, <2>2 DEF Restoring, Growing, RestoredInPhase
  <2>4. ASSUME status.restFor \notin restored'
        PROVE  /\ status.restPhase \in {"", "Started", "Shutdown"} =>
                    p \notin Known'
               /\ p \notin Done(InitNode)'
               /\ secret'[InitNode].plan = p =>
                    secret'[InitNode].limit # "forever"
               /\ working'[InitNode].plan # p
               /\ <<InitNode, p>> \in ran' => secret'[InitNode].failed = p
               /\ secret'[InitNode].failed = p =>
                    /\ secret'[InitNode].plan = p
                    /\ working'[InitNode] = Resting
    <3>1. /\ status.restPhase \in {"", "Started", "Shutdown"} => p \notin Known
          /\ p \notin Done(InitNode)
          /\ s.plan = p => s.limit # "forever"
          /\ w.plan = p => w.fresh /\ s.plan = p
          /\ <<InitNode, p>> \in ran => w.plan = p \/ s.failed = p
          /\ s.failed = p => s.plan = p /\ w = Resting
      BY <1>1, <2>4 DEF Restoring, Tried
    <3>2. w # Resting
      BY <1>3, <1>5 DEF NodeRuns, AgentFails, NodeRunsDesired, NodeSnapshots,
         NodeStops, NodeRestores, NodeRotatesCerts, NodeEncrypts, NodeRefuses,
         NodeRestarts, Runs
    <3>3. NoPlan # p
      BY <1>2, <1>3
    <3> HIDE DEF p, s, w
    <3>4. CASE w.plan = p
      <4>1. secret'[m].failed = p /\ Done(m)' = Done(m)
        BY <1>2, <2>1, <2>4, <3>1, <3>4
      <4>2. QED
        BY <1>2, <1>3, <1>5, <2>1, <2>2, <3>1, <3>3, <3>4, <4>1
    <3>5. CASE w.plan # p
      BY <1>1, <1>2, <1>3, <1>5, <2>1, <2>2, <3>1, <3>2, <3>3, <3>5
    <3>6. QED
      BY <3>4, <3>5
  <2>5. Tried'
    BY <1>1, <1>2, <2>4 DEF Tried
  <2>6. QED
    BY <2>3, <2>5
<1>6. QED
  BY <1>4, <1>5

LEMMA OthersRestoring ==
  ASSUME Restoring,
         \/ Users \/ Read \/ UNCHANGED vars \/ \E m \in Machines : LoseMachine(m),
         asked'["restore"] # asked["restore"] =>
           asked'["restore"] > asked["restore"]
  PROVE  Growing' /\ Tried' /\ RestoredInPhase'
<1>1. UNCHANGED <<status, secret, working, ran, restored>>
  BY DEF Users, Ask, DeleteCluster, Read, LoseMachine, vars, agentVars, nodeVars
<1>2. Known' = Known /\ Done(InitNode)' = Done(InitNode)
      /\ ThisRestore' = ThisRestore
  BY <1>1 DEF Known, Seen, Done, ThisRestore
<1>3. Tried' /\ RestoredInPhase'
  BY <1>1, <1>2 DEF Restoring, Tried, RestoredInPhase
<1>4. /\ status.restFor <= asked'["restore"]
      /\ pc' = "act" => status.restFor <= cp'.asked["restore"]
  <2>1. /\ status.restFor <= asked["restore"] /\ status.restFor \in Nat
        /\ pc = "act" => status.restFor <= cp.asked["restore"]
        /\ asked["restore"] \in Nat /\ asked'["restore"] \in Nat
    <3>1. Typed /\ Typed'
      BY NextBasics DEF Restoring, Safely, Basics, Next
    <3>2. QED
      BY <3>1 DEF Restoring, Growing, Typed, Requests, Operations, StatusType
  <2>2. status.restFor <= asked'["restore"]
    BY <2>1
  <2>3. CASE Read
    BY <2>1, <2>3 DEF Read
  <2>4. CASE ~Read
    BY <2>1, <2>4 DEF Users, Ask, DeleteCluster, LoseMachine, vars, readVars
  <2>5. QED
    BY <2>2, <2>3, <2>4
<1>5. Growing'
  BY <1>1, <1>2, <1>4 DEF Restoring, Growing
<1>6. QED
  BY <1>3, <1>5

LEMMA InitRestoring == Init => Restoring
<1>1. SUFFICES ASSUME Init PROVE Restoring
  OBVIOUS
<1>2. /\ Safely /\ status.restPhase = "" /\ status.restFor = 0
      /\ asked["restore"] = 0 /\ pc = "idle" /\ ran = {}
      /\ InitNode \in Machines
  BY <1>1, InitSafely, RoundAssumption DEF Init, Provisioned, Operations
<1>3. \A p \in Known : p.kind # "restore"
  <2>1. \A p, q : /\ Secret(p, "forever", p, p, q, "").plan = p
                 /\ Secret(p, "forever", p, p, q, "").applied = p
                 /\ Secret(p, "forever", p, p, q, "").sum = p
                 /\ Secret(p, "forever", p, p, q, "").failed = q
    BY DEF Secret
  <2>2. DesiredPlan(Provisioned).kind = "desired"
    BY DEF DesiredPlan, Plan
  <2>3. NoPlan.kind = "none" /\ Resting.plan = NoPlan
    <3>1. Resting.plan = NoPlan
      BY DEF Resting
    <3>2. NoPlan.kind = "none"
      BY DEF NoPlan, Plan
    <3>3. QED
      BY <3>1, <3>2
  <2>4. /\ secret[InitNode] = Secret(DesiredPlan(Provisioned), "forever",
                                DesiredPlan(Provisioned),
                                DesiredPlan(Provisioned), NoPlan, "")
        /\ working[InitNode] = Resting
    BY <1>1, <1>2 DEF Init
  <2>5. Known \subseteq {DesiredPlan(Provisioned), NoPlan}
    <3> DEFINE d == DesiredPlan(Provisioned)
               c == Secret(d, "forever", d, d, NoPlan, "")
    <3>1. secret[InitNode] = c
      BY <2>4
    <3> HIDE DEF d
    <3>2. c.plan = d /\ c.applied = d /\ c.sum = d /\ c.failed = NoPlan
      BY <2>1
    <3> HIDE DEF c
    <3>3. /\ secret[InitNode].plan = d
          /\ secret[InitNode].applied = d
          /\ secret[InitNode].sum = d
          /\ secret[InitNode].failed = NoPlan
      BY <3>1, <3>2
    <3>4. QED
      BY <1>2, <2>3, <2>4, <3>3 DEF Known, Seen, d
  <2>6. QED
    BY <2>2, <2>3, <2>5
<1>4. ThisRestore \in PlanType /\ ThisRestore.kind = "restore"
  BY <1>2, RestoreIs DEF ThisRestore
<1>5. Tried
  BY <1>3, <1>4, UnknownTried
<1>6. Growing
  <2>1. 0 <= 0
    OBVIOUS
  <2>2. QED
    BY <1>2, <1>3, <2>1 DEF Growing
<1>7. RestoredInPhase
  BY <1>2 DEF RestoredInPhase, AfterRestore
<1>8. QED
  BY <1>2, <1>5, <1>6, <1>7 DEF Restoring

LEMMA NextRestoring ==
  /\ Restoring /\ [Next]_vars
  /\ asked'["restore"] # asked["restore"] =>
       asked'["restore"] > asked["restore"]
  => Restoring'
<1>1. SUFFICES ASSUME Restoring, [Next]_vars,
                      asked'["restore"] # asked["restore"] =>
                        asked'["restore"] > asked["restore"]
               PROVE  Growing' /\ Tried' /\ RestoredInPhase'
  BY NextSafely DEF Restoring
<1>2. QED
  BY <1>1, ActRestoring, NodeRestoring, StartRestoring, OthersRestoring DEF Next

LEMMA AlwaysRestoring == Spec /\ RestoresGrow => []Restoring
<1> DEFINE Grows == asked'["restore"] # asked["restore"] =>
                      asked'["restore"] > asked["restore"]
<1>1. Init => Restoring
  BY InitRestoring
<1>2. Restoring /\ [Next]_vars /\ [Grows]_vars => Restoring'
  <2>1. UNCHANGED vars => Grows
    BY DEF vars, requestVars
  <2>2. QED
    BY <2>1, NextRestoring
<1>3. QED
  BY <1>1, <1>2, PTL DEF Spec, RestoresGrow

\* What a round makes of the answer to a restore.
LEMMA RestoreAnsweredBy ==
  ASSUME Restoring, Act
  PROVE  \/ UNCHANGED <<status.restFor, status.restPhase>>
         \/ status'.restPhase # "Finished"
         \/ /\ status'.restPhase = "Finished" /\ asked["restore"] # 0
            /\ status'.restFor = asked["restore"] /\ asked["restore"] \in restored
<1>1. CASE Restarts
  <2>1. SUFFICES ASSUME status'.restPhase = "Finished"
                 PROVE  /\ asked["restore"] # 0
                        /\ status'.restFor = asked["restore"]
                        /\ asked["restore"] \in restored
    OBVIOUS
  <2>2. /\ status.restPhase \in AfterRestore /\ edits = cp.edits
        /\ status.restFor = cp.asked["restore"] /\ status.restFor # 0
        /\ status'.restFor = status.restFor
    BY <1>1, <2>1 DEF Restarts, AfterRestore
  <2>3. cp.asked = asked
    BY <2>2 DEF Act, Restoring, Safely, Basics, RoundKnows
  <2>4. QED
    BY <2>2, <2>3 DEF Restoring, RestoredInPhase
<1>2. CASE ~Restarts
  BY <1>2, ActEffect DEF Restoring, Safely, Basics, LeavesAlone, TakesSnapshots,
     Restores, RotatesCerts, RotatesKeys, RollsOut, KeepsRestore, KeepsRequest,
     RestoreAsks, RestoreBegins, RestoreShutsDown, RestoreRuns, CleansPods,
     CleansNodes
<1>3. QED
  BY <1>1, <1>2

LEMMA RestoreStep == Restoring /\ [Next]_vars => [Restore!Next]_(Restore!vars)
<1>1. SUFFICES ASSUME Restoring, [Next]_vars, ~UNCHANGED Restore!vars
               PROVE  Restore!Next
  OBVIOUS
<1> USE DEF Restore!Next, Restore!vars
<1>2. asked \in [Operations -> Nat] /\ "restore" \in Operations
  BY <1>1 DEF Restoring, Safely, Basics, Typed, Requests, Operations
<1>3. CASE Users
  <2>1. UNCHANGED <<status, restored>>
    BY <1>3 DEF Users, Ask, DeleteCluster, nodeVars
  <2>2. ~UNCHANGED asked
    BY <1>1, <2>1
  <2>3. PICK o \in Operations : \E g \in Gens[o] \cup {0} : Ask(o, g)
    BY <1>3, <2>2 DEF Users, DeleteCluster
  <2>4. PICK g \in Gens[o] \cup {0} : Ask(o, g)
    BY <2>3
  <2>5. asked' = [asked EXCEPT ![o] = g]
    BY <2>4 DEF Ask
  <2>6. o = "restore" /\ asked'["restore"] = g
    BY <1>1, <1>2, <2>1, <2>5
  <2>7. QED
    BY <2>1, <2>6 DEF Restore!Ask
<1>4. CASE Act
  <2>1. UNCHANGED <<asked, restored>>
    BY <1>1, <1>4, ActMoves DEF Restoring, Safely
  <2>2. CASE status'.restPhase # "Finished"
    BY <2>1, <2>2 DEF Restore!Forget
  <2>3. CASE /\ status'.restPhase = "Finished" /\ asked["restore"] # 0
             /\ status'.restFor = asked["restore"]
             /\ asked["restore"] \in restored
    <3>1. {InitNode} \X {asked["restore"]} \subseteq {InitNode} \X restored
      BY <2>3
    <3>2. QED
      BY <2>1, <2>3, <3>1 DEF Restore!Answer
  <2>4. QED
    BY <1>1, <1>4, <2>1, <2>2, <2>3, RestoreAnsweredBy
<1>5. ASSUME NEW m \in Machines, NodeRuns(m) \/ AgentFails(m)
      PROVE  Restore!Next
  <2>1. UNCHANGED <<asked, status>>
    BY <1>1, <1>5, ReportedSeen DEF Restoring, Safely, Basics, requestVars
  <2>2. NodeRestores(m) /\ working[m].fresh
    BY <1>1, <1>5, <2>1 DEF NodeRuns, NodeRunsDesired, NodeSnapshots, NodeStops,
       NodeRestores, NodeRotatesCerts, NodeEncrypts, NodeRefuses, NodeRestarts,
       AgentFails
  <2>3. m = InitNode /\ working[m].plan.gen \in Gens["restore"]
    BY <1>1, <2>2 DEF Restoring, Safely, Basics, Typed, PlansOf, NodeRestores,
       Runs
  <2>4. restored' = restored \cup {working[m].plan.gen}
    BY <2>2 DEF NodeRestores
  <2>5. {InitNode} \X restored' =
          ({InitNode} \X restored) \cup {<<InitNode, working[m].plan.gen>>}
    BY <2>4
  <2>6. QED
    BY <2>1, <2>3, <2>5 DEF Restore!Work
<1>6. ~Read /\ ~UNCHANGED vars
      /\ \A m \in Machines : ~AgentStart(m) /\ ~LoseMachine(m)
  BY <1>1 DEF Read, AgentStart, LoseMachine, vars, requestVars, nodeVars
<1>7. QED
  BY <1>1, <1>3, <1>4, <1>5, <1>6 DEF Next

\* The restore of snapshots implements Request as long as the generations asked
\* for grow: the status tells that the restore of a generation is finished only
\* if it is the one asked for, and its snapshot has been restored on the init
\* node, whether restores before it have failed or not.
THEOREM RestoreAnswered == Spec /\ RestoresGrow => RestoreKept
<1>1. Init => Restore!Init
  <2>1. SUFFICES ASSUME Init PROVE Restore!Init
    OBVIOUS
  <2>2. "restore" \in Operations /\ asked = [o \in Operations |-> 0]
        /\ restored = {}
    BY <2>1 DEF Operations, Init
  <2>3. status.restPhase = ""
    BY <2>1 DEF Init, Provisioned
  <2>4. QED
    BY <2>2, <2>3 DEF Restore!Init
<1>2. Restoring /\ [Next]_vars => [Restore!Next]_(Restore!vars)
  BY RestoreStep
<1>3. QED
  BY <1>1, <1>2, AlwaysRestoring, PTL DEF Spec, RestoreKept, Restore!Spec

-----------------------------------------------------------------------------
(* The first restore finds everything stopped, again if generations grow.   *)

\* A restore is under way only for somebody who has asked for it, and a round
\* does not read otherwise.
StillAsked ==
  /\ status.restPhase # "" => status.restFor # 0
  /\ ~withdrawn /\ status.restFor # 0 =>
       asked["restore"] # 0 /\ (pc = "act" => cp.asked["restore"] # 0)

\* Before the first restore nothing follows a stop plan but the restore, and
\* who has stopped stays down.
FirstStops ==
  restored = {} /\ ~withdrawn =>
    \A m \in Machines :
      /\ (\E p \in Seen(m) : p.kind = "stop") =>
           /\ secret[m].plan.kind \in DownKinds
           /\ ~status.initialized
           /\ status.restPhase \in {"Started", "Shutdown", "Restore"}
      /\ (\E p \in Done(m) : p.kind = "stop") =>
           m \notin up /\ working[m].plan.kind \in DownKinds \cup {"none"}

Stopping == Restoring /\ StillAsked /\ FirstStops

LEMMA ActStillAsked == ASSUME Stopping, Act PROVE StillAsked'
<1>1. /\ UNCHANGED <<asked, withdrawn>> /\ pc' = "idle" /\ pc = "act"
      /\ cp.edits = edits => cp.asked = asked
  BY ActEffect DEF Stopping, Restoring, Safely, Basics, RoundOver, RoundEnds,
     PlannerOnly, requestVars, RoundKnows
<1>2. \/ UNCHANGED <<status.restFor, status.restPhase>>
      \/ /\ UNCHANGED status.restFor /\ status.restPhase # ""
      \/ status'.restFor = 0 /\ status'.restPhase = ""
      \/ /\ edits = cp.edits /\ cp.asked["restore"] # 0
         /\ status'.restFor = cp.asked["restore"]
  BY ActEffect DEF Stopping, Restoring, Safely, Basics, LeavesAlone,
     TakesSnapshots, Restores, RotatesCerts, RotatesKeys, RollsOut,
     KeepsRestore, KeepsRequest, RestoreAsks, RestoreBegins, RestoreShutsDown,
     RestoreRuns, CleansPods, CleansNodes, Restarts
<1>3. QED
  BY <1>1, <1>2 DEF Stopping, StillAsked

LEMMA ActFirstStops == ASSUME Stopping, Act PROVE FirstStops'
<1>1. /\ UNCHANGED <<working, up, restored, withdrawn>> /\ Typed /\ pc = "act"
  BY ActMoves, ActEffect DEF Stopping, Restoring, Safely, Basics, RoundOver,
     PlannerOnly, requestVars
<1> DEFINE Stop(ps) == \E p \in ps : p.kind = "stop"
           Down(m) == /\ secret[m].plan.kind \in DownKinds
                      /\ ~status.initialized
                      /\ status.restPhase \in {"Started", "Shutdown", "Restore"}
           Stays(m) == m \notin up
                       /\ working[m].plan.kind \in DownKinds \cup {"none"}
<1>2. SUFFICES ASSUME restored = {}, ~withdrawn, NEW m \in Machines
               PROVE  (Stop(Seen(m)') => Down(m)') /\ (Stop(Done(m)') => Stays(m))
  BY <1>1 DEF FirstStops
<1>3. (Stop(Seen(m)) => Down(m)) /\ (Stop(Done(m)) => Stays(m))
  BY <1>2 DEF Stopping, FirstStops
<1>4. status.restPhase \notin AfterRestore \cup {"Finished"}
      /\ status'.restPhase \notin AfterRestore \cup {"Finished"}
  BY <1>1, <1>2, ActRestoring DEF Stopping, Restoring, RestoredInPhase
<1>5. Stop(Done(m)') => Stays(m)
  <2>1. Done(m)' \subseteq Done(m)
    BY <1>1, ActHandsOut, DeliveredSeen DEF Stopping, Restoring, Safely, Basics
  <2>2. QED
    BY <1>3, <2>1
<1>6. ASSUME UNCHANGED secret PROVE Seen(m)' = Seen(m)
  BY <1>1, <1>6 DEF Seen
<1>7. ASSUME NEW kinds, HandsOut(kinds), "stop" \notin kinds, ~Stop(Seen(m))
      PROVE  ~Stop(Seen(m)')
  BY <1>1, <1>7, DeliveredSeen
<1>8. ASSUME NEW kinds \in SUBSET DownKinds, HandsOut(kinds), Stop(Seen(m)'),
             status'.initialized = FALSE,
             status'.restPhase \in {"Started", "Shutdown", "Restore"}
      PROVE  Down(m)'
  <2>1. \/ secret'[m] = secret[m] /\ Seen(m)' = Seen(m)
        \/ secret'[m].plan.kind \in kinds
    BY <1>1, <1>8, DeliveredSeen
  <2>2. QED
    BY <1>3, <1>8, <2>1
<1>9. Stop(Seen(m)') => Down(m)'
  <2>1. CASE LeavesAlone
    BY <1>3, <1>6, <2>1 DEF LeavesAlone, KeepsRestore, KeepsRequest
  <2>2. CASE TakesSnapshots
    <3>1. CASE Stop(Seen(m))
      BY <1>3, <1>6, <2>2, <3>1 DEF TakesSnapshots, KeepsRestore, KeepsRequest
    <3>2. CASE ~Stop(Seen(m))
      BY <1>7, <2>2, <3>2 DEF TakesSnapshots
    <3>3. QED
      BY <3>1, <3>2
  <2>3. CASE NoRestore /\ (RotatesCerts \/ RotatesKeys \/ RollsOut)
    <3>1. ~Stop(Seen(m))
      BY <1>3, <2>3 DEF NoRestore
    <3>2. UNCHANGED secret \/ \E kinds : HandsOut(kinds) /\ "stop" \notin kinds
      BY <2>3 DEF RotatesCerts, RotatesKeys, RollsOut
    <3>3. QED
      BY <1>6, <1>7, <3>1, <3>2
  <2>4. CASE RestoreAsks \/ RestoreBegins
    <3>1. UNCHANGED secret
      BY <2>4 DEF RestoreAsks, RestoreBegins
    <3>2. CASE ~Stop(Seen(m))
      BY <1>6, <3>1, <3>2
    <3>3. CASE Down(m)
      <4>1. cp.asked["restore"] # 0
        BY <1>1, <1>2, <3>3 DEF Stopping, StillAsked
      <4>2. ~status'.initialized
            /\ status'.restPhase \in {"Started", "Shutdown", "Restore"}
        BY <2>4, <3>3, <4>1 DEF RestoreAsks, RestoreBegins, KeepsRestore,
           KeepsRequest
      <4>3. QED
        BY <3>1, <3>3, <4>2
    <3>4. QED
      BY <1>3, <3>2, <3>3
  <2>5. CASE RestoreShutsDown
    <3>1. /\ status'.initialized = status.initialized
          /\ status'.restPhase \in {"Shutdown", "Restore"}
          /\ status.restPhase = "Shutdown"
          /\ {"stop"} \in SUBSET DownKinds /\ HandsOut({"stop"})
      BY <2>5 DEF RestoreShutsDown, KeepsRestore, KeepsRequest, DownKinds
    <3>2. status.initialized = FALSE
      BY <3>1 DEF Stopping, Restoring, Safely, Uninitialized, Basics, Typed,
         StatusType
    <3>3. QED
      BY <1>8, <3>1, <3>2
  <2>6. CASE RestoreRuns
    <3>1. /\ status'.initialized = status.initialized
          /\ status'.restPhase = "Restore" /\ status.restPhase = "Restore"
          /\ {"restore"} \in SUBSET DownKinds /\ HandsOut({"restore"})
      BY <1>4, <2>6 DEF RestoreRuns, KeepsRestore, KeepsRequest, DownKinds,
         AfterRestore
    <3>2. status.initialized = FALSE
      BY <3>1 DEF Stopping, Restoring, Safely, Uninitialized, Basics, Typed,
         StatusType
    <3>3. QED
      BY <1>8, <3>1, <3>2
  <2>7. ~CleansPods /\ ~CleansNodes /\ ~Restarts
    BY <1>4 DEF CleansPods, CleansNodes, Restarts, AfterRestore
  <2>8. QED
    BY <2>1, <2>2, <2>3, <2>4, <2>5, <2>6, <2>7, ActEffect DEF Stopping,
       Restoring, Safely, Basics, Restores
<1>10. QED
  BY <1>5, <1>9

\* Whoever is down and has nothing but stop and restore plans stays down.
LEMMA StaysDown ==
  ASSUME Stopping, NEW m \in Machines, NodeRuns(m) \/ AgentFails(m)
  PROVE  /\ m \notin up /\ working[m].plan.kind \in DownKinds \cup {"none"}
              => m \notin up'
         /\ working[m].plan.kind = "stop" =>
              m \notin up' \/ Done(m)' = Done(m)
<1>1. CASE AgentFails(m)
  <2>1. up' = up /\ PlanFails(m)
    BY <1>1 DEF AgentFails
  <2>2. Done(m)' = Done(m)
    BY <2>1, ReportedFailed DEF Done, Stopping, Restoring, Safely, Basics
  <2>3. QED
    BY <2>1, <2>2
<1>2. CASE NodeStops(m) \/ NodeRestores(m)
  BY <1>2 DEF NodeStops, NodeRestores, Runs
<1>3. CASE NodeRuns(m) /\ ~NodeStops(m) /\ ~NodeRestores(m)
  BY <1>3 DEF NodeRuns, NodeRunsDesired, NodeSnapshots, NodeRotatesCerts,
     NodeEncrypts, NodeRefuses, NodeRestarts, Runs, DownKinds
<1>4. QED
  BY <1>1, <1>2, <1>3

LEMMA NodeStopping ==
  ASSUME Stopping, NEW m \in Machines, NodeRuns(m) \/ AgentFails(m)
  PROVE  StillAsked' /\ FirstStops'
<1>1. /\ UNCHANGED <<status, asked, withdrawn, pc, cp>>
      /\ restored' = {} => restored = {}
      /\ \A n \in Machines :
           /\ secret'[n].plan = secret[n].plan
           /\ n # m => /\ working'[n] = working[n] /\ Seen(n)' = Seen(n)
                       /\ Done(n)' = Done(n) /\ (n \in up' <=> n \in up)
      /\ working'[m] = Resting
      /\ Seen(m)' \subseteq Seen(m) \cup {NoPlan}
      /\ Done(m)' \subseteq Done(m) \cup {working[m].plan}
  BY ReportedSeen, NodeEffect DEF Stopping, Restoring, Safely, Basics,
     requestVars, readVars, NodeTyped
<1>2. NoPlan.kind = "none"
  BY DEF NoPlan, Plan
<1>3. working'[m].plan.kind = "none"
  <2>1. Resting.plan = NoPlan
    BY DEF Resting
  <2>2. QED
    BY <1>1, <1>2, <2>1
<1>4. StillAsked'
  BY <1>1 DEF Stopping, StillAsked
<1>5. ASSUME restored = {}, ~withdrawn, NEW n \in Machines
      PROVE  /\ (\E p \in Seen(n)' : p.kind = "stop") =>
                  /\ secret'[n].plan.kind \in DownKinds
                  /\ ~status'.initialized
                  /\ status'.restPhase \in {"Started", "Shutdown", "Restore"}
             /\ (\E p \in Done(n)' : p.kind = "stop") =>
                  /\ n \notin up'
                  /\ working'[n].plan.kind \in DownKinds \cup {"none"}
  <2>1. /\ (\E p \in Seen(n) : p.kind = "stop") =>
             /\ secret[n].plan.kind \in DownKinds
             /\ ~status.initialized
             /\ status.restPhase \in {"Started", "Shutdown", "Restore"}
        /\ (\E p \in Done(n) : p.kind = "stop") =>
             /\ n \notin up
             /\ working[n].plan.kind \in DownKinds \cup {"none"}
    BY <1>5 DEF Stopping, FirstStops
  <2>2. CASE n # m
    BY <1>1, <2>1, <2>2
  <2>3. CASE n = m
    <3>1. (\E p \in Seen(m)' : p.kind = "stop") => \E p \in Seen(m) : p.kind = "stop"
      BY <1>1, <1>2
    <3>2. ASSUME NEW p \in Done(m)', p.kind = "stop" PROVE m \notin up'
      <4>1. CASE p \in Done(m)
        BY <2>1, <2>3, <3>2, <4>1, StaysDown
      <4>2. CASE p \notin Done(m)
        BY <1>1, <3>2, <4>2, StaysDown
      <4>3. QED
        BY <4>1, <4>2
    <3>3. QED
      BY <1>1, <1>3, <2>1, <2>3, <3>1, <3>2
  <2>4. QED
    BY <2>2, <2>3
<1>6. FirstStops'
  BY <1>1, <1>5 DEF FirstStops
<1>7. QED
  BY <1>4, <1>6

LEMMA StartStopping ==
  ASSUME Stopping, NEW m \in Machines, AgentStart(m)
  PROVE  StillAsked' /\ FirstStops'
<1>1. /\ UNCHANGED <<asked, withdrawn, pc, cp, status, secret, up, restored>>
      /\ \A n \in Machines : Seen(n)' \subseteq Seen(n) /\ Done(n)' = Done(n)
      /\ working'[m].plan = secret[m].plan
      /\ \A n \in Machines \ {m} : working'[n] = working[n]
  BY StartedSeen DEF Stopping, Restoring, Safely, Basics, AgentStart,
     requestVars, readVars
<1>2. StillAsked'
  BY <1>1 DEF Stopping, StillAsked
<1>3. \A n \in Machines : Done(n) \subseteq Seen(n)
  BY DEF Done, Seen
<1>4. FirstStops'
  BY <1>1, <1>3 DEF Stopping, FirstStops
<1>5. QED
  BY <1>2, <1>4

LEMMA OthersStopping ==
  ASSUME Stopping,
         \/ Users \/ Read \/ UNCHANGED vars \/ \E m \in Machines : LoseMachine(m)
  PROVE  StillAsked' /\ FirstStops'
<1>1. /\ UNCHANGED <<status, secret, working, up, restored>>
      /\ asked \in [Operations -> Nat] /\ "restore" \in Operations
  BY DEF Users, Ask, DeleteCluster, Read, LoseMachine, vars, agentVars, nodeVars,
     Stopping, Restoring, Safely, Basics, Typed, Requests, Operations
<1>2. ASSUME ~withdrawn' PROVE ~withdrawn
  BY <1>2 DEF Users, Ask, DeleteCluster, Read, LoseMachine, vars, requestVars
<1>3. FirstStops'
  BY <1>1, <1>2 DEF Stopping, FirstStops, Seen, Done
<1>4. StillAsked'
  <2>1. SUFFICES ASSUME ~withdrawn', status.restFor # 0
                 PROVE  /\ asked'["restore"] # 0
                        /\ pc' = "act" => cp'.asked["restore"] # 0
    BY <1>1 DEF Stopping, StillAsked
  <2>2. asked["restore"] # 0 /\ (pc = "act" => cp.asked["restore"] # 0)
    BY <1>2, <2>1 DEF Stopping, StillAsked
  <2>3. CASE Read
    BY <2>2, <2>3 DEF Read, requestVars
  <2>4. ASSUME NEW o \in Operations, NEW g \in Gens[o] \cup {0}, Ask(o, g)
        PROVE  /\ asked'["restore"] # 0
               /\ pc' = "act" => cp'.asked["restore"] # 0
    <3>1. /\ asked' = [asked EXCEPT ![o] = g] /\ g # 0
          /\ UNCHANGED <<pc, cp>>
      BY <2>1, <2>4 DEF Ask, readVars
    <3>2. QED
      BY <1>1, <2>2, <3>1
  <2>5. CASE DeleteCluster \/ UNCHANGED vars \/ \E m \in Machines : LoseMachine(m)
    BY <2>2, <2>5 DEF DeleteCluster, LoseMachine, vars, requestVars, readVars
  <2>6. QED
    BY <2>3, <2>4, <2>5 DEF Users
<1>5. QED
  BY <1>3, <1>4

LEMMA InitStopping == Init => Stopping
<1>1. SUFFICES ASSUME Init PROVE Stopping
  OBVIOUS
<1>2. Restoring /\ status.restPhase = "" /\ status.restFor = 0
  BY <1>1, InitRestoring DEF Init, Provisioned
<1>3. ASSUME NEW m \in Machines PROVE \A p \in Seen(m) : p.kind # "stop"
  <2>1. secret[m] = Secret(Plan("desired", "", 0), "forever",
                           Plan("desired", "", 0), Plan("desired", "", 0),
                           NoPlan, "")
    BY <1>1 DEF Init, DesiredPlan, Provisioned
  <2>2. working[m].plan = NoPlan
    BY <1>1 DEF Init, Resting
  <2>3. /\ secret[m].plan = Plan("desired", "", 0)
        /\ secret[m].applied = Plan("desired", "", 0)
        /\ secret[m].sum = Plan("desired", "", 0)
    <3>1. \A p, q : LET s == Secret(p, "forever", p, p, q, "")
                   IN s.plan = p /\ s.applied = p /\ s.sum = p
      BY DEF Secret
    <3>2. QED
      BY <2>1, <3>1
  <2>4. Plan("desired", "", 0).kind = "desired"
    BY DEF Plan
  <2>5. NoPlan.kind = "none"
    BY DEF Plan, NoPlan
  <2>6. QED
    BY <2>2, <2>3, <2>4, <2>5 DEF Seen
<1>4. \A m \in Machines : Done(m) \subseteq Seen(m)
  BY DEF Done, Seen
<1>5. StillAsked /\ FirstStops
  BY <1>2, <1>3, <1>4 DEF StillAsked, FirstStops
<1>6. QED
  BY <1>2, <1>5 DEF Stopping

LEMMA NextStopping ==
  ASSUME Stopping, Next,
         asked'["restore"] # asked["restore"] =>
           asked'["restore"] > asked["restore"]
  PROVE  Stopping'
<1>1. Restoring'
  BY NextRestoring DEF Stopping
<1>2. StillAsked' /\ FirstStops'
  BY ActStillAsked, ActFirstStops, NodeStopping, StartStopping, OthersStopping
     DEF Next
<1>3. QED
  BY <1>1, <1>2 DEF Stopping

LEMMA AlwaysStopping == Spec /\ RestoresGrow => []Stopping
<1> DEFINE Grows == asked'["restore"] # asked["restore"] =>
                      asked'["restore"] > asked["restore"]
<1>1. Init => Stopping
  BY InitStopping
<1>2. Stopping /\ [Next]_vars /\ [Grows]_vars /\ Restoring' => Stopping'
  <2>1. CASE Next /\ Grows
    BY <2>1, NextStopping
  <2>2. CASE UNCHANGED vars
    BY <2>2, OthersStopping DEF Stopping
  <2>3. QED
    BY <2>1, <2>2
<1>3. QED
  BY <1>1, <1>2, AlwaysRestoring, PTL DEF Spec, RestoresGrow

\* As long as the generations asked for grow, the first restore goes on only when
\* all services are down: only then is every stop plan that counts as carried out
\* one that was carried out for it, or for one before it that has failed.
THEOREM FirstRestoreStopped == Spec /\ RestoresGrow => FirstRestoreOnStopped
<1>1. Stopping /\ [Next]_vars =>
        [status'.restPhase = "Restore" /\ status.restPhase # "Restore"
           /\ restored = {} /\ ~withdrawn => up = {}]_vars
  <2>1. SUFFICES ASSUME Stopping, Next, status'.restPhase = "Restore",
                        status.restPhase # "Restore", restored = {}, ~withdrawn
                 PROVE  up = {}
    OBVIOUS
  <2>2. Act
    BY <2>1, ReportedSeen DEF Stopping, Restoring, Safely, Basics, Next, Users,
       Ask, DeleteCluster, Read, AgentStart, LoseMachine
  <2>3. \A m \in Machines : Carried(m, StopPlan)
    BY <2>1, <2>2, ActEffect DEF Stopping, Restoring, Safely, Basics,
       LeavesAlone, TakesSnapshots, Restores, RotatesCerts, RotatesKeys,
       RollsOut, KeepsRestore, KeepsRequest, RestoreAsks, RestoreBegins,
       RestoreShutsDown, RestoreRuns, CleansPods, CleansNodes, Restarts
  <2>4. StopPlan.kind = "stop" /\ pc = "act"
    BY <2>2 DEF StopPlan, Plan, Act
  <2>5. ASSUME NEW m \in Machines PROVE m \notin up
    <3>1. secret[m].applied = StopPlan
      BY <2>1, <2>3, <2>4, CarriedTrue DEF Stopping, Restoring, Safely
    <3>2. QED
      BY <2>1, <2>4, <3>1 DEF Stopping, FirstStops, Done
  <2>6. up \subseteq Machines
    BY <2>1 DEF Stopping, Restoring, Safely, Basics, Typed
  <2>7. QED
    BY <2>5, <2>6
<1>2. QED
  BY <1>1, AlwaysStopping, PTL DEF Spec, FirstRestoreOnStopped
=============================================================================
