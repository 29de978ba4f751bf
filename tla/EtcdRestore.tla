----------------------------- MODULE EtcdRestore -----------------------------
(****************************************************************************)
(* restoreEtcdSnapshot: stop every machine, restore the snapshot on the     *)
(* init node, bring the cluster up again, clean up, and bring it up again.  *)
(****************************************************************************)
EXTENDS PlannerRound

RestorePhases ==
  {"", "Started", "Shutdown", "Restore", "PostRestorePodCleanup",
   "InitialRestartCluster", "PostRestoreNodeCleanup", "RestartCluster",
   "Finished"}

\* Neither the generation of the restore nor that of the configuration is in
\* the plan that stops a machine.
StopPlan == Plan("stop", "", 0)
RestorePlan == Plan("restore", "", cp.status.restFor)
CleanupPlan(kind) == Plan(kind, "", cp.status.config)

RestoreAsked == cp.asked["restore"] # 0

\* restoreEtcdSnapshot returns without an error.
RestoreIdle ==
  \/ ~RestoreAsked /\ cp.status.restFor = 0 /\ cp.status.restPhase = ""
  \/ RestoreAsked /\ cp.status.restFor = cp.asked["restore"]
                  /\ cp.status.restPhase = "Finished"

RestoreState(phase) == [cp.status EXCEPT !.restPhase = phase]

ResetRestore ==
  /\ Turn /\ ~RestoreAsked /\ ~RestoreIdle
  /\ Waiting([RestoreState("") EXCEPT !.restFor = 0])
  /\ PlannerOnly /\ UNCHANGED <<paused, secret>>

StartRestore ==
  /\ Turn /\ RestoreAsked /\ cp.status.restFor # cp.asked["restore"]
  /\ Waiting([RestoreState("Started") EXCEPT !.restFor = cp.asked["restore"]])
  /\ PlannerOnly /\ UNCHANGED <<paused, secret>>

RestoreIn(phase) ==
  /\ Turn /\ cp.status.restPhase = phase
  /\ RestoreAsked /\ cp.status.restFor = cp.asked["restore"]

Uninitialize ==
  /\ RestoreIn("Started")
  /\ Waiting([RestoreState("Shutdown") EXCEPT !.initialized = FALSE])
  /\ PlannerOnly /\ UNCHANGED <<paused, secret>>

NotStopping == {m \in Machines : NeedsPlan(m, StopPlan)}

StopServices ==
  /\ RestoreIn("Shutdown") /\ NotStopping # {}
  /\ Assign(NotStopping, [m \in Machines |-> StopPlan], "forever")
  /\ Waiting(cp.status)
  /\ PlannerOnly /\ UNCHANGED paused

\* The update of a secret is refused: those before it have been stopped.
StopRefused ==
  /\ RestoreIn("Shutdown")
  /\ \E m \in NotStopping :
       Assign({n \in NotStopping : Order[n] < Order[m]},
              [n \in Machines |-> StopPlan], "forever")
  /\ Fault /\ RoundEnds
  /\ PlannerOnly /\ UNCHANGED <<status, paused>>

AwaitStopped ==
  /\ RestoreIn("Shutdown") /\ NotStopping = {}
  /\ \E m \in Machines : ~InSync(m)
  /\ Waiting(cp.status)
  /\ PlannerOnly /\ UNCHANGED <<paused, secret>>

\* (mutant) It is enough that everybody has been told to stop.
EndShutdownMutant ==
  /\ RestoreIn("Shutdown") /\ NotStopping = {}
  /\ Waiting([RestoreState("Restore") EXCEPT !.bootstrapped = FALSE])
  /\ PlannerOnly /\ UNCHANGED <<paused, secret>>

EndShutdown ==
  /\ RestoreIn("Shutdown") /\ NotStopping = {}
  /\ \A m \in Machines : InSync(m)
  /\ Waiting([RestoreState("Restore") EXCEPT !.bootstrapped = FALSE])
  /\ PlannerOnly /\ UNCHANGED <<paused, secret>>

\* One plan for one machine, then the next phase.
RunOn(m, p, next) ==
  /\ Assign({n \in {m} : NeedsPlan(n, p)}, [n \in Machines |-> p], "few")
  /\ IF HasFailed(m, p) THEN Failing
     ELSE Waiting(IF Carried(m, p) THEN next ELSE cp.status)

\* (mutant) The CAPI cluster is not paused.
RunRestoreMutant ==
  /\ RestoreIn("Restore")
  /\ RunOn(InitNode, RestorePlan,
           [RestoreState("PostRestorePodCleanup") EXCEPT !.config = @ + 1])
  /\ PlannerOnly /\ UNCHANGED paused

\* The generation of the configuration makes every machine restart later.
RunRestore ==
  /\ RestoreIn("Restore")
  /\ RunOn(InitNode, RestorePlan,
           [RestoreState("PostRestorePodCleanup") EXCEPT !.config = @ + 1])
  /\ paused' = TRUE
  /\ PlannerOnly

\* The pods are cleaned up on a control plane machine: on the init node if it
\* is one, else on the first other one once the init node runs again.
CleanUpPods ==
  /\ RestoreIn("PostRestorePodCleanup")
  /\ LET plan == CleanupPlan("podcleanup")
         next == RestoreState("InitialRestartCluster")
     IN IF InitNode \in ControlPlane THEN RunOn(InitNode, plan, next)
        ELSE IF Carried(InitNode, DesiredPlan(cp.status))
        THEN RunOn(First(ControlPlane), plan, next)
        ELSE RunOn(InitNode, DesiredPlan(cp.status), cp.status)
  /\ PlannerOnly /\ UNCHANGED paused

CleanUpNodes ==
  /\ RestoreIn("PostRestoreNodeCleanup")
  /\ RunOn(InitNode, CleanupPlan("nodecleanup"),
           RestoreState("RestartCluster"))
  /\ PlannerOnly /\ UNCHANGED paused

Restarting == RestoreIn("InitialRestartCluster") \/ RestoreIn("RestartCluster")

\* "ignoring drain and concurrency": without a drain, and one at a time.
RestartStep ==
  /\ Restarting
  /\ paused' = FALSE
  /\ FullReconcile
  /\ PlannerOnly

EndRestart ==
  /\ Restarting /\ FullyReconciled
  /\ paused' = FALSE
  /\ Waiting(RestoreState(IF RestoreIn("RestartCluster") THEN "Finished"
                          ELSE "PostRestoreNodeCleanup"))
  /\ PlannerOnly /\ UNCHANGED secret

EtcdRestoreStep ==
  \/ ResetRestore \/ StartRestore \/ Uninitialize
  \/ StopServices \/ StopRefused \/ AwaitStopped \/ EndShutdown
  \/ RunRestore \/ CleanUpPods \/ CleanUpNodes \/ RestartStep \/ EndRestart

\* A stopped machine also forgets what it has done for a restore.
NodeStops(m) ==
  /\ Runs(m, {"stop"})
  /\ AgentReports(m, "")
  /\ up' = up \ {m}
  /\ ran' = {r \in ran : r[1] # m \/ r[2].kind # "restore"}
  /\ UNCHANGED <<keyStage, loaded, stamp, restored, rotated, snapped, faults>>

\* The snapshot holds the keys as they were.
NodeRestores(m) ==
  /\ Runs(m, {"restore"})
  /\ AgentReports(m, "")
  /\ IF working[m].fresh
     THEN /\ up' = up \ {m}
          /\ restored' = restored \cup {working[m].plan.gen}
          /\ keyStage' = "start"
     ELSE UNCHANGED <<up, restored, keyStage>>
  /\ UNCHANGED <<loaded, stamp, ran, rotated, snapped, faults>>

=============================================================================
