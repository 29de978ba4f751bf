----------------------------- MODULE EtcdCreate -----------------------------
(****************************************************************************)
(* createEtcdSnapshot: every etcd machine takes a snapshot, all at once;    *)
(* then the management plane gets its desired plans back, one machine after *)
(* the other.                                                               *)
(****************************************************************************)
EXTENDS PlannerRound

SnapshotPhases == {"", "Started", "RestartCluster", "Finished", "Failed"}

\* The plan does not tell for which generation the snapshot is.
SnapshotPlan == Plan("snapshot", "", 0)

Snapshots == cp.status.initialized /\ cp.status.bootstrapped
SnapshotAsked == cp.asked["snapshot"] # 0

\* createEtcdSnapshot returns without an error.
SnapshotIdle ==
  \/ ~SnapshotAsked /\ cp.status.snapFor = 0 /\ cp.status.snapPhase = ""
  \/ SnapshotAsked /\ ~Snapshots
  \/ /\ SnapshotAsked /\ cp.status.snapFor = cp.asked["snapshot"]
     /\ cp.status.snapPhase \in {"Finished", "Failed"}

SnapshotState(gen, phase) ==
  Waiting([cp.status EXCEPT !.snapFor = gen, !.snapPhase = phase])

ResetSnapshot ==
  /\ Turn /\ ~SnapshotAsked /\ ~SnapshotIdle
  /\ SnapshotState(0, "")
  /\ PlannerOnly /\ UNCHANGED <<paused, secret>>

StartSnapshot ==
  /\ Turn /\ SnapshotAsked /\ Snapshots
  /\ cp.status.snapFor # cp.asked["snapshot"] \/ cp.status.snapPhase = ""
  /\ SnapshotState(cp.asked["snapshot"], "Started")
  /\ PlannerOnly /\ UNCHANGED <<paused, secret>>

SnapshotIn(phase) ==
  /\ Turn /\ SnapshotAsked /\ Snapshots
  /\ cp.status.snapFor = cp.asked["snapshot"] /\ cp.status.snapPhase = phase

NoSnapshot == {m \in Etcd : NeedsPlan(m, SnapshotPlan)}
SnapshotFailed == \E m \in Etcd : HasFailed(m, SnapshotPlan)
SnapshotTaken == \A m \in Etcd : Carried(m, SnapshotPlan)

\* Plans for those that have none; the phase fails with the first machine
\* that has failed, whatever the others are doing.
AwaitSnapshots ==
  /\ SnapshotIn("Started") /\ ~SnapshotTaken
  /\ Assign(NoSnapshot, [m \in Machines |-> SnapshotPlan], "few")
  /\ SnapshotState(cp.status.snapFor,
                   IF SnapshotFailed THEN "Failed" ELSE "Started")
  /\ PlannerOnly /\ UNCHANGED paused

\* The update of one secret is refused, which counts as its failure.
SnapshotRefused ==
  /\ SnapshotIn("Started")
  /\ \E m \in NoSnapshot :
       Assign(NoSnapshot \ {m}, [n \in Machines |-> SnapshotPlan], "few")
  /\ Fault /\ RoundEnds
  /\ status' = IF edits = cp.edits
               THEN [cp.status EXCEPT !.ready = FALSE, !.snapPhase = "Failed"]
               ELSE status
  /\ PlannerOnly /\ UNCHANGED paused

\* (mutant) One snapshot is as good as all.
EndSnapshotsMutant ==
  /\ SnapshotIn("Started") /\ \E m \in Etcd : Carried(m, SnapshotPlan)
  /\ SnapshotState(cp.status.snapFor, "RestartCluster")
  /\ PlannerOnly /\ UNCHANGED <<paused, secret>>

EndSnapshots ==
  /\ SnapshotIn("Started") /\ SnapshotTaken
  /\ SnapshotState(cp.status.snapFor, "RestartCluster")
  /\ PlannerOnly /\ UNCHANGED <<paused, secret>>

\* The init node comes first, by reconcile; the others by assignAndCheckPlan,
\* whose limits 1 and -1 mean: tried once, and a failure is never noticed.
RestartInitNode ==
  /\ SnapshotIn("RestartCluster") /\ Behind({InitNode}) # {}
  /\ Reconcile({InitNode}) /\ Waiting(cp.status)
  /\ PlannerOnly /\ UNCHANGED paused

RestartManagement ==
  /\ SnapshotIn("RestartCluster")
  /\ Behind({InitNode}) = {} /\ Behind(Etcd) # {}
  /\ LET m == First(Behind(Etcd))
         p == DesiredPlan(cp.status)
     IN Assign({n \in {m} : NeedsPlan(n, p)}, [n \in Machines |-> p],
               "unnoticed")
  /\ Waiting(cp.status)
  /\ PlannerOnly /\ UNCHANGED paused

FinishSnapshot ==
  /\ SnapshotIn("RestartCluster") /\ Behind(Etcd) = {}
  /\ SnapshotState(cp.status.snapFor, "Finished")
  /\ PlannerOnly /\ UNCHANGED <<paused, secret>>

EtcdCreateStep ==
  \/ ResetSnapshot \/ StartSnapshot \/ AwaitSnapshots \/ SnapshotRefused
  \/ EndSnapshots \/ RestartInitNode \/ RestartManagement \/ FinishSnapshot

\* A stopped etcd has no snapshot to give.
NodeSnapshots(m) ==
  /\ Runs(m, {"snapshot"}) /\ m \in up
  /\ AgentReports(m, "")
  /\ snapped' = snapped \cup {m}
  /\ UNCHANGED <<up, keyStage, loaded, stamp, ran, restored, rotated, faults>>

=============================================================================
