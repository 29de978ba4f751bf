----------------------------- MODULE ProcessLoop -----------------------------
(****************************************************************************)
(* Process: the rounds of the planner, with the operations in the order in  *)
(* which a round tries them.  The first that does not return quietly ends   *)
(* the round; when all have, the machines get their desired plans.          *)
(****************************************************************************)
EXTENDS EtcdCreate, EtcdRestore, CertRotation, KeyRotation

\* The cluster has been provisioned, and nothing has been asked for yet.
Provisioned ==
  [snapFor |-> 0, snapPhase |-> "", restFor |-> 0, restPhase |-> "",
   certs |-> 0, keysFor |-> 0, keysPhase |-> "", leader |-> Nobody,
   initialized |-> TRUE, bootstrapped |-> TRUE, ready |-> TRUE, config |-> 0]

Init ==
  /\ asked = [o \in Operations |-> 0] /\ deleting = FALSE
  /\ edits = 0 /\ faults = 0 /\ withdrawn = FALSE
  /\ status = Provisioned /\ paused = FALSE
  /\ secret = [m \in Machines |->
                 LET p == DesiredPlan(Provisioned)
                 IN Secret(p, "forever", p, p, NoPlan, "")]
  /\ working = [m \in Machines |-> Resting]
  /\ unfit = {} /\ up = Machines
  /\ keyStage = "start" /\ loaded = [m \in Machines |-> "start"]
  /\ stamp = [m \in Machines |-> Provisioned.config]
  /\ ran = {} /\ restored = {} /\ rotated = {} /\ snapped = {}
  /\ pc = "idle" /\ cp = NotRead /\ view = NoView

\* A cluster that is being deleted is left alone, but not paused.
LeaveDeleting ==
  /\ Turn /\ cp.deleting
  /\ paused' = FALSE
  /\ Completed(cp.status)
  /\ PlannerOnly /\ UNCHANGED secret

WaitPaused ==
  /\ Turn /\ cp.paused
  /\ Waiting(cp.status)
  /\ PlannerOnly /\ UNCHANGED <<paused, secret>>

RolloutStep ==
  /\ Turn /\ ~cp.paused
  /\ FullReconcile
  /\ PlannerOnly /\ UNCHANGED paused

FinishRound ==
  /\ Turn /\ ~cp.paused /\ FullyReconciled
  /\ Completed(Bootstrapped)
  /\ PlannerOnly /\ UNCHANGED <<paused, secret>>

\* What a round does, in this order.
ActRestore == SnapshotIdle /\ EtcdRestoreStep
ActCerts == SnapshotIdle /\ RestoreIdle /\ CertRotationStep
ActKeys == SnapshotIdle /\ RestoreIdle /\ ~CertsDue /\ KeyRotationStep
ActRollout ==
  /\ SnapshotIdle /\ RestoreIdle /\ ~CertsDue /\ KeysIdle
  /\ WaitPaused \/ RolloutStep \/ FinishRound

Act ==
  /\ pc = "act"
  /\ \/ LeaveDeleting
     \/ ~cp.deleting /\ EtcdCreateStep
     \/ ~cp.deleting /\ ActRestore
     \/ ~cp.deleting /\ ActCerts
     \/ ~cp.deleting /\ ActKeys
     \/ ~cp.deleting /\ ActRollout

Users ==
  \/ \E o \in Operations : \E g \in Gens[o] \cup {0} : Ask(o, g)
  \/ DeleteCluster

NodeRuns(m) ==
  \/ NodeRunsDesired(m) \/ NodeSnapshots(m) \/ NodeStops(m) \/ NodeRestores(m)
  \/ NodeRotatesCerts(m) \/ NodeEncrypts(m) \/ NodeRefuses(m)
  \/ NodeRestarts(m)

Next ==
  \/ Users \/ Read \/ Act
  \/ \E m \in Machines :
       AgentStart(m) \/ NodeRuns(m) \/ AgentFails(m) \/ LoseMachine(m)

Spec == Init /\ [][Next]_vars

\* A change of the control plane or of a plan secret enqueues the control
\* plane, and an error does so too; the agents poll their secrets.
Fairness ==
  /\ WF_vars(Read) /\ WF_vars(Act)
  /\ \A m \in Machines : WF_vars(AgentStart(m)) /\ WF_vars(NodeRuns(m))

FairSpec == Spec /\ Fairness

-----------------------------------------------------------------------------
\* Every variable has values of the kind the code gives it.
StatusType ==
  [snapFor : Nat, snapPhase : SnapshotPhases, restFor : Nat,
   restPhase : RestorePhases, certs : Nat, keysFor : Nat,
   keysPhase : KeyPhases, leader : ControlPlane \cup {Nobody},
   initialized : BOOLEAN, bootstrapped : BOOLEAN, ready : BOOLEAN,
   config : Nat]

Kinds == {"none", "desired", "snapshot", "stop", "restore", "podcleanup",
          "nodecleanup", "certs", "encrypt", "restart"}
PlanType == [kind : Kinds, phase : KeyPhases, arg : KeyStages \cup {""},
             gen : Nat]
SecretType == [plan : PlanType, limit : Limits, applied : PlanType,
               sum : PlanType, failed : PlanType, out : KeyStages \cup {""}]

TypeOK ==
  /\ asked \in [Operations -> Nat] /\ deleting \in BOOLEAN
  /\ edits \in 0..MaxEdits /\ faults \in 0..MaxFaults
  /\ withdrawn \in BOOLEAN
  /\ status \in StatusType /\ paused \in BOOLEAN
  /\ secret \in [Machines -> SecretType]
  /\ working \in [Machines -> [plan : PlanType, fresh : BOOLEAN]]
  /\ unfit \subseteq Machines /\ up \subseteq Machines
  /\ keyStage \in KeyStages /\ loaded \in [Machines -> KeyStages]
  /\ stamp \in [Machines -> Nat]
  /\ ran \subseteq Machines \X PlanType
  /\ restored \subseteq Nat /\ rotated \subseteq Machines \X Nat
  /\ snapped \subseteq Machines
  /\ pc \in {"idle", "act"} /\ view \in [Machines -> SecretType]
  /\ IF pc = "act" THEN cp.status \in StatusType ELSE cp = NotRead

\* The secrets are rotated and reencrypted only when every control plane
\* machine has been restarted with the keys of the stage before: whatever
\* restores, snapshots and new requests come between the phases.
RotatesLoaded ==
  [][keyStage' # keyStage /\ keyStage' # "start" =>
       \A m \in ControlPlane : loaded[m] = keyStage]_vars

\* A rotation of keys that is called done has reached its last stage, on every
\* control plane machine, unless a restore has brought the old keys back.
KeysDoneEverywhere ==
  [][status'.keysPhase = "Done" /\ status.keysPhase # "Done" /\ restored = {}
       => keyStage = "reencrypt" /\ \A m \in ControlPlane : loaded[m] = keyStage]_vars

\* A snapshot is restored only while the CAPI cluster is paused, so that no
\* machine is replaced under it, unless the cluster is being deleted.
RestoresPaused ==
  [][restored' # restored => paused \/ deleting]_vars

\* The first restore goes on only when all services are down.
FirstRestoreOnStopped ==
  [][status'.restPhase = "Restore" /\ status.restPhase # "Restore"
       /\ restored = {} /\ ~withdrawn => up = {}]_vars

\* runEtcdRestoreServiceStop returns when the services are stopped: "cluster
\* shutdown complete, running etcd restore".
RestoreOnStopped ==
  [][status'.restPhase = "Restore" /\ status.restPhase # "Restore"
       => up = {}]_vars

\* When a restore is finished everybody runs again.
RestoreStartsAll ==
  [][status'.restPhase = "Finished" /\ status.restPhase # "Finished"
       => up = Machines]_vars

\* When a restore is finished everybody has started with the restored keys,
\* unless a command that a key rotation has left has changed these since.
RestoreLoadsKeys ==
  [][status'.restPhase = "Finished" /\ status.restPhase # "Finished"
       /\ keyStage = "start" => \A m \in Machines : loaded[m] = "start"]_vars

\* The management plane is restarted after a snapshot only when every etcd
\* machine has taken one.
SnapshotEverywhere ==
  [][status'.snapPhase = "RestartCluster" /\ status.snapPhase = "Started"
       => Etcd \subseteq snapped]_vars

\* Certificates: a generation is answered only while it is asked for, and
\* when every machine concerned has carried out the plan of that generation.
Certs == INSTANCE Request WITH
  Scope <- CertScope, Generations <- Gens["certs"],
  asked <- asked["certs"], answered <- status.certs, worked <- rotated
CertsKept == Certs!Spec

\* Restore: the same, and the work is that of the init node.
Restore == INSTANCE Request WITH
  Scope <- {InitNode}, Generations <- Gens["restore"],
  asked <- asked["restore"],
  answered <- IF status.restPhase = "Finished" THEN status.restFor ELSE 0,
  worked <- {InitNode} \X restored
RestoreKept == Restore!Spec

\* The ways in which the planner can come to a stop for good.
Abandoned(kinds) ==
  \E m \in Machines :
    /\ secret[m].plan.kind \in kinds /\ secret[m].failed = secret[m].plan
    /\ secret[m].limit # "forever"
StageUnexpected ==
  \E m \in Machines : LET s == secret[m]
                       IN /\ s.plan.kind = "encrypt" /\ s.applied = s.plan
                          /\ s.out # Command[s.plan.phase]
LeaderLost ==
  status.keysPhase \in DOMAIN NextPhase /\ status.leader \in unfit
PauseLeft == paused /\ (withdrawn \/ status.keysPhase = "Failed")

DeadEnd ==
  \/ Abandoned({"encrypt", "restart", "restore", "podcleanup", "nodecleanup",
                "desired"})
  \/ StageUnexpected \/ LeaderLost \/ PauseLeft

\* Every request comes to an end, after which the CAPI cluster is not paused
\* and the rounds of the planner find nothing to do: unless a plan has failed
\* that is not tried again, a key rotation has lost its leader or its stage,
\* or nobody is left to end the pause.  None of these keeps a cluster paused
\* that is being deleted.
Settles ==
  <>[](\/ status.ready /\ ~paused
       \/ ~deleting /\ DeadEnd)

=============================================================================
