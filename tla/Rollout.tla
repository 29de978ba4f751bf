------------------------------- MODULE Rollout -------------------------------
(****************************************************************************)
(* How the planner rolls a new plan out over the machines of one cluster.   *)
(*                                                                          *)
(* The planner (pkg/planner) works in rounds.  A round reads the plan       *)
(* secret of every machine (PlanStore.Load) and then walks four tiers of    *)
(* machines in order (fullReconcile); in each tier it decides, from what it *)
(* READ, which machines may receive the desired plan, which must be drained *)
(* first and which must wait (reconcile), and writes the secrets of those   *)
(* it acts on.  Meanwhile, on the same secrets, the system-agent of each    *)
(* node reports what it applied, the plansecret controller turns the report *)
(* into the applied plan, and the machinedrain controller answers the drain *)
(* annotations.  None of them waits for another: every decision of the      *)
(* planner rests on a view that may be stale when the decision is written.  *)
(*                                                                          *)
(* A plan is a number of Goals.  Two plans with the same Body differ only   *)
(* in files marked minor; two with the same Stamp carry the same restart    *)
(* stamp, so that replacing one by the other restarts nothing.              *)
(****************************************************************************)
EXTENDS Naturals, FiniteSets

CONSTANTS
  Machines,       \* the machines of the cluster, none of them being deleted
  Etcd,           \* those with the etcd role
  ControlPlane,   \* those with the control-plane role
  Worker,         \* those with the worker role
  InitNode,       \* the elected init node
  Concurrency,    \* tier -> how many machines may be unavailable, 0 for all
  DrainEnabled,   \* tier -> whether its machines are drained before a restart
  Goals,          \* the plans that the cluster's specification may ask for
  Body,           \* plan -> everything in it but the minor files
  Stamp,          \* plan -> its RESTART_STAMP
  MaxEdits,       \* bound: how often the specification is edited
  MaxFaults       \* bound: how often something outside the rollout goes wrong

None == 0
Plans == Goals \cup {None}
Tiers == {"bootstrap", "etcd", "controlplane", "worker"}

ASSUME RolloutAssumption ==
  /\ IsFiniteSet(Machines)
  /\ Etcd \subseteq Machines /\ ControlPlane \subseteq Machines
  /\ Worker \subseteq Machines /\ InitNode \in Etcd
  /\ Concurrency \in [Tiers -> Nat] /\ DrainEnabled \in [Tiers -> BOOLEAN]
  /\ Goals \subseteq Nat \ {0} /\ 1 \in Goals
  /\ Body \in [Goals -> Nat] /\ Stamp \in [Goals -> Nat]
  /\ \A g, h \in Goals : Body[g] = Body[h] => Stamp[g] = Stamp[h]
  /\ MaxEdits \in Nat /\ MaxFaults \in Nat

\* The annotations of the drain protocol.  The value of each is the drain
\* options, which stay the same here: an annotation is set or it is not.
Drain     == "drain"
DrainDone == "drain-done"
UnCordon  == "uncordon"
Annotations == {Drain, DrainDone, UnCordon}

VARIABLES
  spec,      \* the plan that the RKEControlPlane currently asks for
  secret,    \* machine -> its plan secret
  working,   \* machine -> the plan its system-agent is executing
  cordoned,  \* machine -> whether its node is cordoned (and drained)
  pc,        \* planner: "idle", "load" or the tier it is in
  goal,      \* planner: the plan this round hands out
  view,      \* planner: machine -> what Load read of its secret
  loaded,    \* planner: the machines read so far in this round
  todo,      \* planner: the machines of the tier not looked at yet
  down,      \* planner: the machines counted as unavailable in the tier
  waiting,   \* planner: some machine of the tier has to be waited for
  edits,     \* how often the specification has been edited
  faults     \* how many faults there have been

nodeVars    == <<working, cordoned>>
plannerVars == <<pc, goal, view, loaded, todo, down, waiting>>
boundVars   == <<edits, faults>>
vars == <<spec, secret, nodeVars, plannerVars, boundVars>>

-----------------------------------------------------------------------------
(* Plan secrets, and what the planner makes of them.                        *)

SecretType ==
  [plan : Plans,                       \* data["plan"]
   applied : Plans,                    \* data["appliedPlan"]
   sum : Plans,                        \* data["applied-checksum"]
   failed : Plans,                     \* data["failed-checksum"], if it counts
   probes : {"none", "ok", "bad"},     \* data["probe-statuses"]
   passed : BOOLEAN,                   \* the plan-probes-passed annotation
   ann : SUBSET Annotations]

EmptySecret ==
  [plan |-> None, applied |-> None, sum |-> None, failed |-> None,
   probes |-> "none", passed |-> FALSE, ann |-> {}]

ViewType ==
  [plan : Plans, applied : Plans, failed : BOOLEAN, healthy : BOOLEAN,
   usable : BOOLEAN, ann : SUBSET Annotations]

\* Probe statuses that are not there yet count as healthy.
SecretToNode(s) ==
  [plan |-> s.plan, applied |-> s.applied,
   failed |-> s.plan # None /\ s.failed = s.plan,
   healthy |-> s.probes # "bad", usable |-> s.passed, ann |-> s.ann]

NoView == SecretToNode(EmptySecret)

InSync(v)  == v.plan = v.applied
InDrain(v) == v.ann \cap {Drain, UnCordon} # {}

ProbesNeverHealthy(v) ==
  v.applied # None /\ v.plan = v.applied /\ ~v.healthy /\ ~v.usable

\* getPlanStatusReasonMessage is the empty string.
Settled(v) == v.applied # None /\ v.healthy /\ InSync(v)

HasPlan(m)     == view[m].plan # None
Change(m)      == HasPlan(m) /\ view[m].plan # goal
MinorChange(m) == Change(m) /\ Body[view[m].plan] = Body[goal]
MajorChange(m) == Change(m) /\ Body[view[m].plan] # Body[goal]

\* (mutant) A machine whose plan is not applied yet is not counted.
UnavailableMutant(m) ==
  InDrain(view[m]) \/ (~Change(m) /\ ~view[m].healthy)

Unavailable(m) ==
  \/ ~InSync(view[m])
  \/ InDrain(view[m])
  \/ ~Change(m) /\ ~view[m].healthy

\* (mutant) A machine in the drain process has to wait for capacity.
ExemptMutant(m) == view[m].failed \/ ProbesNeverHealthy(view[m])

\* Machines that may be taken out whatever the capacity that is left.
Exempt(m) ==
  InDrain(view[m]) \/ view[m].failed \/ ProbesNeverHealthy(view[m])

\* (mutant) One machine too many.
MayDisruptMutant(m) ==
  Exempt(m) \/ Concurrency[pc] = 0 \/ Cardinality(down) <= Concurrency[pc]

MayDisrupt(m) ==
  Exempt(m) \/ Concurrency[pc] = 0 \/ Cardinality(down) < Concurrency[pc]

-----------------------------------------------------------------------------
(* Tiers.                                                                    *)

TierOf ==
  [t \in Tiers |->
     CASE t = "bootstrap"    -> {InitNode}
       [] t = "etcd"         -> Etcd \ {InitNode}
       [] t = "controlplane" -> ControlPlane \ {InitNode}
       [] t = "worker"       -> Worker \ (Etcd \cup ControlPlane)]

TierAfter ==
  [bootstrap |-> "etcd", etcd |-> "controlplane", controlplane |-> "worker"]

\* Whether collect finds the machines that the tier must have.
TierHasEntries(t) ==
  CASE t \in {"bootstrap", "etcd"} -> Etcd # {}
    [] t = "controlplane"          -> ControlPlane # {}
    [] t = "worker"                -> TRUE

-----------------------------------------------------------------------------
Init ==
  /\ spec = 1
  /\ secret = [m \in Machines |-> EmptySecret]
  /\ working = [m \in Machines |-> None]
  /\ cordoned = [m \in Machines |-> FALSE]
  /\ pc = "idle" /\ goal = None
  /\ view = [m \in Machines |-> NoView]
  /\ loaded = {} /\ todo = {} /\ down = {} /\ waiting = FALSE
  /\ edits = 0 /\ faults = 0

Fault == faults < MaxFaults /\ faults' = faults + 1

\* Someone edits the cluster: the machines are to run another plan.
EditSpec ==
  /\ edits < MaxEdits
  /\ spec' \in Goals \ {spec}
  /\ edits' = edits + 1
  /\ UNCHANGED <<secret, nodeVars, plannerVars, faults>>

-----------------------------------------------------------------------------
(* The planner: the frame of a round.                                       *)

\* (mutant) The goal outlives the round.
EndRoundMutant ==
  /\ pc' = "idle" /\ goal' = goal
  /\ view' = [m \in Machines |-> NoView]
  /\ loaded' = {} /\ todo' = {} /\ down' = {} /\ waiting' = FALSE

\* What the round knew is forgotten when it ends.
EndRound ==
  /\ pc' = "idle" /\ goal' = None
  /\ view' = [m \in Machines |-> NoView]
  /\ loaded' = {} /\ todo' = {} /\ down' = {} /\ waiting' = FALSE

StartRound ==
  /\ pc = "idle"
  /\ pc' = "load" /\ goal' = spec
  /\ UNCHANGED <<spec, secret, nodeVars, boundVars>>
  /\ UNCHANGED <<view, loaded, todo, down, waiting>>

\* Load reads the secrets one after the other, each at its own time.
LoadSecret(m) ==
  /\ pc = "load" /\ m \notin loaded
  /\ view' = [view EXCEPT ![m] = SecretToNode(secret[m])]
  /\ loaded' = loaded \cup {m}
  /\ UNCHANGED <<spec, secret, nodeVars, boundVars>>
  /\ UNCHANGED <<pc, goal, todo, down, waiting>>

EnterTier(t) ==
  /\ pc' = t
  /\ todo' = TierOf[t]
  /\ down' = {m \in TierOf[t] : HasPlan(m) /\ Unavailable(m)}
  /\ waiting' = FALSE
  /\ UNCHANGED <<goal, view, loaded>>

FirstTier ==
  /\ pc = "load" /\ loaded = Machines
  /\ EnterTier("bootstrap")
  /\ UNCHANGED <<spec, secret, nodeVars, boundVars>>

TierDone == pc \in Tiers /\ todo = {}

\* (mutant) The next tier does not wait for this one.
NextTierMutant ==
  /\ TierDone /\ TierHasEntries(pc) /\ pc # "worker"
  /\ EnterTier(TierAfter[pc])
  /\ UNCHANGED <<spec, secret, nodeVars, boundVars>>

NextTier ==
  /\ TierDone /\ ~waiting /\ TierHasEntries(pc) /\ pc # "worker"
  /\ EnterTier(TierAfter[pc])
  /\ UNCHANGED <<spec, secret, nodeVars, boundVars>>

\* The tier returned errWaiting, or it was the last one.
FinishRound ==
  /\ TierDone
  /\ waiting \/ ~TierHasEntries(pc) \/ pc = "worker"
  /\ EndRound
  /\ UNCHANGED <<spec, secret, nodeVars, boundVars>>

\* The round ends early: an API call failed or was refused, the process
\* stopped, the join URL or a condition of a machine is still awaited.
Abort ==
  /\ pc # "idle"
  /\ Fault
  /\ EndRound
  /\ UNCHANGED <<spec, secret, nodeVars, edits>>

-----------------------------------------------------------------------------
(* The planner: what reconcile does with one machine of the tier.           *)

Turn(m) == pc \in Tiers /\ m \in todo

\* The planner goes on with the next machine: d is the new set of the
\* unavailable ones, w tells whether the tier has to wait for m.
Passed(m, d, w) ==
  /\ todo' = todo \ {m}
  /\ down' = d
  /\ waiting' = (waiting \/ w)
  /\ UNCHANGED <<spec, nodeVars, edits>>
  /\ UNCHANGED <<pc, goal, view, loaded>>

\* CopyPlanMetadataToSecret: the annotations that were read are laid over
\* those that are there, so what was deleted in between comes back.
Overlay(m) == secret[m].ann \cup view[m].ann

UpdatePlan(m) ==
  secret' = [secret EXCEPT ![m].plan = goal, ![m].probes = "none",
                           ![m].passed = FALSE, ![m].ann = Overlay(m)]

\* updatePlanSecretLabelsAndAnnotations with annotation a set.
Annotate(m, a) ==
  secret' = [secret EXCEPT ![m].passed = view[m].usable,
                           ![m].ann = Overlay(m) \cup {a}]

DeliverInitial(m) ==
  /\ Turn(m) /\ ~HasPlan(m)
  /\ UpdatePlan(m)
  /\ Passed(m, down, TRUE)
  /\ UNCHANGED faults

\* A minor change is delivered at once, whatever else is unavailable.
DeliverMinor(m) ==
  /\ Turn(m) /\ MinorChange(m)
  /\ UpdatePlan(m)
  /\ Passed(m, down, ~Settled(view[m]))
  /\ UNCHANGED faults

\* (mutant) A drain that has been requested is not awaited.
MustDrainMutant(m) ==
  /\ DrainEnabled[pc] /\ Cardinality(Machines) > 1
  /\ view[m].applied # None /\ ~InDrain(view[m])
  /\ Stamp[view[m].applied] # Stamp[goal]

\* drain: neither switched off nor needless for this change of plan.
MustDrain(m) ==
  /\ DrainEnabled[pc] /\ Cardinality(Machines) > 1
  /\ view[m].applied # None
  /\ Stamp[view[m].applied] # Stamp[goal]

RequestDrain(m) ==
  /\ Turn(m) /\ MajorChange(m) /\ MayDisrupt(m)
  /\ MustDrain(m) /\ Drain \notin view[m].ann
  /\ Annotate(m, Drain)
  /\ Passed(m, down \cup {m}, TRUE)
  /\ UNCHANGED faults

AwaitDrain(m) ==
  /\ Turn(m) /\ MajorChange(m) /\ MayDisrupt(m)
  /\ MustDrain(m) /\ Drain \in view[m].ann /\ DrainDone \notin view[m].ann
  /\ Passed(m, down \cup {m}, TRUE)
  /\ UNCHANGED <<secret, faults>>

DeliverMajor(m) ==
  /\ Turn(m) /\ MajorChange(m) /\ MayDisrupt(m)
  /\ MustDrain(m) => {Drain, DrainDone} \subseteq view[m].ann
  /\ UpdatePlan(m)
  /\ Passed(m, down \cup {m}, TRUE)
  /\ UNCHANGED faults

\* No capacity is left; the tier waits for m only if m has something to say.
HoldBack(m) ==
  /\ Turn(m) /\ MajorChange(m) /\ ~MayDisrupt(m)
  /\ Passed(m, down, ~Settled(view[m]))
  /\ UNCHANGED <<secret, faults>>

AwaitPlan(m) ==
  /\ Turn(m) /\ HasPlan(m) /\ ~Change(m) /\ ~Settled(view[m])
  /\ Passed(m, down, TRUE)
  /\ UNCHANGED <<secret, faults>>

\* The plan is in place; what undrain looks at comes next.
PlanInPlace(m) == Turn(m) /\ HasPlan(m) /\ ~Change(m) /\ Settled(view[m])

RequestUncordon(m) ==
  /\ PlanInPlace(m) /\ Drain \in view[m].ann /\ UnCordon \notin view[m].ann
  /\ Annotate(m, UnCordon)
  /\ Passed(m, down, TRUE)
  /\ UNCHANGED faults

AwaitUncordon(m) ==
  /\ PlanInPlace(m) /\ UnCordon \in view[m].ann
  /\ Passed(m, down, TRUE)
  /\ UNCHANGED <<secret, faults>>

\* The kubelet has not yet the new version or the cluster agent is away.
AwaitKubelet(m) ==
  /\ PlanInPlace(m) /\ ~InDrain(view[m])
  /\ Fault
  /\ Passed(m, down, TRUE)
  /\ UNCHANGED secret

Ready(m) ==
  /\ PlanInPlace(m) /\ ~InDrain(view[m])
  /\ Passed(m, down, FALSE)
  /\ UNCHANGED <<secret, faults>>

Consider(m) ==
  \/ DeliverInitial(m) \/ DeliverMinor(m) \/ DeliverMajor(m)
  \/ RequestDrain(m) \/ AwaitDrain(m) \/ HoldBack(m) \/ AwaitPlan(m)
  \/ RequestUncordon(m) \/ AwaitUncordon(m) \/ Ready(m)

-----------------------------------------------------------------------------
(* The system-agent of a node, which is not part of this repository: it     *)
(* executes the plan it finds and reports the checksum and the probes, or a *)
(* failure.  The plan may have been replaced by the time it reports.        *)

AgentStart(m) ==
  /\ working[m] = None
  /\ secret[m].plan # None /\ secret[m].plan # secret[m].sum
  /\ working' = [working EXCEPT ![m] = secret[m].plan]
  /\ UNCHANGED <<spec, secret, cordoned, plannerVars, boundVars>>

AgentReport(m) ==
  /\ working[m] # None
  /\ working' = [working EXCEPT ![m] = None]
  /\ UNCHANGED <<spec, cordoned, plannerVars, edits>>

AgentDone(m) ==
  /\ AgentReport(m)
  /\ secret' = [secret EXCEPT ![m].sum = working[m], ![m].failed = None,
                              ![m].probes = "ok"]
  /\ UNCHANGED faults

\* The plan was executed, but what it started is not healthy.
AgentDoneUnhealthy(m) ==
  /\ AgentReport(m)
  /\ secret' = [secret EXCEPT ![m].sum = working[m], ![m].failed = None,
                              ![m].probes = "bad"]
  /\ Fault

AgentFail(m) ==
  /\ AgentReport(m)
  /\ secret' = [secret EXCEPT ![m].failed = working[m]]
  /\ Fault

\* The agent probes what it runs, from time to time.
AgentProbe(m, probes) ==
  /\ working[m] = None /\ secret[m].plan # None
  /\ secret[m].sum = secret[m].plan /\ secret[m].probes # probes
  /\ secret' = [secret EXCEPT ![m].probes = probes]
  /\ UNCHANGED <<spec, nodeVars, plannerVars, edits>>

ProbesPass(m) == AgentProbe(m, "ok") /\ UNCHANGED faults
ProbesFail(m) == AgentProbe(m, "bad") /\ Fault

-----------------------------------------------------------------------------
(* The plansecret controller.                                               *)

\* The agent has reported the plan that is in the secret.
Reported(s) == s.plan # None /\ s.sum = s.plan /\ s.plan # s.applied
FirstPass(s) == s.plan # None /\ s.probes = "ok" /\ ~s.passed

PlanSecretOnChange(m) ==
  /\ Reported(secret[m]) \/ FirstPass(secret[m])
  /\ secret' =
       [secret EXCEPT
          ![m].applied = IF Reported(secret[m]) THEN secret[m].plan ELSE @,
          ![m].passed = @ \/ FirstPass(secret[m])]
  /\ UNCHANGED <<spec, nodeVars, plannerVars, boundVars>>

-----------------------------------------------------------------------------
(* The machinedrain controller.                                             *)

Draining(m)   == Drain \in secret[m].ann /\ DrainDone \notin secret[m].ann
Undraining(m) == ~Draining(m) /\ UnCordon \in secret[m].ann

Cordon(m) ==
  /\ Draining(m) /\ ~cordoned[m]
  /\ cordoned' = [cordoned EXCEPT ![m] = TRUE]
  /\ UNCHANGED <<spec, secret, working, plannerVars, boundVars>>

\* The pods are gone: the drain is reported as done.
FinishDrain(m) ==
  /\ Draining(m) /\ cordoned[m]
  /\ secret' = [secret EXCEPT ![m].ann = @ \cup {DrainDone}]
  /\ UNCHANGED <<spec, nodeVars, plannerVars, boundVars>>

Uncordon(m) ==
  /\ Undraining(m) /\ cordoned[m]
  /\ cordoned' = [cordoned EXCEPT ![m] = FALSE]
  /\ UNCHANGED <<spec, secret, working, plannerVars, boundVars>>

\* (mutant) Only the request to uncordon is removed.
CleanAnnotationsMutant(m) ==
  /\ Undraining(m) /\ ~cordoned[m]
  /\ secret' = [secret EXCEPT ![m].ann = @ \ {UnCordon}]
  /\ UNCHANGED <<spec, nodeVars, plannerVars, boundVars>>

CleanAnnotations(m) ==
  /\ Undraining(m) /\ ~cordoned[m]
  /\ secret' = [secret EXCEPT ![m].ann = {}]
  /\ UNCHANGED <<spec, nodeVars, plannerVars, boundVars>>

-----------------------------------------------------------------------------
PlannerStep ==
  \/ StartRound \/ FirstTier \/ NextTier \/ FinishRound
  \/ \E m \in Machines : LoadSecret(m) \/ Consider(m)

AgentStep(m) ==
  \/ AgentStart(m) \/ AgentDone(m) \/ AgentDoneUnhealthy(m) \/ AgentFail(m)
  \/ ProbesPass(m) \/ ProbesFail(m)

DrainStep(m) ==
  Cordon(m) \/ FinishDrain(m) \/ Uncordon(m) \/ CleanAnnotations(m)

Next ==
  \/ EditSpec \/ PlannerStep \/ Abort
  \/ \E m \in Machines :
       \/ AwaitKubelet(m)
       \/ AgentStep(m) \/ PlanSecretOnChange(m) \/ DrainStep(m)

Spec == Init /\ [][Next]_vars

\* Every change of a secret, a machine or the control plane enqueues the
\* planner again, and a controller is called for every change of a secret; the
\* agents poll.  An agent that can finish does, and what it runs gets healthy.
Fairness ==
  /\ WF_vars(PlannerStep)
  /\ \A m \in Machines :
       /\ WF_vars(AgentStart(m)) /\ WF_vars(AgentDone(m))
       /\ WF_vars(ProbesPass(m))
       /\ WF_vars(PlanSecretOnChange(m)) /\ WF_vars(DrainStep(m))

FairSpec == Spec /\ Fairness

-----------------------------------------------------------------------------
(* Properties.                                                              *)

\* Every variable has values of the kind the code gives it.
TypeOK ==
  /\ spec \in Goals
  /\ secret \in [Machines -> SecretType]
  /\ working \in [Machines -> Plans]
  /\ cordoned \in [Machines -> BOOLEAN]
  /\ pc \in Tiers \cup {"idle", "load"}
  /\ goal \in Plans /\ (goal = None <=> pc = "idle")
  /\ view \in [Machines -> ViewType]
  /\ loaded \subseteq Machines /\ todo \subseteq Machines
  /\ down \subseteq Machines /\ waiting \in BOOLEAN
  /\ edits \in 0..MaxEdits /\ faults \in 0..MaxFaults

\* A machine that was serving and is taken out: it is in some part of the
\* drain process, or has a plan to apply that is more than a minor change.
Disrupted(m) ==
  /\ secret[m].plan # None /\ secret[m].applied # None
  /\ \/ Body[secret[m].plan] # Body[secret[m].applied]
     \/ secret[m].ann \cap {Drain, UnCordon} # {}

\* The unavailable count that reconcile keeps covers every machine of the tier
\* that really is taken out, although it is computed from what Load read.
CountCoversTier ==
  pc \in Tiers => \A m \in TierOf[pc] : Disrupted(m) => m \in down

\* Whatever the agents and the controllers do after a machine has been read,
\* what the round read of it stays good enough to act on, until the round has
\* written to it and has to wait: the secret still holds that plan, up to the
\* minor files; a plan that was in sync is still applied; and the machine has
\* not entered the drain process, nor left it but for an uncordon that was read.
StillTells(v, s) ==
  /\ s.plan = None <=> v.plan = None
  /\ v.applied # None => s.applied # None
  /\ v.plan # None => Body[s.plan] = Body[v.plan]
  /\ v.plan # None /\ InSync(v) =>
       s.applied # None /\ Body[s.applied] = Body[v.plan]
  /\ Drain \notin v.ann => Drain \notin s.ann
  /\ UnCordon \notin v.ann => UnCordon \notin s.ann /\ v.ann \subseteq s.ann

ViewStillTells ==
  \A m \in Machines :
    m \in loaded /\ (waiting => m \in todo) => StillTells(view[m], secret[m])

\* Whoever takes one more machine of a tier out, with no exemption for it,
\* leaves at most as many of the tier's machines out as the concurrency allows,
\* whatever the agents and the controllers did since the machine was read.
BudgetRespected ==
  [][\A m \in Machines :
       ~Disrupted(m) /\ Disrupted(m)' =>
         \/ Exempt(m) \/ Concurrency[pc] = 0
         \/ Cardinality({n \in TierOf[pc] : Disrupted(n)'}) <= Concurrency[pc]
    ]_vars

\* A node whose drain is reported as done, and which nobody has asked to
\* uncordon, is cordoned: performDrain's result is not undone by an old
\* uncordon, or announced by an old drain-done.
CordonedWhileDrained ==
  \A m \in Machines :
    /\ {Drain, DrainDone} \subseteq secret[m].ann
    /\ UnCordon \notin secret[m].ann
    => cordoned[m]

OnlyWorkers == TierOf["worker"]

\* A worker gets a new plan only after every machine that is more than a worker
\* has that plan applied (up to minor files).  The one way past it: some
\* machine in the drain process got a minor change, for which the tier does not
\* wait, and another one was held back for it, for which it does not wait
\* either.
WorkersAfterControlPlane ==
  [][\A w \in OnlyWorkers : secret'[w].plan # secret[w].plan =>
       \/ \A c \in Etcd \cup ControlPlane :
            /\ secret[c].plan # None /\ secret[c].applied # None
            /\ Body[secret[c].plan] = Body[goal]
            /\ Body[secret[c].applied] = Body[goal]
       \/ \E c \in Etcd \cup ControlPlane : MinorChange(c) /\ InDrain(view[c])
    ]_vars

\* The step orders a restart where drains are enabled: a plan with a restart
\* stamp of its own, in a cluster where pods have another place to go.
OrdersRestart(m) ==
  /\ secret'[m].plan # secret[m].plan
  /\ secret[m].plan # None /\ secret[m].applied # None
  /\ Stamp[secret'[m].plan] \notin
       {Stamp[secret[m].plan], Stamp[secret[m].applied]}
  /\ DrainEnabled[pc] /\ Cardinality(Machines) > 1

\* Where drains are enabled, a plan that restarts a node is handed out while
\* the node is cordoned.  Two ways past it: the node was already being
\* uncordoned when it was read, or its applied plan, from which the need to
\* drain is computed, has changed since.
RestartsDrainedAsRead ==
  [][\A m \in Machines : OrdersRestart(m) =>
       \/ cordoned[m]
       \/ UnCordon \in view[m].ann
       \/ secret[m].applied # view[m].applied]_vars

\* "If the node is already draining then the plan is out of sync.  There is no
\* harm in updating it if the node is currently drained" (planner.go:899), and
\* "Drain is done (or didn't need to be done)" (planner.go:913): a plan whose
\* restart, as far as could be read, needs a drain finds the node drained.
RestartsDrained ==
  [][\A m \in Machines :
       OrdersRestart(m) /\ secret[m].applied = view[m].applied
         => cordoned[m]]_vars

\* The unavailable count of the bootstrap tier is meant to be that of all etcd
\* machines (planner.go:348), and the etcd tier is to take one node at a time
\* (planner.go:369): whoever takes an etcd machine out, with no exemption for
\* it, takes out the only one.
EtcdOneAtATime ==
  [][\A m \in Etcd :
       ~Disrupted(m) /\ Disrupted(m)' /\ ~Exempt(m)
       => \A n \in Etcd \ {m} : ~Disrupted(n)]_vars

\* The node is stopping one thing and starting another.
Restarting(m) ==
  /\ working[m] # None /\ secret[m].sum # None
  /\ Stamp[working[m]] # Stamp[secret[m].sum]

\* "How many workers should be upgraded at a time" (cluster.go:141), counted
\* on the nodes themselves.
WorkersUpgradedAtATime ==
  Concurrency["worker"] = 0 \/
  Cardinality({m \in OnlyWorkers : Restarting(m)}) <= Concurrency["worker"]

Current(m) ==
  /\ secret[m].plan = spec /\ secret[m].applied = spec
  /\ secret[m].ann = {} /\ ~cordoned[m]

\* Once the cluster is left alone, every machine ends up with the plan that is
\* asked for, out of the drain process and schedulable, and stays there.
Converges == <>[](\A m \in Machines : Current(m))

=============================================================================
