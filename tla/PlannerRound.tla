---------------------------- MODULE PlannerRound ----------------------------
(****************************************************************************)
(* What the operations of the planner have in common: etcd snapshots, their *)
(* restore, the rotation of certificates and that of encryption keys.  Each *)
(* is asked for in the RKEControlPlane, advances by one phase per round of  *)
(* the planner, and does its work by plans that it hands to machines and    *)
(* waits for.                                                               *)
(*                                                                          *)
(* A round reads the control plane and the plan secrets, acts on what it    *)
(* has read and writes the status back; the status is lost if the control   *)
(* plane was edited in between, what the round did to secrets and to the    *)
(* CAPI cluster is not.  One operation acts in a round: whichever has       *)
(* something to say first, in the order of ProcessLoop, ends it.            *)
(*                                                                          *)
(* Machines do not come and go and the init node stays: that is InitNode.   *)
(****************************************************************************)
EXTENDS Naturals, FiniteSets, Sequences

CONSTANTS
  Machines,      \* the machines of the cluster
  Etcd,          \* those with the etcd role
  ControlPlane,  \* those with the control-plane role
  InitNode,      \* the init node
  Order,         \* machine -> its place in what collect returns
  Gens,          \* operation -> the generations it may be asked for with
  MaxEdits,      \* bound: how often the control plane is edited
  MaxFaults      \* bound: how often something goes wrong

Operations == {"snapshot", "restore", "certs", "keys"}
AllGens == UNION {Gens[o] : o \in Operations}

ASSUME RoundAssumption ==
  /\ IsFiniteSet(Machines)
  /\ Etcd \subseteq Machines /\ ControlPlane \subseteq Machines
  /\ ControlPlane # {} /\ InitNode \in Etcd
  /\ Order \in [Machines -> Nat]
  /\ \A m, n \in Machines : Order[m] = Order[n] => m = n
  /\ Gens \in [Operations -> SUBSET (Nat \ {0})]
  /\ MaxEdits \in Nat /\ MaxFaults \in Nat

Nobody == "nobody"

VARIABLES
  asked,      \* operation -> the generation asked for, 0 if it is not
  deleting,   \* whether the CAPI cluster is being deleted
  status,     \* the status of the control plane
  paused,     \* whether the CAPI cluster is paused
  secret,     \* machine -> its plan secret
  working,    \* machine -> the plan its system-agent is executing, and
              \* whether its idempotent commands are run
  unfit,      \* the machines that are not ready
  up,         \* the machines whose server or agent service runs
  keyStage,   \* the stage of the encryption keys in the cluster
  loaded,     \* machine -> the stage its server has started with
  stamp,      \* machine -> the configuration it was last installed with
  ran,        \* <<machine, plan>> whose idempotent commands are marked as
              \* run, and that at the first attempt
  restored,   \* the generations of restores that have been executed
  rotated,    \* <<machine, generation>> of certificate plans carried out
  snapped,    \* the machines that have ever taken a snapshot
  pc,         \* planner: "idle" or "act"
  cp,         \* planner: the control plane and the CAPI cluster as read
  view,       \* planner: machine -> its plan secret as read
  edits,      \* how often the control plane has been edited
  faults,     \* how often something went wrong
  withdrawn   \* auxiliary: whether a request has ever been withdrawn

requestVars == <<asked, deleting, edits, withdrawn>>
agentVars   == <<working, unfit>>
nodeVars    == <<up, keyStage, loaded, stamp, ran, restored, rotated,
                 snapped>>
readVars    == <<pc, cp, view>>
vars == <<requestVars, status, paused, secret, agentVars, nodeVars, readVars,
          faults>>

-----------------------------------------------------------------------------
(* Plans.  A plan is what it makes the node do; two plans are the same for  *)
(* the planner and for the agent if their texts are.                        *)

Plan(kind, phase, gen) ==
  [kind |-> kind, phase |-> phase, arg |-> "", gen |-> gen]
NoPlan == Plan("none", "", 0)

\* What the cluster's specification asks for, in a configuration generation.
DesiredPlan(s) == Plan("desired", "", s.config)

\* How often the agent tries a plan, and whether its failure is noticed: for
\* ever and noticed; a few times, then noticed; once and never noticed.
Limits == {"forever", "few", "unnoticed"}

\* A plan secret: the plan, how long it is tried, the applied plan, and what
\* the agent reports: what it has carried out last and what that printed, and
\* what failed.  Of all this a new plan replaces the first two only, so what
\* is reported of the same plan, delivered once before, counts at once.
Secret(p, limit, applied, sum, failed, out) ==
  [plan |-> p, limit |-> limit, applied |-> applied, sum |-> sum,
   failed |-> failed, out |-> out]

\* plansecret: a plan is applied once its checksum is reported as applied.
Assign(ms, planOf, limit) ==
  secret' = [m \in Machines |->
               IF m \in ms
               THEN LET s == secret[m] p == planOf[m]
                    IN Secret(p, limit, IF s.sum = p THEN p ELSE s.applied,
                              s.sum, s.failed, s.out)
               ELSE secret[m]]

\* The outcomes of assignAndCheckPlan, from the secret that was read.
NeedsPlan(m, p) == view[m].plan # p
HasFailed(m, p) ==
  view[m].plan = p /\ view[m].failed = p /\ view[m].limit # "unnoticed"
InSync(m) == view[m].plan = view[m].applied
Carried(m, p) == view[m].plan = p /\ InSync(m)

\* The first of the machines, tier by tier and in each in collect's order.
First(ms) == CHOOSE m \in ms : \A n \in ms : Order[m] <= Order[n]
NextIn(tiers, ms) ==
  LET t == CHOOSE i \in DOMAIN tiers :
             /\ tiers[i] \cap ms # {}
             /\ \A j \in 1..(i - 1) : tiers[j] \cap ms = {}
  IN First(tiers[t] \cap ms)

-----------------------------------------------------------------------------
(* Rounds.                                                                  *)

NotRead == [asked |-> [o \in Operations |-> 0], deleting |-> FALSE,
            status |-> <<>>, paused |-> FALSE, unfit |-> {}, edits |-> 0]
NoView == [m \in Machines |->
             Secret(NoPlan, "forever", NoPlan, NoPlan, NoPlan, "")]

Fault == faults < MaxFaults /\ faults' = faults + 1

Read ==
  /\ pc = "idle"
  /\ pc' = "act"
  /\ cp' = [asked |-> asked, deleting |-> deleting, status |-> status,
            paused |-> paused, unfit |-> unfit, edits |-> edits]
  /\ view' = secret
  /\ UNCHANGED <<requestVars, status, paused, secret, agentVars, nodeVars>>
  /\ UNCHANGED faults

Turn == pc = "act"

RoundEnds == pc' = "idle" /\ cp' = NotRead /\ view' = NoView

\* (mutant) The status is written whatever happened since it was read.
PersistMutant(s) == status' = s /\ UNCHANGED faults

\* UpdateStatus carries the version that was read; it may also just fail.
Persist(s) ==
  \/ status' = (IF edits = cp.edits THEN s ELSE status) /\ UNCHANGED faults
  \/ status' = status /\ s # status /\ Fault

\* An errWaiting: what the round has made of the status is kept.
Waiting(s) == RoundEnds /\ Persist([s EXCEPT !.ready = FALSE])

\* Any other error: the status is what it was.
Failing == RoundEnds /\ UNCHANGED <<status, faults>>

Completed(s) == RoundEnds /\ Persist([s EXCEPT !.ready = TRUE])

\* What a round of the planner leaves alone.
PlannerOnly == UNCHANGED <<requestVars, agentVars, nodeVars>>

-----------------------------------------------------------------------------
(* fullReconcile: every machine gets its desired plan, tier by tier and one *)
(* machine at a time.  Drains and other budgets are in Rollout; a restart   *)
(* after a restore has no budget, which calculateConcurrency takes for one. *)

ServerTiers == <<{InitNode}, Etcd \ {InitNode}, ControlPlane \ {InitNode}>>
Workers == Machines \ (Etcd \cup ControlPlane)

\* (mutant) A machine that has its plan is done.
BehindMutant(tier) == {m \in tier : NeedsPlan(m, DesiredPlan(cp.status))}

Behind(tier) == {m \in tier : ~Carried(m, DesiredPlan(cp.status))}

\* (mutant) Nothing is done for a machine whose current plan has failed.
TurnedMutant(tier) ==
  LET outdated == {m \in tier : NeedsPlan(m, DesiredPlan(cp.status))}
  IN IF outdated # {} /\ \A m \in tier : InSync(m)
     THEN {First(outdated)} ELSE {}

\* Who gets the plan: one machine while nobody of the tier is unavailable, else
\* those whose current plan has failed.
Turned(tier) ==
  LET outdated == {m \in tier : NeedsPlan(m, DesiredPlan(cp.status))}
      failed == {m \in outdated : HasFailed(m, view[m].plan)}
  IN IF outdated # {} /\ \A m \in tier : InSync(m)
     THEN {First(outdated)} ELSE failed

Reconcile(tier) ==
  Assign(Turned(tier), [m \in Machines |-> DesiredPlan(cp.status)], "forever")

Bootstrapped == [cp.status EXCEPT !.bootstrapped = TRUE]

ReconcileServers ==
  \E t \in DOMAIN ServerTiers :
    /\ Behind(ServerTiers[t]) # {}
    /\ \A u \in 1..(t - 1) : Behind(ServerTiers[u]) = {}
    /\ Reconcile(ServerTiers[t]) /\ Waiting(Bootstrapped)

ServersReady == Behind(Etcd \cup ControlPlane) = {}

MarkInitialized ==
  /\ ServersReady /\ ~cp.status.initialized
  /\ Waiting([Bootstrapped EXCEPT !.initialized = TRUE])
  /\ UNCHANGED secret

ReconcileWorkers ==
  /\ ServersReady /\ cp.status.initialized /\ Behind(Workers) # {}
  /\ Reconcile(Workers) /\ Waiting(Bootstrapped)

FullReconcile == ReconcileServers \/ MarkInitialized \/ ReconcileWorkers
FullyReconciled == Behind(Machines) = {} /\ cp.status.initialized

-----------------------------------------------------------------------------
(* The rest of the world: users, CAPI, readiness of machines.               *)

\* Someone asks for an operation, asks anew, or withdraws the request.
Ask(o, g) ==
  /\ edits < MaxEdits /\ g # asked[o]
  /\ asked' = [asked EXCEPT ![o] = g]
  /\ edits' = edits + 1
  /\ withdrawn' = (withdrawn \/ g = 0)
  /\ UNCHANGED <<deleting, status, paused, secret, agentVars, nodeVars>>
  /\ UNCHANGED <<readVars, faults>>

DeleteCluster ==
  /\ edits < MaxEdits /\ ~deleting
  /\ deleting' = TRUE /\ edits' = edits + 1
  /\ UNCHANGED <<asked, withdrawn, status, paused, secret, agentVars>>
  /\ UNCHANGED <<nodeVars, readVars, faults>>

LoseMachine(m) ==
  /\ m \in ControlPlane \ unfit /\ Fault /\ unfit' = unfit \cup {m}
  /\ UNCHANGED <<requestVars, status, paused, secret, working, nodeVars>>
  /\ UNCHANGED readVars

-----------------------------------------------------------------------------
(* The system-agent of a node, which is not part of this repository.  It    *)
(* runs the plan in the secret unless that is what it has carried out last. *)

Resting == [plan |-> NoPlan, fresh |-> FALSE]

\* Commands of these plans are wrapped in the idempotent script.
Wrapped(p) == p.kind \in {"certs", "restore", "encrypt", "restart"}

\* The script skips what it finds marked with the number of this attempt, and
\* otherwise marks it before it runs it.  Attempts are numbered per delivery.
AgentStart(m) ==
  LET p == secret[m].plan
      first == secret[m].failed # p
  IN /\ working[m] = Resting /\ secret[m].sum # p
     /\ first \/ secret[m].limit = "forever"
     /\ working' = [working EXCEPT
                      ![m] = [plan |-> p, fresh |-> ~first \/ <<m, p>> \notin ran]]
     /\ ran' = IF ~Wrapped(p) THEN ran
               ELSE IF first THEN ran \cup {<<m, p>>} ELSE ran \ {<<m, p>>}
     /\ UNCHANGED <<requestVars, status, paused, secret, unfit, readVars>>
     /\ UNCHANGED <<up, keyStage, loaded, stamp, restored, rotated, snapped>>
     /\ UNCHANGED faults

Runs(m, kinds) == working[m].plan.kind \in kinds

\* The agent has carried out its plan, whose commands have printed out.
AgentReports(m, out) ==
  LET p == working[m].plan
  IN /\ working' = [working EXCEPT ![m] = Resting]
     /\ secret' = [secret EXCEPT
                     ![m].sum = p, ![m].failed = NoPlan, ![m].out = out,
                     ![m].applied = IF secret[m].plan = p THEN p ELSE @]
     /\ UNCHANGED <<requestVars, status, paused, unfit, readVars>>

\* The plan that restarts a server is tried five times before it has failed.
PlanFails(m) ==
  LET p == working[m].plan
  IN /\ working' = [working EXCEPT ![m] = Resting]
     /\ secret' = [secret EXCEPT ![m].failed = p]
     /\ ran' = IF p.kind = "restart" THEN ran \ {<<m, p>>} ELSE ran
     /\ UNCHANGED <<requestVars, status, paused, unfit, readVars>>

AgentFails(m) ==
  /\ working[m] # Resting /\ Fault
  /\ PlanFails(m)
  /\ UNCHANGED <<up, keyStage, loaded, stamp, restored, rotated, snapped>>

\* A service that starts loads the keys at the stage they are in.
StartsService(m) ==
  /\ up' = up \cup {m}
  /\ loaded' = [loaded EXCEPT ![m] = keyStage]

\* The installer restarts a service that is down, or was installed with another
\* restart stamp, of which the configuration is a part; otherwise it may.
NodeRunsDesired(m) ==
  /\ Runs(m, {"desired", "podcleanup", "nodecleanup"})
  /\ AgentReports(m, "")
  /\ stamp' = [stamp EXCEPT ![m] = working[m].plan.gen]
  /\ \/ StartsService(m)
     \/ m \in up /\ stamp'[m] = stamp[m] /\ UNCHANGED <<up, loaded>>
  /\ UNCHANGED <<keyStage, ran, restored, rotated, snapped, faults>>

=============================================================================
