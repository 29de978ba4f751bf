----------------------------- MODULE EtcdRemoval -----------------------------
(****************************************************************************)
(* How a machine leaves.  The bootstrap controller keeps a pre-terminate    *)
(* hook on every etcd machine, so that Cluster API does not tear a deleted  *)
(* one down before no machine is joined to it any more and its etcd member  *)
(* has been removed.  The planner has to make that possible: it moves the   *)
(* mark of the init node, hands out plans that join another server, and     *)
(* gives the wait up when the cluster has lost one of its roles.            *)
(*                                                                          *)
(* Nothing else changes here than who joins whom: what a plan says is which *)
(* server to join.  Budgets and drains are in Rollout, fixed init nodes and *)
(* machines that fail in InitNode.                                          *)
(****************************************************************************)
EXTENDS Naturals, FiniteSets

CONSTANTS
  Machines,      \* all machines there ever are
  Etcd, ControlPlane, Worker,  \* those with each role
  FirstInit,     \* the init node at the start
  FirstServer,   \* what the workers are joined to at the start
  Later,         \* the machines that do not exist at the start
  Order,         \* machine -> its place in what collect returns
  MaxEvents,     \* bound: how often users create and delete something
  MaxFaults      \* bound: how often something goes wrong

Nobody == "nobody"
NoPlan == "none"    \* of a machine without a plan
Found == "-"        \* the plan of an init node joins nobody

ASSUME RemovalAssumption ==
  /\ Etcd \cup ControlPlane \cup Worker = Machines
  /\ Later \subseteq Machines \ {FirstInit, FirstServer}
  /\ FirstInit \in Etcd /\ FirstServer \in ControlPlane
  /\ Order \in [Machines -> Nat]
  /\ \A m, n \in Machines : Order[m] = Order[n] => m = n
  /\ MaxEvents \in Nat /\ MaxFaults \in Nat
  /\ Machines \cap {Nobody, NoPlan, Found} = {}

VARIABLES
  life,      \* machine -> "absent", "new" (no plan secret), "up", "deleting"
             \* or "gone"
  ending,    \* whether the cluster is being deleted
  hooked,    \* the machines with the pre-terminate hook
  forced,    \* those whose bootstrap has the force-remove annotation
  mark,      \* the machine with the init node label, or Nobody
  url,       \* the machines whose plan secret has a join URL
  joined,    \* machine -> what its joined-to annotation names, or Nobody
  plan,      \* machine -> whom its plan joins
  running,   \* machine -> the plan that it has applied
  failed,    \* machine -> the plan that has failed on it
  node,      \* machine -> "none" (no NodeRef), "present", "leaving" (asked to
             \* leave etcd), "left" or "lost" (the node does not exist)
  member,    \* etcd machine -> who founded the etcd cluster it is in
  initialized,  \* of the control plane's status
  pc, view,  \* planner: "idle" or "act", and what it has read
  events, faults  \* how many there have been

secretVars  == <<mark, url, joined, plan>>
machineVars == <<life, ending, hooked, forced>>
nodeVars    == <<running, failed, node, member>>
plannerVars == <<initialized, pc, view>>
vars == <<machineVars, secretVars, nodeVars, plannerVars, events, faults>>

Servers == Etcd \cup ControlPlane
OnlyWorkers == Machines \ Servers
First(ms) == CHOOSE m \in ms : \A n \in ms : Order[m] <= Order[n]
Exists(m) == life[m] \in {"up", "deleting"}

\* A cluster that is provisioned.
Init ==
  LET here == Machines \ Later
      start == [m \in Machines |->
                  IF m \in Later THEN NoPlan ELSE IF m = FirstInit THEN Found
                  ELSE IF m \in Servers THEN FirstInit ELSE FirstServer]
  IN /\ life = [m \in Machines |-> IF m \in Later THEN "absent" ELSE "up"]
     /\ ending = FALSE /\ hooked = Etcd \ Later /\ forced = {}
     /\ mark = FirstInit /\ url = here
     /\ plan = start /\ running = start
     /\ joined = [m \in Machines |->
                    IF start[m] \in Machines THEN start[m] ELSE Nobody]
     /\ failed = [m \in Machines |-> NoPlan]
     /\ node = [m \in Machines |-> IF m \in Later THEN "none" ELSE "present"]
     /\ member = [m \in Machines |->
                    IF m \in Etcd \ Later THEN FirstInit ELSE Nobody]
     /\ initialized = TRUE /\ pc = "idle" /\ view = <<>>
     /\ events = 0 /\ faults = 0

-----------------------------------------------------------------------------
(* The planner.  A round reads and then does the first thing there is to do.*)

Read ==
  /\ pc = "idle"
  /\ pc' = "act"
  /\ view' = [life |-> life, ending |-> ending, mark |-> mark, url |-> url,
              joined |-> joined, plan |-> plan, running |-> running,
              failed |-> failed, node |-> node]
  /\ UNCHANGED <<machineVars, secretVars, nodeVars, initialized>>
  /\ UNCHANGED <<events, faults>>

RoundEnds ==
  /\ pc = "act" /\ pc' = "idle" /\ view' = <<>>
  /\ UNCHANGED <<life, ending, hooked, nodeVars, events, faults>>

Live == {m \in Machines : view.life[m] = "up"}
Deleting == {m \in Machines : view.life[m] = "deleting"}

\* A machine that has gone since it was read ends what a loop does in order.
Reached(ms) ==
  {m \in ms : \A n \in ms : ~Exists(n) => Order[m] < Order[n]}

LeaveEnding ==
  /\ view.ending /\ RoundEnds
  /\ UNCHANGED <<secretVars, forced, initialized>>

\* setMachineJoinURL: an init node that has no API server of its own tells its
\* address once it runs, for the others Cluster API does.
LacksURL ==
  {m \in (Live \cup Deleting) \ view.url :
     IF m = view.mark /\ m \notin ControlPlane THEN view.running[m] # NoPlan
     ELSE view.node[m] # "none"}

RecordURL ==
  /\ \E m \in LacksURL :
       url' = IF Exists(m) THEN url \cup {m} ELSE url
  /\ RoundEnds
  /\ UNCHANGED <<mark, joined, plan, forced, initialized>>

\* clusterIsSane
Sane == \A role \in {Etcd, ControlPlane, Worker} : role \cap Live # {}

\* forceDeleteAllDeletingEtcdMachines, once the status tells that the control
\* plane is not initialized.
GiveUp ==
  /\ ~Sane /\ RoundEnds
  /\ initialized' = FALSE
  /\ forced' = IF initialized THEN forced
               ELSE forced \cup Reached(Etcd \cap Deleting)
  /\ UNCHANGED secretVars

\* No plan has been delivered to any etcd machine that is left.
EtcdReplaced ==
  \A m \in Etcd \cap (Live \cup Deleting) : view.plan[m] = NoPlan

AwaitRestore ==
  /\ Sane /\ EtcdReplaced /\ RoundEnds
  /\ UNCHANGED <<secretVars, forced, initialized>>

Reconciling == Sane /\ ~EtcdReplaced

\* canBeInitNode, and findInitNode.
Candidates == Etcd \cap Live

\* (mutant) A deleted machine stays init node.
HasInitNodeMutant == view.mark \in Candidates \cup Deleting

HasInitNode ==
  /\ view.mark \in Candidates
  /\ view.mark \in view.url \/ Candidates \cap view.url = {}

ClearMark ==
  /\ Reconciling /\ ~HasInitNode /\ view.mark # Nobody /\ RoundEnds
  /\ mark' = IF Exists(view.mark) THEN Nobody ELSE mark
  /\ UNCHANGED <<url, joined, plan, forced, initialized>>

Elect ==
  /\ Reconciling /\ ~HasInitNode /\ view.mark = Nobody /\ RoundEnds
  /\ LET suited == Candidates \cap view.url
         m == First(IF suited # {} THEN suited ELSE Candidates)
     IN mark' = IF Exists(m) THEN m ELSE mark
  /\ UNCHANGED <<url, joined, plan, forced, initialized>>

\* determineJoinURL: a worker stays with its server while that is valid.
ValidServers == Live \cap view.url \cap (ControlPlane \cup {view.mark})
Available == Live \cap view.url \cap ControlPlane

\* (mutant) A worker never changes its server.
JoinsMutant(m) ==
  IF m = view.mark THEN {Found}
  ELSE IF m \in Servers THEN {view.mark}
  ELSE IF view.joined[m] # Nobody THEN {view.joined[m]} ELSE Available

Joins(m) ==
  IF m = view.mark THEN {Found}
  ELSE IF m \in Servers THEN {view.mark}
  ELSE IF view.joined[m] \in ValidServers THEN {view.joined[m]}
  ELSE Available

\* The tiers of fullReconcile, of machines that are not being deleted; what
\* a tier needs besides that the tiers before it are done.
Tiers ==
  LET rest(role) == (role \cap Live) \ {view.mark}
  IN <<{view.mark}, rest(Etcd), rest(ControlPlane), rest(OnlyWorkers)>>
MayTurnTo(t) ==
  /\ t > 1 => view.mark \in view.url
  /\ t > 3 => Available # {} /\ initialized

InSync(m) == view.plan[m] = view.running[m]
Outdated(m) == view.plan[m] \notin Joins(m)
Behind(tier) == {m \in tier : Outdated(m) \/ ~InSync(m)}

\* First plans at once, then one machine at a time and those whose plan has
\* failed.
Turned(tier) ==
  LET old == {m \in tier : Outdated(m) /\ view.plan[m] # NoPlan}
      planned == {m \in tier : view.plan[m] # NoPlan}
  IN {m \in tier : view.plan[m] = NoPlan}
     \cup {m \in old : view.failed[m] = view.plan[m]}
     \cup (IF old # {} /\ \A m \in planned : InSync(m)
           THEN {First(old)} ELSE {})

\* (mutant) What an init node was joined to stays in its annotations.
JoinedToMutant(old, p) == IF p \in Machines THEN p ELSE old

\* UpdatePlan
JoinedTo(old, p) == IF p \in Machines THEN p ELSE Nobody

Deliver ==
  /\ Reconciling /\ HasInitNode /\ RoundEnds
  /\ \E t \in DOMAIN Tiers :
       /\ Behind(Tiers[t]) # {} /\ MayTurnTo(t)
       /\ \A u \in 1..(t - 1) : Behind(Tiers[u]) = {}
       /\ LET ms == Reached(Turned(Tiers[t]))
          IN \E pick \in [ms -> Machines \cup {Found}] :
               /\ \A m \in ms : pick[m] \in Joins(m)
               /\ plan' = [m \in Machines |->
                             IF m \in ms THEN pick[m] ELSE plan[m]]
               /\ joined' = [m \in Machines |->
                    IF m \in ms THEN JoinedTo(joined[m], pick[m]) ELSE joined[m]]
  /\ UNCHANGED <<mark, url, forced, initialized>>

MarkInitialized ==
  /\ Reconciling /\ HasInitNode /\ view.mark \in view.url /\ RoundEnds
  /\ \A t \in 1..3 : Behind(Tiers[t]) = {}
  /\ Available # {} /\ ~initialized /\ initialized' = TRUE
  /\ UNCHANGED <<secretVars, forced>>

\* It waits for a URL, or has nothing to do.
Rest ==
  /\ Reconciling /\ HasInitNode /\ RoundEnds
  /\ \A t \in DOMAIN Tiers :
       MayTurnTo(t) => Behind(Tiers[t]) = {}
  /\ view.mark \in view.url /\ Available # {} => initialized
  /\ UNCHANGED <<secretVars, forced, initialized>>

PlannerActs ==
  /\ pc = "act"
  /\ \/ LeaveEnding
     \/ ~view.ending /\ RecordURL
     \/ /\ ~view.ending /\ LacksURL = {}
        /\ \/ GiveUp \/ AwaitRestore \/ ClearMark \/ Elect
           \/ Deliver \/ MarkInitialized \/ Rest

-----------------------------------------------------------------------------
(* The bootstrap controller: reconcileMachinePreTerminateAnnotation.        *)

BootstrapOnly ==
  UNCHANGED <<life, ending, forced, secretVars, running, failed, member,
              plannerVars, events, faults>>

SetHook(m) ==
  /\ m \in Etcd \ (forced \cup hooked) /\ life[m] \in {"new", "up"}
  /\ hooked' = hooked \cup {m}
  /\ BootstrapOnly /\ UNCHANGED node

\* Nothing is waited for.
DropHook(m) ==
  /\ m \in hooked
  /\ \/ m \in forced
     \/ life[m] = "deleting" /\ (ending \/ node[m] = "none")
  /\ hooked' = hooked \ {m}
  /\ BootstrapOnly /\ UNCHANGED node

\* The API of the downstream cluster answers.
Answers == \E m \in ControlPlane : Exists(m) /\ running[m] # NoPlan

\* The URL of a machine that has none is that of all who joined nobody.
NobodyJoined(m) ==
  \A n \in Machines : Exists(n) =>
    joined[n] # (IF m \in url THEN m ELSE Nobody)

MayLeave(m) ==
  /\ m \in hooked \ forced /\ life[m] = "deleting" /\ ~ending
  /\ node[m] # "none" /\ NobodyJoined(m) /\ Answers

\* SafelyRemoved asks the node to leave etcd, and later whether it has.
AskToLeave(m) ==
  /\ MayLeave(m) /\ node[m] = "present"
  /\ node' = [node EXCEPT ![m] = "leaving"]
  /\ BootstrapOnly /\ UNCHANGED hooked

\* (mutant) A member that has been asked to leave counts as removed.
SafelyRemovedMutant(m) == node[m] \in {"leaving", "left", "lost"}

SafelyRemoved(m) == node[m] \in {"left", "lost"}

Release(m) ==
  /\ MayLeave(m) /\ SafelyRemoved(m)
  /\ hooked' = hooked \ {m}
  /\ BootstrapOnly /\ UNCHANGED node

\* GeneratingHandler, assignPlanSecret
AssignPlanSecret(m) ==
  /\ life[m] = "new" /\ life' = [life EXCEPT ![m] = "up"]
  /\ UNCHANGED <<ending, hooked, forced, secretVars, nodeVars, plannerVars>>
  /\ UNCHANGED <<events, faults>>

BootstrapActs(m) ==
  SetHook(m) \/ DropHook(m) \/ AskToLeave(m) \/ Release(m)
  \/ AssignPlanSecret(m)

-----------------------------------------------------------------------------
(* Users, Cluster API, the system-agent and the runtime.                    *)

Event == events < MaxEvents /\ events' = events + 1
Fault == faults < MaxFaults /\ faults' = faults + 1

Create(m) ==
  /\ Event /\ life[m] = "absent" /\ life' = [life EXCEPT ![m] = "new"]
  /\ UNCHANGED <<ending, hooked, forced, secretVars, nodeVars, plannerVars>>
  /\ UNCHANGED faults

Delete(m) ==
  /\ Event /\ life[m] = "up" /\ life' = [life EXCEPT ![m] = "deleting"]
  /\ UNCHANGED <<ending, hooked, forced, secretVars, nodeVars, plannerVars>>
  /\ UNCHANGED faults

DeleteCluster ==
  /\ Event /\ ~ending /\ ending' = TRUE
  /\ UNCHANGED <<life, hooked, forced, secretVars, nodeVars, plannerVars>>
  /\ UNCHANGED faults

\* Everything that belongs to the machine goes with it.  What remains is what
\* others have of it: an etcd member, the plans that join it.
Terminate(m) ==
  /\ life[m] = "deleting" /\ m \notin hooked
  /\ life' = [life EXCEPT ![m] = "gone"]
  /\ mark' = (IF mark = m THEN Nobody ELSE mark) /\ url' = url \ {m}
  /\ joined' = [joined EXCEPT ![m] = Nobody]
  /\ plan' = [plan EXCEPT ![m] = NoPlan]
  /\ running' = [running EXCEPT ![m] = NoPlan]
  /\ failed' = [failed EXCEPT ![m] = NoPlan]
  /\ UNCHANGED <<ending, hooked, forced, node, member, plannerVars>>
  /\ UNCHANGED <<events, faults>>

\* A server can be joined while it runs.
CanApply(m) ==
  \/ plan[m] = Found
  \/ plan[m] \in Machines /\ Exists(plan[m]) /\ running[plan[m]] # NoPlan
Working(m) == Exists(m) /\ running[m] # plan[m]

Apply(m) ==
  /\ Working(m) /\ CanApply(m)
  /\ running' = [running EXCEPT ![m] = plan[m]]
  /\ failed' = [failed EXCEPT ![m] = NoPlan]
  /\ member' = IF m \in Etcd /\ member[m] = Nobody /\ node[m] = "none"
               THEN [member EXCEPT
                       ![m] = IF plan[m] = Found THEN m ELSE member[plan[m]]]
               ELSE member
  /\ UNCHANGED <<machineVars, secretVars, node, plannerVars, events, faults>>

Fails(m) ==
  /\ Working(m) /\ failed[m] # plan[m]
  /\ IF CanApply(m) THEN Fault ELSE UNCHANGED faults
  /\ failed' = [failed EXCEPT ![m] = plan[m]]
  /\ UNCHANGED <<machineVars, secretVars, running, node, member, plannerVars>>
  /\ UNCHANGED events

Register(m) ==
  /\ Exists(m) /\ running[m] # NoPlan /\ node[m] = "none"
  /\ node' = [node EXCEPT ![m] = "present"]
  /\ UNCHANGED <<machineVars, secretVars, running, failed, member>>
  /\ UNCHANGED <<plannerVars, events, faults>>

\* Members of the same etcd cluster; the last one cannot leave it.
Mates(m) == {n \in Machines \ {m} : member[n] = member[m]}

Leave(m) ==
  /\ node[m] = "leaving" /\ Exists(m) /\ Mates(m) # {}
  /\ node' = [node EXCEPT ![m] = "left"]
  /\ member' = [member EXCEPT ![m] = Nobody]
  /\ UNCHANGED <<machineVars, secretVars, running, failed, plannerVars>>
  /\ UNCHANGED <<events, faults>>

LoseNode(m) ==
  /\ Fault /\ node[m] \in {"present", "leaving"} /\ Exists(m)
  /\ node' = [node EXCEPT ![m] = "lost"]
  /\ UNCHANGED <<machineVars, secretVars, running, failed, member>>
  /\ UNCHANGED <<plannerVars, events>>

Agents(m) == Apply(m) \/ Fails(m) \/ Register(m) \/ Leave(m) \/ Terminate(m)

Next ==
  \/ Read \/ PlannerActs \/ DeleteCluster
  \/ \E m \in Machines :
       BootstrapActs(m) \/ Agents(m) \/ LoseNode(m) \/ Create(m) \/ Delete(m)

Spec == Init /\ [][Next]_vars

\* The controllers are called again until they have nothing to do, agents
\* poll, and what does not depend on this code gets done in the end.
Fairness ==
  /\ WF_vars(Read \/ PlannerActs)
  /\ \A m \in Machines : WF_vars(BootstrapActs(m)) /\ WF_vars(Agents(m))

FairSpec == Spec /\ Fairness

-----------------------------------------------------------------------------
Plans == Machines \cup {Found, NoPlan}

\* Every variable has its type, and the joined-to annotation of a plan secret
\* names the server that the plan in it joins.
TypeOK ==
  /\ life \in [Machines -> {"absent", "new", "up", "deleting", "gone"}]
  /\ ending \in BOOLEAN /\ hooked \subseteq Etcd /\ forced \subseteq Etcd
  /\ mark \in Etcd \cup {Nobody} /\ url \subseteq Machines
  /\ joined = [m \in Machines |-> JoinedTo(Nobody, plan[m])]
  /\ plan \in [Machines -> Plans] /\ running \in [Machines -> Plans]
  /\ failed \in [Machines -> Plans]
  /\ node \in [Machines -> {"none", "present", "leaving", "left", "lost"}]
  /\ member \in [Machines -> Etcd \cup {Nobody}]
  /\ initialized \in BOOLEAN /\ pc \in {"idle", "act"}
  /\ events \in 0..MaxEvents /\ faults \in 0..MaxFaults

\* The hook of an etcd machine that is deleted is taken off only when its
\* etcd member is out, and when every machine that still runs joined to it has
\* a plan to join another; unless the cluster is given up, or nobody knows the
\* node of the machine.
Released ==
  [][\A m \in hooked \ hooked' :
       \/ m \in forced \/ ending \/ node[m] \in {"none", "lost"}
       \/ /\ member[m] = Nobody
          /\ \A n \in Machines : running[n] = m => plan[n] # m]_vars

\* The machines that are deleted go in the end, whoever was joined to them;
\* only the last member of an etcd cluster stays.
Goes ==
  <>[](\A m \in Machines : life[m] = "deleting" => Mates(m) = {})

\* In the end nobody runs joined to a machine that is gone; unless the cluster
\* is being deleted, has lost one of its roles or has to be restored.
Rejoins ==
  <>[](\/ ending
       \/ \E role \in {Etcd, ControlPlane, Worker} :
            \A m \in role : life[m] # "up"
       \/ \A m \in Etcd : Exists(m) => plan[m] = NoPlan
       \/ \A m \in Machines : Exists(m) /\ running[m] \in Machines
              => life[running[m]] # "gone")

=============================================================================
