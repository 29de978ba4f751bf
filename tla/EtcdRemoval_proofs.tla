-------------------------- MODULE EtcdRemoval_proofs --------------------------
(****************************************************************************)
(* Proofs about EtcdRemoval, for any machines, roles and order of them.     *)
(****************************************************************************)
EXTENDS EtcdRemoval, LeastElements, TLAPS

-----------------------------------------------------------------------------
(* The inductive invariant.                                                 *)

\* What a plan joins had told its address.  The URL of a machine goes only with
\* the machine, so that it still has it or is gone; and only a machine that
\* exists has a plan.
PlansJoinKnown ==
  \A m \in Machines :
    /\ plan[m] \in Machines =>
         plan[m] \in url \/ life[plan[m]] = "gone"
    /\ ~Exists(m) => plan[m] = NoPlan

\* A machine that has left etcd does not come back to it.
LeftIsOut == \A m \in Machines : node[m] = "left" => member[m] = Nobody

\* What a round has read of the init node and of the addresses.
RoundKnows ==
  pc = "act" =>
    /\ view.mark \in Etcd \cup {Nobody}
    /\ view.url \subseteq Machines
    /\ \A m \in view.url : m \in url \/ life[m] = "gone"

IInv == TypeOK /\ PlansJoinKnown /\ LeftIsOut /\ RoundKnows

-----------------------------------------------------------------------------
(* Helpers.                                                                 *)

LEMMA RolesAreMachines ==
  /\ Etcd \subseteq Machines /\ ControlPlane \subseteq Machines
  /\ Servers \subseteq Machines
  BY RemovalAssumption DEF Servers

LEMMA NotMachines ==
  /\ Nobody \notin Machines /\ NoPlan \notin Machines /\ Found \notin Machines
  /\ Nobody # NoPlan /\ Nobody # Found /\ NoPlan # Found
  BY RemovalAssumption DEF Nobody, NoPlan, Found

\* The first machine of a set is one of them.
LEMMA FirstIn ==
  ASSUME NEW ms \in SUBSET Machines, ms # {}
  PROVE  First(ms) \in ms
<1>1. \E m \in ms : \A n \in ms : Order[m] <= Order[n]
  BY RemovalAssumption, LeastExists
<1>2. QED
  BY <1>1 DEF First

\* A loop that stops at the first machine that has gone reaches none of those.
LEMMA ReachedExist ==
  ASSUME NEW ms \in SUBSET Machines, NEW m \in Reached(ms)
  PROVE  m \in ms /\ Exists(m)
  BY RemovalAssumption DEF Reached

LEMMA JoinsKnown ==
  ASSUME IInv, pc = "act", HasInitNode,
         NEW m \in Machines, NEW k \in Joins(m),
         m # view.mark => view.mark \in view.url
  PROVE  k = Found \/ k \in view.url
  BY DEF Joins, ValidServers, Available

\* Tiers are of machines that are alive, or of the init node.
LEMMA TiersOfMachines ==
  ASSUME HasInitNode, NEW t \in DOMAIN Tiers
  PROVE  /\ Tiers[t] \subseteq Machines
         /\ t = 1 => Tiers[t] = {view.mark}
         /\ t \in 1..4
<1>1. view.mark \in Machines
  BY DEF HasInitNode, Candidates, Live
<1>2. t \in 1..4
  BY DEF Tiers
<1>3. QED
  BY <1>1, <1>2 DEF Tiers, Live

LEMMA TurnedInTier ==
  ASSUME NEW tier \in SUBSET Machines
  PROVE  Turned(tier) \subseteq tier
<1> DEFINE old == {m \in tier : Outdated(m) /\ view.plan[m] # NoPlan}
<1>1. old # {} => First(old) \in old
  BY FirstIn
<1>2. QED
  BY <1>1 DEF Turned

\* A plan that is delivered joins nobody, or a server of which the round had
\* read the address; and it is of a machine that exists.
LEMMA DeliverKnown ==
  ASSUME IInv, pc = "act", Deliver
  PROVE  /\ plan' \in [Machines -> Plans]
         /\ joined' = [m \in Machines |-> JoinedTo(Nobody, plan'[m])]
         /\ \A m \in Machines : plan'[m] # plan[m] =>
              Exists(m) /\ (plan'[m] = Found \/ plan'[m] \in view.url)
<1>1. PICK t \in DOMAIN Tiers :
        /\ MayTurnTo(t)
        /\ \E pick \in [Reached(Turned(Tiers[t])) -> Machines \cup {Found}] :
             /\ \A m \in Reached(Turned(Tiers[t])) : pick[m] \in Joins(m)
             /\ plan' = [m \in Machines |->
                           IF m \in Reached(Turned(Tiers[t]))
                           THEN pick[m] ELSE plan[m]]
             /\ joined' = [m \in Machines |->
                             IF m \in Reached(Turned(Tiers[t]))
                             THEN JoinedTo(joined[m], pick[m]) ELSE joined[m]]
  BY DEF Deliver
<1> DEFINE ms == Reached(Turned(Tiers[t]))
<1>2. PICK pick \in [ms -> Machines \cup {Found}] :
        /\ \A m \in ms : pick[m] \in Joins(m)
        /\ plan' = [m \in Machines |-> IF m \in ms THEN pick[m] ELSE plan[m]]
        /\ joined' = [m \in Machines |->
                        IF m \in ms THEN JoinedTo(joined[m], pick[m])
                        ELSE joined[m]]
  BY <1>1
<1>3. HasInitNode
  BY DEF Deliver
<1>4. Tiers[t] \subseteq Machines /\ t \in 1..4
      /\ (t = 1 => Tiers[t] = {view.mark})
  BY <1>3, TiersOfMachines
<1>5. Turned(Tiers[t]) \subseteq Tiers[t]
  BY <1>4, TurnedInTier
<1>6. \A m \in ms : m \in Tiers[t] /\ Exists(m)
  BY <1>4, <1>5, ReachedExist
<1>7. \A m \in ms : m # view.mark => view.mark \in view.url
  BY <1>1, <1>4, <1>6 DEF MayTurnTo
<1>8. \A m \in ms : pick[m] = Found \/ pick[m] \in view.url
  BY <1>2, <1>3, <1>4, <1>6, <1>7, JoinsKnown
<1>9. plan \in [Machines -> Plans]
      /\ joined = [m \in Machines |-> JoinedTo(Nobody, plan[m])]
  BY DEF IInv, TypeOK
<1> HIDE DEF ms
<1>10. plan' \in [Machines -> Plans]
  BY <1>2, <1>9 DEF Plans
<1>11. joined' = [m \in Machines |-> JoinedTo(Nobody, plan'[m])]
  <2>1. \A m \in Machines : joined'[m] = JoinedTo(Nobody, plan'[m])
    <3>1. TAKE m \in Machines
    <3>2. CASE m \in ms
      <4>1. pick[m] \in Machines \cup {Found}
        BY <1>2, <3>2
      <4>2. joined'[m] = JoinedTo(joined[m], pick[m]) /\ plan'[m] = pick[m]
        BY <1>2, <3>2
      <4>3. CASE pick[m] \in Machines
        BY <4>2, <4>3 DEF JoinedTo
      <4>4. CASE pick[m] \notin Machines
        BY <4>2, <4>4 DEF JoinedTo
      <4>5. QED
        BY <4>3, <4>4
    <3>3. CASE m \notin ms
      BY <1>2, <1>9, <3>3
    <3>4. QED
      BY <3>2, <3>3
  <2>2. QED
    BY <1>2, <2>1, Zenon
<1>12. QED
  BY <1>2, <1>6, <1>8, <1>10, <1>11

-----------------------------------------------------------------------------
(* The invariant.                                                           *)

LEMMA InitIInv == Init => IInv
<1>1. SUFFICES ASSUME Init PROVE IInv
  OBVIOUS
<1> USE RemovalAssumption, NotMachines
<1>2. TypeOK
  <2> DEFINE start == [m \in Machines |->
                         IF m \in Later THEN NoPlan
                         ELSE IF m = FirstInit THEN Found
                         ELSE IF m \in Servers THEN FirstInit ELSE FirstServer]
  <2>1. plan = start /\ running = start
        /\ joined = [m \in Machines |->
                       IF start[m] \in Machines THEN start[m] ELSE Nobody]
    BY <1>1 DEF Init
  <2>2. start \in [Machines -> Plans]
    BY DEF Plans
  <2>3. joined = [m \in Machines |-> JoinedTo(Nobody, plan[m])]
    BY <2>1, Zenon DEF JoinedTo
  <2>4. failed \in [Machines -> Plans]
    BY <1>1 DEF Init, Plans
  <2>5. member \in [Machines -> Etcd \cup {Nobody}]
    BY <1>1 DEF Init
  <2>6. /\ life \in [Machines -> {"absent", "new", "up", "deleting", "gone"}]
        /\ node \in
             [Machines -> {"none", "present", "leaving", "left", "lost"}]
    BY <1>1 DEF Init
  <2>7. /\ ending \in BOOLEAN /\ initialized \in BOOLEAN
        /\ pc \in {"idle", "act"}
    BY <1>1, Zenon DEF Init
  <2>8. /\ hooked \subseteq Etcd /\ forced \subseteq Etcd
        /\ mark \in Etcd \cup {Nobody} /\ url \subseteq Machines
    BY <1>1 DEF Init
  <2>9. events \in 0..MaxEvents /\ faults \in 0..MaxFaults
    <3>1. events = 0 /\ faults = 0
      BY <1>1 DEF Init
    <3>2. QED
      BY <3>1
  <2> HIDE DEF start
  <2>10. QED
    BY <2>1, <2>2, <2>3, <2>4, <2>5, <2>6, <2>7, <2>8, <2>9 DEF TypeOK
<1>3. PlansJoinKnown
  BY <1>1, RolesAreMachines DEF Init, PlansJoinKnown, Exists
<1>4. LeftIsOut
  BY <1>1 DEF Init, LeftIsOut
<1>5. RoundKnows
  BY <1>1 DEF Init, RoundKnows
<1>6. QED
  BY <1>2, <1>3, <1>4, <1>5 DEF IInv

\* What holds as long as machines only go, plans and URLs are let be, and no
\* machine joins etcd.
LEMMA StillKnown ==
  ASSUME IInv, UNCHANGED <<plan, url, node, member>>,
         \A m \in Machines : Exists(m) => Exists(m)',
         \A m \in Machines : life[m] = "gone" => life'[m] = "gone"
  PROVE  PlansJoinKnown' /\ LeftIsOut'
<1>1. PlansJoinKnown'
  BY DEF IInv, PlansJoinKnown
<1>2. LeftIsOut'
  BY DEF IInv, LeftIsOut
<1>3. QED
  BY <1>1, <1>2

LEMMA ReadIInv == ASSUME IInv, Read PROVE IInv'
<1>1. UNCHANGED <<life, ending, hooked, forced, secretVars, nodeVars,
                  initialized, events, faults>>
  BY DEF Read, machineVars
<1>2. TypeOK'
  BY <1>1 DEF IInv, TypeOK, Read, secretVars, nodeVars, JoinedTo, Plans
<1>3. PlansJoinKnown' /\ LeftIsOut'
  BY <1>1, StillKnown DEF secretVars, nodeVars, Exists
<1>4. view'.mark = mark /\ view'.url = url
  BY DEF Read
<1>5. RoundKnows'
  BY <1>1, <1>4 DEF IInv, RoundKnows, TypeOK, secretVars
<1>6. QED
  BY <1>2, <1>3, <1>5 DEF IInv

LEMMA PlannerIInv == ASSUME IInv, PlannerActs PROVE IInv'
<1> USE RolesAreMachines, NotMachines
<1>1. pc = "act"
  BY DEF PlannerActs
<1>2. RoundEnds
  BY DEF PlannerActs, LeaveEnding, RecordURL, GiveUp, AwaitRestore, ClearMark,
         Elect, Deliver, MarkInitialized, Rest
<1>3. /\ UNCHANGED <<life, ending, hooked, running, failed, node, member>>
      /\ UNCHANGED <<events, faults>>
      /\ pc' = "idle"
  BY <1>2 DEF RoundEnds, nodeVars
<1>4. RoundKnows'
  BY <1>3 DEF RoundKnows
<1>5. LeftIsOut'
  BY <1>3 DEF IInv, LeftIsOut
<1>6. forced' \subseteq Etcd /\ initialized' \in BOOLEAN
  <2>1. CASE GiveUp
    <3>1. Reached(Etcd \cap Deleting) \subseteq Etcd
      BY DEF Reached
    <3>2. QED
      BY <2>1, <3>1 DEF GiveUp, IInv, TypeOK
  <2>2. CASE UNCHANGED forced /\ (initialized' = initialized \/ initialized')
    BY <2>2, <1>3 DEF IInv, TypeOK
  <2>3. QED
    BY <2>1, <2>2 DEF PlannerActs, LeaveEnding, RecordURL, AwaitRestore,
       ClearMark, Elect, Deliver, MarkInitialized, Rest
<1>7. mark' \in Etcd \cup {Nobody}
  <2>1. CASE Elect
    <3>1. Candidates # {} /\ Candidates \subseteq Etcd
      BY <2>1 DEF Elect, Reconciling, Sane, Candidates
    <3>2. \A ms \in SUBSET Candidates : ms # {} => First(ms) \in Etcd
      BY <3>1, FirstIn
    <3>3. QED
      BY <2>1, <3>1, <3>2 DEF Elect, IInv, TypeOK
  <2>2. CASE mark' \in {mark, Nobody}
    BY <2>2 DEF IInv, TypeOK
  <2>3. QED
    BY <2>1, <2>2 DEF PlannerActs, LeaveEnding, RecordURL, GiveUp,
       AwaitRestore, ClearMark, Deliver, MarkInitialized, Rest, secretVars
<1>8. url' \subseteq Machines /\ url \subseteq url'
  <2>1. CASE RecordURL
    BY <2>1 DEF RecordURL, LacksURL, Live, Deleting, IInv, TypeOK
  <2>2. CASE UNCHANGED url
    BY <2>2 DEF IInv, TypeOK
  <2>3. QED
    BY <2>1, <2>2 DEF PlannerActs, LeaveEnding, GiveUp, AwaitRestore,
       ClearMark, Elect, Deliver, MarkInitialized, Rest, secretVars
<1>9. /\ plan' \in [Machines -> Plans]
      /\ joined' = [m \in Machines |-> JoinedTo(Nobody, plan'[m])]
      /\ \A m \in Machines : plan'[m] # plan[m] =>
           Exists(m) /\ (plan'[m] = Found \/ plan'[m] \in view.url)
  <2>1. CASE Deliver
    BY <1>1, <2>1, DeliverKnown
  <2>2. CASE UNCHANGED <<plan, joined>>
    BY <2>2 DEF IInv, TypeOK
  <2>3. QED
    BY <2>1, <2>2 DEF PlannerActs, LeaveEnding, RecordURL, GiveUp,
       AwaitRestore, ClearMark, Elect, MarkInitialized, Rest, secretVars
<1>10. TypeOK'
  BY <1>3, <1>6, <1>7, <1>8, <1>9 DEF IInv, TypeOK
<1>11. PlansJoinKnown'
  <2>1. SUFFICES ASSUME NEW m \in Machines
                 PROVE  /\ plan'[m] \in Machines =>
                             \/ plan'[m] \in url'
                             \/ life'[plan'[m]] = "gone"
                        /\ life'[m] \notin {"up", "deleting"} =>
                             plan'[m] = NoPlan
    BY DEF PlansJoinKnown, Exists
  <2>2. CASE plan'[m] = plan[m]
    BY <1>3, <1>8, <2>2 DEF IInv, PlansJoinKnown, Exists
  <2>3. CASE plan'[m] # plan[m]
    BY <1>1, <1>3, <1>8, <1>9, <2>3 DEF IInv, RoundKnows, Exists
  <2>4. QED
    BY <2>2, <2>3
<1>12. QED
  BY <1>4, <1>5, <1>10, <1>11 DEF IInv

LEMMA BootstrapIInv ==
  ASSUME IInv, NEW m \in Machines, BootstrapActs(m)
  PROVE  IInv'
<1>1. CASE SetHook(m) \/ DropHook(m) \/ Release(m)
  <2>1. /\ UNCHANGED <<life, ending, forced, secretVars, nodeVars, plannerVars>>
        /\ UNCHANGED <<events, faults>> /\ hooked' \subseteq Etcd
    BY <1>1 DEF SetHook, DropHook, Release, BootstrapOnly, IInv, TypeOK,
                nodeVars
  <2>2. TypeOK'
    BY <2>1 DEF IInv, TypeOK, secretVars, nodeVars, plannerVars
  <2>3. PlansJoinKnown' /\ LeftIsOut' /\ RoundKnows'
    BY <2>1 DEF IInv, PlansJoinKnown, LeftIsOut, RoundKnows, Exists,
                secretVars, nodeVars, plannerVars
  <2>4. QED
    BY <2>2, <2>3 DEF IInv
<1>2. CASE AskToLeave(m)
  <2>1. /\ UNCHANGED <<life, ending, hooked, forced, secretVars, plannerVars>>
        /\ UNCHANGED <<running, failed, member, events, faults>>
        /\ node' = [node EXCEPT ![m] = "leaving"]
    BY <1>2 DEF AskToLeave, BootstrapOnly
  <2>2. TypeOK'
    BY <2>1 DEF IInv, TypeOK, secretVars, plannerVars
  <2>3. PlansJoinKnown' /\ LeftIsOut' /\ RoundKnows'
    BY <2>1 DEF IInv, TypeOK, PlansJoinKnown, LeftIsOut, RoundKnows, Exists,
                secretVars, plannerVars
  <2>4. QED
    BY <2>2, <2>3 DEF IInv
<1>3. CASE AssignPlanSecret(m)
  <2>1. /\ UNCHANGED <<ending, hooked, forced, secretVars, nodeVars>>
        /\ UNCHANGED <<plannerVars, events, faults>>
        /\ life[m] = "new" /\ life' = [life EXCEPT ![m] = "up"]
    BY <1>3 DEF AssignPlanSecret
  <2>2. TypeOK'
    BY <2>1 DEF IInv, TypeOK, secretVars, nodeVars, plannerVars
  <2>3. PlansJoinKnown' /\ LeftIsOut' /\ RoundKnows'
    BY <2>1 DEF IInv, TypeOK, PlansJoinKnown, LeftIsOut, RoundKnows, Exists,
                secretVars, nodeVars, plannerVars
  <2>4. QED
    BY <2>2, <2>3 DEF IInv
<1>4. QED
  BY <1>1, <1>2, <1>3 DEF BootstrapActs

\* Users create and delete; what exists goes on doing so.
LEMMA EventIInv ==
  ASSUME IInv, NEW m \in Machines, Create(m) \/ Delete(m) \/ DeleteCluster
  PROVE  IInv'
<1>1. /\ UNCHANGED <<hooked, forced, secretVars, nodeVars, plannerVars, faults>>
      /\ Event
  BY DEF Create, Delete, DeleteCluster
<1>2. events' \in 0..MaxEvents
  BY <1>1, RemovalAssumption DEF Event, IInv, TypeOK
<1>3. \/ UNCHANGED ending /\ life[m] \in {"absent", "up"}
         /\ \E l \in {"new", "deleting"} : life' = [life EXCEPT ![m] = l]
         /\ (life'[m] = "new" => life[m] = "absent")
      \/ ending' = TRUE /\ UNCHANGED life
  BY DEF Create, Delete, DeleteCluster, IInv, TypeOK
<1>4. /\ life' \in [Machines -> {"absent", "new", "up", "deleting", "gone"}]
      /\ ending' \in BOOLEAN
      /\ \A n \in Machines :
           /\ life[n] = "gone" => life'[n] = "gone"
           /\ Exists(n) => Exists(n)'
  <2>1. CASE UNCHANGED life
    BY <1>3, <2>1 DEF IInv, TypeOK, Exists
  <2>2. CASE Create(m) \/ Delete(m)
    BY <2>2 DEF Create, Delete, IInv, TypeOK, Exists
  <2>3. QED
    BY <2>1, <2>2 DEF DeleteCluster
<1>5. TypeOK'
  BY <1>1, <1>2, <1>4 DEF IInv, TypeOK, secretVars, nodeVars, plannerVars
<1>6. PlansJoinKnown' /\ LeftIsOut'
  BY <1>1, <1>4, StillKnown DEF secretVars, nodeVars
<1>7. RoundKnows'
  BY <1>1, <1>4 DEF IInv, RoundKnows, secretVars, plannerVars
<1>8. QED
  BY <1>5, <1>6, <1>7 DEF IInv

\* Only here does something lose its URL.
LEMMA TerminateIInv ==
  ASSUME IInv, NEW m \in Machines, Terminate(m)
  PROVE  IInv'
<1> USE NotMachines
<1>1. /\ life' = [life EXCEPT ![m] = "gone"]
      /\ mark' \in {mark, Nobody} /\ url' = url \ {m}
      /\ joined' = [joined EXCEPT ![m] = Nobody]
      /\ plan' = [plan EXCEPT ![m] = NoPlan]
      /\ running' = [running EXCEPT ![m] = NoPlan]
      /\ failed' = [failed EXCEPT ![m] = NoPlan]
      /\ UNCHANGED <<ending, hooked, forced, node, member, plannerVars>>
      /\ UNCHANGED <<events, faults>>
  BY DEF Terminate
<1>2. joined' = [k \in Machines |-> JoinedTo(Nobody, plan'[k])]
  <2>1. /\ joined = [k \in Machines |-> JoinedTo(Nobody, plan[k])]
        /\ plan \in [Machines -> Plans]
    BY DEF IInv, TypeOK
  <2>2. \A k \in Machines : joined'[k] = JoinedTo(Nobody, plan'[k])
    BY <1>1, <2>1 DEF JoinedTo
  <2>3. joined' = [k \in Machines |-> joined'[k]]
    BY <1>1, <2>1
  <2>4. QED
    BY <2>2, <2>3
<1>3. TypeOK'
  BY <1>1, <1>2 DEF IInv, TypeOK, Plans, plannerVars
<1>4. PlansJoinKnown'
  BY <1>1 DEF IInv, TypeOK, PlansJoinKnown, Exists
<1>5. LeftIsOut'
  BY <1>1 DEF IInv, LeftIsOut
<1>6. RoundKnows'
  BY <1>1 DEF IInv, TypeOK, RoundKnows, plannerVars
<1>7. QED
  BY <1>3, <1>4, <1>5, <1>6 DEF IInv

LEMMA ApplyIInv ==
  ASSUME IInv, NEW m \in Machines, Apply(m)
  PROVE  IInv'
<1>1. /\ UNCHANGED <<life, ending, hooked, forced, secretVars, node>>
      /\ UNCHANGED <<plannerVars, events, faults>>
  BY DEF Apply, machineVars
<1>2. running' \in [Machines -> Plans] /\ failed' \in [Machines -> Plans]
  BY DEF Apply, IInv, TypeOK, Plans
<1>3. /\ member' \in [Machines -> Etcd \cup {Nobody}]
      /\ \A k \in Machines : node[k] # "none" => member'[k] = member[k]
  <2>1. CASE UNCHANGED member
    BY <2>1 DEF IInv, TypeOK
  <2>2. CASE member' # member
    <3>1. /\ m \in Etcd /\ node[m] = "none"
          /\ member' = [member EXCEPT
                 ![m] = IF plan[m] = Found THEN m ELSE member[plan[m]]]
      BY <2>2 DEF Apply
    <3>2. plan[m] = Found \/ plan[m] \in Machines
      BY DEF Apply, CanApply
    <3>3. QED
      BY <3>1, <3>2 DEF IInv, TypeOK
  <2>3. QED
    BY <2>1, <2>2
<1>4. TypeOK'
  BY <1>1, <1>2, <1>3 DEF IInv, TypeOK, secretVars, plannerVars
<1>5. LeftIsOut'
  BY <1>1, <1>3 DEF IInv, LeftIsOut
<1>6. PlansJoinKnown' /\ RoundKnows'
  BY <1>1 DEF IInv, PlansJoinKnown, RoundKnows, Exists, secretVars, plannerVars
<1>7. QED
  BY <1>4, <1>5, <1>6 DEF IInv

LEMMA NodeIInv ==
  ASSUME IInv, NEW m \in Machines,
         Fails(m) \/ Register(m) \/ Leave(m) \/ LoseNode(m)
  PROVE  IInv'
<1>1. /\ UNCHANGED <<life, ending, hooked, forced, secretVars, running>>
      /\ UNCHANGED <<plannerVars, events>>
  BY DEF Fails, Register, Leave, LoseNode, machineVars
<1>2. failed' \in [Machines -> Plans]
  BY DEF Fails, Register, Leave, LoseNode, IInv, TypeOK, Plans
<1>3. faults' \in 0..MaxFaults
  BY RemovalAssumption DEF Fails, Register, Leave, LoseNode, Fault, IInv, TypeOK
<1>4. /\ node' \in [Machines -> {"none", "present", "leaving", "left", "lost"}]
      /\ member' \in [Machines -> Etcd \cup {Nobody}]
      /\ LeftIsOut'
  <2>1. CASE Fails(m)
    BY <2>1 DEF Fails, IInv, TypeOK, LeftIsOut
  <2>2. CASE Register(m)
    BY <2>2 DEF Register, IInv, TypeOK, LeftIsOut
  <2>3. CASE Leave(m)
    BY <2>3 DEF Leave, IInv, TypeOK, LeftIsOut
  <2>4. CASE LoseNode(m)
    BY <2>4 DEF LoseNode, IInv, TypeOK, LeftIsOut
  <2>5. QED
    BY <2>1, <2>2, <2>3, <2>4
<1>5. TypeOK'
  BY <1>1, <1>2, <1>3, <1>4 DEF IInv, TypeOK, secretVars, plannerVars
<1>6. PlansJoinKnown' /\ RoundKnows'
  BY <1>1 DEF IInv, PlansJoinKnown, RoundKnows, Exists, secretVars, plannerVars
<1>7. QED
  BY <1>4, <1>5, <1>6 DEF IInv

LEMMA IInvInductive == IInv /\ [Next]_vars => IInv'
<1>1. SUFFICES ASSUME IInv, [Next]_vars PROVE IInv'
  OBVIOUS
<1>2. CASE Read
  BY <1>1, <1>2, ReadIInv
<1>3. CASE PlannerActs
  BY <1>1, <1>3, PlannerIInv
<1>4. CASE DeleteCluster
  <2>1. FirstInit \in Machines
    BY RemovalAssumption
  <2>2. QED
    BY <1>1, <1>4, <2>1, EventIInv
<1>5. ASSUME NEW m \in Machines, BootstrapActs(m) PROVE IInv'
  BY <1>1, <1>5, BootstrapIInv
<1>6. ASSUME NEW m \in Machines, Agents(m) \/ LoseNode(m) PROVE IInv'
  BY <1>1, <1>6, ApplyIInv, NodeIInv, TerminateIInv DEF Agents
<1>7. ASSUME NEW m \in Machines, Create(m) \/ Delete(m) PROVE IInv'
  BY <1>1, <1>7, EventIInv
<1>8. CASE UNCHANGED vars
  <2>1. UNCHANGED <<life, ending, hooked, forced, secretVars, nodeVars,
                    plannerVars, events, faults>>
    BY <1>8 DEF vars, machineVars
  <2>2. TypeOK'
    BY <1>1, <2>1 DEF IInv, TypeOK, secretVars, nodeVars, plannerVars
  <2>3. PlansJoinKnown' /\ LeftIsOut' /\ RoundKnows'
    BY <1>1, <2>1 DEF IInv, PlansJoinKnown, LeftIsOut, RoundKnows, Exists,
                      secretVars, nodeVars, plannerVars
  <2>4. QED
    BY <2>2, <2>3 DEF IInv
<1>9. QED
  BY <1>1, <1>2, <1>3, <1>4, <1>5, <1>6, <1>7, <1>8 DEF Next

-----------------------------------------------------------------------------
(* The theorems.                                                            *)

\* The init node is always an etcd machine, and the joined-to annotation of a
\* plan secret names the server its plan joins, whatever loops stop half way.
THEOREM TypeCorrect == Spec => []TypeOK
<1>1. Init => IInv
  BY InitIInv
<1>2. IInv /\ [Next]_vars => IInv'
  BY IInvInductive
<1>3. IInv => TypeOK
  BY DEF IInv
<1>4. QED
  BY <1>1, <1>2, <1>3, PTL DEF Spec

\* A plan that was ever handed out joins a machine with an address, or one that
\* has gone for good: determineJoinURL reads the address from another secret
\* than the one it writes.
THEOREM PlansKnowServers == Spec => []PlansJoinKnown
<1>1. Init => IInv
  BY InitIInv
<1>2. IInv /\ [Next]_vars => IInv'
  BY IInvInductive
<1>3. IInv => PlansJoinKnown
  BY DEF IInv
<1>4. QED
  BY <1>1, <1>2, <1>3, PTL DEF Spec

\* The pre-terminate hook of a deleted etcd machine goes only when its member is
\* out of etcd and nobody's plan joins the machine, unless the wait is given up.
\* The annotations that reconcileMachinePreTerminateAnnotation looks at are
\* enough: they follow the plans, and a machine without URL is in no plan.
THEOREM HookReleased == Spec => Released
<1> DEFINE Rightly(m) ==
      \/ m \in forced \/ ending \/ node[m] \in {"none", "lost"}
      \/ /\ member[m] = Nobody
         /\ \A n \in Machines : running[n] = m => plan[n] # m
<1>1. Init => IInv
  BY InitIInv
<1>2. IInv /\ [Next]_vars => IInv'
  BY IInvInductive
<1>3. IInv /\ [Next]_vars => [\A m \in hooked \ hooked' : Rightly(m)]_vars
  <2>1. SUFFICES ASSUME IInv, Next, NEW m \in hooked \ hooked'
                 PROVE  Rightly(m)
    OBVIOUS
  <2>2. PICK k \in Machines : DropHook(k) \/ Release(k)
    BY <2>1 DEF Next, Read, machineVars, PlannerActs, LeaveEnding, RecordURL,
       GiveUp, AwaitRestore, ClearMark, Elect, Deliver, MarkInitialized, Rest,
       RoundEnds, DeleteCluster, BootstrapActs, SetHook, AskToLeave,
       AssignPlanSecret, Agents, Apply, Fails, Register, Leave, Terminate,
       LoseNode, Create, Delete
  <2>3. k = m
    BY <2>1, <2>2 DEF DropHook, Release
  <2>4. CASE DropHook(m)
    BY <2>4 DEF DropHook
  <2>5. CASE Release(m)
    <3>1. NobodyJoined(m) /\ life[m] = "deleting" /\ node[m] \in {"left", "lost"}
      BY <2>5 DEF Release, MayLeave, SafelyRemoved
    <3>2. node[m] = "left" => member[m] = Nobody
      BY <2>1, <2>2, <2>3 DEF IInv, LeftIsOut
    <3>3. \A n \in Machines : plan[n] # m
      <4>1. SUFFICES ASSUME NEW n \in Machines, plan[n] = m PROVE FALSE
        OBVIOUS
      <4>2. Exists(n)
        BY <2>1, <2>2, <2>3, <4>1, NotMachines DEF IInv, PlansJoinKnown
      <4>3. m \in url
        BY <2>1, <2>2, <2>3, <3>1, <4>1 DEF IInv, PlansJoinKnown
      <4>4. joined[n] = m
        BY <2>1, <2>2, <2>3, <4>1 DEF IInv, TypeOK, JoinedTo
      <4>5. QED
        BY <3>1, <4>2, <4>3, <4>4 DEF NobodyJoined
    <3>4. QED
      BY <3>1, <3>2, <3>3
  <2>6. QED
    BY <2>2, <2>3, <2>4, <2>5
<1>4. QED
  BY <1>1, <1>2, <1>3, PTL DEF Spec, Released

=============================================================================
