--------------------------- MODULE Rollout_proofs ---------------------------
(****************************************************************************)
(* Proofs about Rollout, for any machines, roles, plans and options.        *)
(****************************************************************************)
EXTENDS Rollout, FiniteSetTheorems, TLAPS

-----------------------------------------------------------------------------
(* What the helpers return.                                                  *)

\* Every tier is a set of machines, and the tier after one is a tier.
LEMMA TierFacts ==
  /\ \A t \in Tiers : TierOf[t] \subseteq Machines
  /\ \A t \in Tiers \ {"worker"} : TierAfter[t] \in Tiers
<1>1. \A t \in Tiers : TierOf[t] \subseteq Machines
  BY RolloutAssumption DEF Tiers, TierOf
<1>2. \A t \in Tiers \ {"worker"} : TierAfter[t] \in Tiers
  BY DEF Tiers, TierAfter
<1>3. QED BY <1>1, <1>2

\* What Load makes of a plan secret is a view.
LEMMA ViewTyped ==
  /\ \A s \in SecretType : SecretToNode(s) \in ViewType
  /\ NoView \in ViewType /\ EmptySecret \in SecretType
<1>1. \A s \in SecretType : SecretToNode(s) \in ViewType
  BY DEF SecretType, ViewType, SecretToNode
<1>2. EmptySecret \in SecretType
  BY DEF SecretType, EmptySecret, Plans
<1>3. QED BY <1>1, <1>2 DEF NoView

\* UpdatePlan replaces the plan of one secret and lays the annotations that
\* were read over those that are there.
LEMMA UpdatePlanEffect ==
  ASSUME TypeOK, NEW m \in Machines, goal # None, UpdatePlan(m)
  PROVE  /\ secret' \in [Machines -> SecretType]
         /\ \A n \in Machines \ {m} : secret'[n] = secret[n]
         /\ secret'[m].plan = goal
         /\ secret'[m].applied = secret[m].applied
         /\ secret'[m].ann = Overlay(m)
<1>1. /\ secret[m] \in SecretType /\ secret \in [Machines -> SecretType]
      /\ view[m] \in ViewType /\ goal \in Plans
  BY DEF TypeOK
<1>2. Overlay(m) \in SUBSET Annotations
  BY <1>1 DEF Overlay, SecretType, ViewType
<1>3. secret' = [secret EXCEPT ![m] =
         [secret[m] EXCEPT !.plan = goal, !.probes = "none",
                           !.passed = FALSE, !.ann = Overlay(m)]]
  BY <1>1 DEF UpdatePlan, SecretType
<1>4. [secret[m] EXCEPT !.plan = goal, !.probes = "none",
                        !.passed = FALSE, !.ann = Overlay(m)] \in SecretType
  BY <1>1, <1>2 DEF SecretType
<1>5. QED BY <1>1, <1>3, <1>4 DEF SecretType

\* Annotate sets one annotation besides.
LEMMA AnnotateEffect ==
  ASSUME TypeOK, NEW m \in Machines, NEW a \in Annotations, Annotate(m, a)
  PROVE  /\ secret' \in [Machines -> SecretType]
         /\ \A n \in Machines \ {m} : secret'[n] = secret[n]
         /\ secret'[m].plan = secret[m].plan
         /\ secret'[m].applied = secret[m].applied
         /\ secret'[m].ann = Overlay(m) \cup {a}
<1>1. /\ secret[m] \in SecretType /\ secret \in [Machines -> SecretType]
      /\ view[m] \in ViewType
  BY DEF TypeOK
<1>2. Overlay(m) \cup {a} \in SUBSET Annotations
  BY <1>1 DEF Overlay, SecretType, ViewType
<1>3. secret' = [secret EXCEPT ![m] =
         [secret[m] EXCEPT !.passed = view[m].usable,
                           !.ann = Overlay(m) \cup {a}]]
  BY <1>1 DEF Annotate, SecretType
<1>4. [secret[m] EXCEPT !.passed = view[m].usable,
                        !.ann = Overlay(m) \cup {a}] \in SecretType
  BY <1>1, <1>2 DEF SecretType, ViewType
<1>5. QED BY <1>1, <1>3, <1>4 DEF SecretType

\* The steps of the agents and of the two controllers, on one secret.
Environment(m) == AgentStep(m) \/ PlanSecretOnChange(m) \/ DrainStep(m)

\* None of them touches a plan, or the planner; the applied plan changes only
\* to the plan; the annotations gain drain-done during a drain, or are cleared
\* during an undrain.
LEMMA EnvironmentEffect ==
  ASSUME TypeOK, NEW m \in Machines, Environment(m)
  PROVE  /\ secret' \in [Machines -> SecretType]
         /\ working' \in [Machines -> Plans]
         /\ cordoned' \in [Machines -> BOOLEAN]
         /\ UNCHANGED <<spec, plannerVars, edits>>
         /\ faults' \in 0..MaxFaults
         /\ \A n \in Machines \ {m} :
              secret'[n] = secret[n] /\ cordoned'[n] = cordoned[n]
         /\ secret'[m].plan = secret[m].plan
         /\ \/ secret'[m].applied = secret[m].applied
            \/ secret'[m].applied = secret[m].plan
         /\ \/ secret'[m].ann = secret[m].ann /\ cordoned' = cordoned
            \/ Cordon(m) \/ FinishDrain(m) \/ Uncordon(m)
            \/ CleanAnnotations(m)
<1> USE DEF Plans
<1>1. /\ secret[m] \in SecretType /\ secret \in [Machines -> SecretType]
      /\ working[m] \in Plans /\ working \in [Machines -> Plans]
      /\ cordoned \in [Machines -> BOOLEAN] /\ faults \in 0..MaxFaults
      /\ MaxFaults \in Nat
  BY RolloutAssumption DEF TypeOK
<1>2. CASE AgentStart(m)
  BY <1>1, <1>2 DEF AgentStart, SecretType, boundVars
<1>3. CASE AgentDone(m)
  <2>1. secret' = [secret EXCEPT ![m] =
          [secret[m] EXCEPT !.sum = working[m], !.failed = None,
                            !.probes = "ok"]]
    BY <1>1, <1>3 DEF AgentDone, SecretType
  <2>2. QED BY <1>1, <1>3, <2>1 DEF AgentDone, AgentReport, SecretType
<1>4. CASE AgentDoneUnhealthy(m)
  <2>1. secret' = [secret EXCEPT ![m] =
          [secret[m] EXCEPT !.sum = working[m], !.failed = None,
                            !.probes = "bad"]]
    BY <1>1, <1>4 DEF AgentDoneUnhealthy, SecretType
  <2>2. faults' \in 0..MaxFaults
    BY <1>1, <1>4 DEF AgentDoneUnhealthy, Fault
  <2>3. QED
    BY <1>1, <1>4, <2>1, <2>2 DEF AgentDoneUnhealthy, AgentReport, SecretType
<1>5. CASE AgentFail(m)
  <2>1. faults' \in 0..MaxFaults
    BY <1>1, <1>5 DEF AgentFail, Fault
  <2>2. QED BY <1>1, <1>5, <2>1 DEF AgentFail, AgentReport, SecretType
<1>6. CASE ProbesPass(m)
  BY <1>1, <1>6 DEF ProbesPass, AgentProbe, nodeVars, SecretType
<1>7. CASE ProbesFail(m)
  <2>1. faults' \in 0..MaxFaults
    BY <1>1, <1>7 DEF ProbesFail, Fault
  <2>2. QED
    BY <1>1, <1>7, <2>1 DEF ProbesFail, AgentProbe, nodeVars, SecretType
<1>8. CASE PlanSecretOnChange(m)
  <2> DEFINE a == IF Reported(secret[m]) THEN secret[m].plan
                                         ELSE secret[m].applied
             p == secret[m].passed \/ FirstPass(secret[m])
  <2>1. secret' = [secret EXCEPT ![m] =
          [secret[m] EXCEPT !.applied = a, !.passed = p]]
    BY <1>1, <1>8 DEF PlanSecretOnChange, SecretType
  <2>2. a \in Plans /\ p \in BOOLEAN
    BY <1>1 DEF SecretType, FirstPass
  <2>3. a = secret[m].plan \/ a = secret[m].applied
    OBVIOUS
  <2>4. UNCHANGED <<spec, nodeVars, plannerVars, boundVars>>
    BY <1>8 DEF PlanSecretOnChange
  <2> HIDE DEF a, p
  <2>5. QED
    BY <1>1, <2>1, <2>2, <2>3, <2>4 DEF nodeVars, boundVars, SecretType
<1>9. CASE Cordon(m) \/ Uncordon(m)
  BY <1>1, <1>9 DEF Cordon, Uncordon, boundVars, SecretType
<1>10. CASE FinishDrain(m) \/ CleanAnnotations(m)
  BY <1>1, <1>10
  DEF FinishDrain, CleanAnnotations, nodeVars, boundVars, SecretType,
      Annotations
<1>11. QED
  BY <1>2, <1>3, <1>4, <1>5, <1>6, <1>7, <1>8, <1>9, <1>10
  DEF Environment, AgentStep, DrainStep

\* Consider and AwaitKubelet, by what they do to the secret of the machine.
Delivers(m)  == DeliverInitial(m) \/ DeliverMinor(m) \/ DeliverMajor(m)
Annotates(m) == RequestDrain(m) \/ RequestUncordon(m)
OnlyLooks(m) ==
  AwaitDrain(m) \/ HoldBack(m) \/ AwaitPlan(m) \/ AwaitUncordon(m)
    \/ AwaitKubelet(m) \/ Ready(m)

Frame == <<spec, nodeVars, pc, goal, view, loaded, edits>>

\* Whatever the planner does with a machine, it goes on with the others of the
\* tier, and what it counts as unavailable grows by that machine at most.
LEMMA ConsiderEffect ==
  ASSUME TypeOK, NEW m \in Machines, Consider(m) \/ AwaitKubelet(m)
  PROVE  /\ pc \in Tiers /\ goal # None /\ m \in todo
         /\ UNCHANGED Frame
         /\ todo' = todo \ {m}
         /\ down' \in {down, down \cup {m}}
         /\ waiting' \in BOOLEAN /\ (waiting => waiting')
         /\ faults' \in 0..MaxFaults
         /\ \A n \in Machines \ {m} : secret'[n] = secret[n]
         /\ secret' \in [Machines -> SecretType]
<1>1. Delivers(m) \/ Annotates(m) \/ OnlyLooks(m)
  BY DEF Consider, Delivers, Annotates, OnlyLooks
<1>2. Turn(m)
  BY <1>1 DEF Delivers, Annotates, OnlyLooks, DeliverInitial, DeliverMinor,
    DeliverMajor, RequestDrain, RequestUncordon, AwaitDrain, HoldBack,
    AwaitPlan, AwaitUncordon, AwaitKubelet, Ready, PlanInPlace
<1>3. pc \in Tiers /\ goal # None /\ m \in todo
  BY <1>2 DEF Turn, TypeOK, Tiers
<1>4. /\ \/ Passed(m, down, TRUE) \/ Passed(m, down, FALSE)
         \/ Passed(m, down \cup {m}, TRUE)
         \/ Passed(m, down, ~Settled(view[m]))
      /\ faults' = faults \/ Fault
  BY <1>1 DEF Delivers, Annotates, OnlyLooks, DeliverInitial, DeliverMinor,
    DeliverMajor, RequestDrain, RequestUncordon, AwaitDrain, HoldBack,
    AwaitPlan, AwaitUncordon, AwaitKubelet, Ready
<1>5. /\ UNCHANGED Frame /\ todo' = todo \ {m}
      /\ down' \in {down, down \cup {m}}
      /\ (waiting => waiting')
  BY <1>4 DEF Passed, Frame
<1>6. waiting' \in BOOLEAN
  <2>1. waiting \in BOOLEAN /\ Settled(view[m]) \in BOOLEAN
    BY DEF TypeOK, Settled, InSync, ViewType
  <2>2. QED BY <1>4, <2>1 DEF Passed
<1>7. faults' \in 0..MaxFaults
  BY <1>4, RolloutAssumption DEF TypeOK, Fault
<1>8. /\ \A n \in Machines \ {m} : secret'[n] = secret[n]
      /\ secret' \in [Machines -> SecretType]
  <2>1. CASE Delivers(m)
    <3>1. UpdatePlan(m)
      BY <2>1 DEF Delivers, DeliverInitial, DeliverMinor, DeliverMajor
    <3>2. QED BY <1>3, <3>1, UpdatePlanEffect
  <2>2. CASE Annotates(m)
    <3>1. PICK a \in Annotations : Annotate(m, a)
      BY <2>2 DEF Annotates, RequestDrain, RequestUncordon, Annotations
    <3>2. QED BY <3>1, AnnotateEffect
  <2>3. CASE OnlyLooks(m)
    <3>1. UNCHANGED secret
      BY <2>3 DEF OnlyLooks, AwaitDrain, HoldBack, AwaitPlan, AwaitUncordon,
        AwaitKubelet, Ready
    <3>2. QED BY <3>1 DEF TypeOK
  <2>4. QED BY <1>1, <2>1, <2>2, <2>3
<1>9. QED BY <1>3, <1>5, <1>6, <1>7, <1>8

-----------------------------------------------------------------------------
(* Type correctness.                                                        *)

LEMMA TypeInit == Init => TypeOK
<1> SUFFICES ASSUME Init PROVE TypeOK
  OBVIOUS
<1>1. secret \in [Machines -> SecretType] /\ view \in [Machines -> ViewType]
  BY ViewTyped DEF Init
<1>2. /\ spec \in Goals
      /\ working \in [Machines -> Plans] /\ cordoned \in [Machines -> BOOLEAN]
  <2>1. 1 \in Goals
    BY RolloutAssumption
  <2>2. None \in Plans
    BY DEF Plans
  <2>3. QED BY <2>1, <2>2 DEF Init
<1>3. /\ pc \in Tiers \cup {"idle", "load"}
      /\ goal \in Plans /\ (goal = None <=> pc = "idle")
  BY DEF Init, Plans
<1>4. loaded \subseteq Machines /\ todo \subseteq Machines
        /\ down \subseteq Machines
  BY DEF Init
<1>5. waiting \in BOOLEAN
  BY DEF Init
<1>6. edits \in 0..MaxEdits /\ faults \in 0..MaxFaults
  <2>1. MaxEdits \in Nat /\ MaxFaults \in Nat
    BY RolloutAssumption
  <2>2. QED BY <2>1 DEF Init
<1>7. QED BY <1>1, <1>2, <1>3, <1>4, <1>5, <1>6 DEF TypeOK

LEMMA TypeStep == TypeOK /\ [Next]_vars => TypeOK'
<1> SUFFICES ASSUME TypeOK, [Next]_vars PROVE TypeOK'
  OBVIOUS
<1>1. CASE EditSpec
  BY <1>1, RolloutAssumption DEF EditSpec, TypeOK, nodeVars, plannerVars
<1>2. CASE StartRound
  BY <1>2, RolloutAssumption
  DEF StartRound, TypeOK, nodeVars, boundVars, Plans, None, Tiers
<1>3. ASSUME NEW m \in Machines, LoadSecret(m) PROVE TypeOK'
  <2>1. SecretToNode(secret[m]) \in ViewType
    BY ViewTyped DEF TypeOK
  <2>2. QED BY <1>3, <2>1 DEF LoadSecret, TypeOK, nodeVars, boundVars
<1>4. CASE FirstTier \/ NextTier
  <2>1. PICK t \in Tiers : EnterTier(t)
    BY <1>4, TierFacts DEF FirstTier, NextTier, TierDone, Tiers
  <2>2. TierOf[t] \subseteq Machines
    BY TierFacts
  <2>3. UNCHANGED <<spec, secret, nodeVars, boundVars>> /\ pc # "idle"
    BY <1>4 DEF FirstTier, NextTier, TierDone, Tiers
  <2>4. QED
    BY <2>1, <2>2, <2>3 DEF EnterTier, TypeOK, nodeVars, boundVars, Tiers
<1>5. CASE FinishRound \/ Abort
  <2>1. UNCHANGED <<spec, secret, nodeVars, edits>> /\ EndRound
    BY <1>5 DEF FinishRound, Abort, boundVars
  <2>2. faults' \in 0..MaxFaults
    BY <1>5, RolloutAssumption
    DEF FinishRound, Abort, Fault, boundVars, TypeOK
  <2>3. QED
    BY <2>1, <2>2, ViewTyped DEF EndRound, TypeOK, nodeVars, Plans, None
<1>6. ASSUME NEW m \in Machines, Consider(m) \/ AwaitKubelet(m) PROVE TypeOK'
  <2>1. /\ UNCHANGED Frame /\ todo' = todo \ {m}
        /\ down' \in {down, down \cup {m}} /\ waiting' \in BOOLEAN
        /\ faults' \in 0..MaxFaults /\ secret' \in [Machines -> SecretType]
    BY <1>6, ConsiderEffect
  <2>2. QED BY <2>1 DEF Frame, nodeVars, TypeOK
<1>7. ASSUME NEW m \in Machines, Environment(m) PROVE TypeOK'
  <2>1. /\ secret' \in [Machines -> SecretType]
        /\ working' \in [Machines -> Plans]
        /\ cordoned' \in [Machines -> BOOLEAN]
        /\ UNCHANGED <<spec, plannerVars, edits>>
        /\ faults' \in 0..MaxFaults
    BY <1>7, EnvironmentEffect
  <2>2. QED BY <2>1 DEF plannerVars, TypeOK
<1>8. CASE UNCHANGED vars
  BY <1>8 DEF vars, nodeVars, plannerVars, boundVars, TypeOK
<1>9. QED
  BY <1>1, <1>2, <1>3, <1>4, <1>5, <1>6, <1>7, <1>8
  DEF Next, PlannerStep, Environment

\* The variables keep the kind of values the code gives them: only wanted plans
\* are handed out, the counted machines are machines of the cluster, and a
\* round has a goal exactly while it runs.
THEOREM TypeCorrect == Spec => []TypeOK
<1>1. QED BY TypeInit, TypeStep, PTL DEF Spec

-----------------------------------------------------------------------------
(* The inductive invariant.                                                 *)

\* Where a round stands: what it has read, whom it still has to look at, and
\* that it counts everyone of the tier whom it has read as taken out.
RoundShape ==
  /\ pc \in {"idle", "load"} => todo = {} /\ down = {} /\ ~waiting
  /\ pc = "idle" => loaded = {}
  /\ pc \in Tiers =>
       /\ loaded = Machines /\ todo \subseteq TierOf[pc]
       /\ \A m \in TierOf[pc] :
            HasPlan(m) /\ (~InSync(view[m]) \/ InDrain(view[m])) => m \in down

\* A drain is reported as done only where one is requested, and requested only
\* where a plan is applied, in a secret and in what was read of it; nothing is
\* applied before a plan is there.
SecretOrder ==
  \A m \in Machines :
    /\ DrainDone \in secret[m].ann => Drain \in secret[m].ann
    /\ DrainDone \in view[m].ann => Drain \in view[m].ann
    /\ secret[m].ann # {} => secret[m].applied # None
    /\ view[m].ann # {} => view[m].applied # None
    /\ secret[m].plan = None => secret[m].applied = None

IInv ==
  /\ TypeOK /\ RoundShape /\ SecretOrder
  /\ ViewStillTells /\ CountCoversTier /\ CordonedWhileDrained

LEMMA IInvInit == Init => IInv
<1> SUFFICES ASSUME Init PROVE IInv
  OBVIOUS
<1>1. TypeOK
  BY TypeInit
<1>2. RoundShape
  BY DEF Init, RoundShape, Tiers
<1>3. SecretOrder /\ CordonedWhileDrained
  BY DEF Init, SecretOrder, CordonedWhileDrained, EmptySecret, NoView,
    SecretToNode
<1>4. ViewStillTells /\ CountCoversTier
  BY DEF Init, ViewStillTells, CountCoversTier, Tiers
<1>5. QED BY <1>1, <1>2, <1>3, <1>4 DEF IInv

\* A view taken now tells the truth.
LEMMA FreshViewTells ==
  ASSUME NEW s \in SecretType, s.plan = None => s.applied = None
  PROVE  StillTells(SecretToNode(s), s)
BY DEF StillTells, SecretToNode, InSync, SecretType

\* A machine that is taken out could be seen to be, in what was read of it.
LEMMA DisruptedIsSeen ==
  ASSUME NEW m \in Machines, TypeOK, Disrupted(m),
         StillTells(view[m], secret[m])
  PROVE  HasPlan(m) /\ (~InSync(view[m]) \/ InDrain(view[m]))
<1>1. secret[m] \in SecretType /\ view[m] \in ViewType
  BY DEF TypeOK
<1>2. QED
  BY <1>1 DEF Disrupted, StillTells, HasPlan, InDrain, SecretType, ViewType

\* The invariant does not look at the rest of the state.
LEMMA IInvFrame ==
  ASSUME IInv, TypeOK',
         UNCHANGED <<secret, cordoned, pc, view, loaded, todo, down, waiting>>
  PROVE  IInv'
<1>1. RoundShape'
  BY DEF IInv, RoundShape, HasPlan
<1>2. SecretOrder' /\ CordonedWhileDrained'
  BY DEF IInv, SecretOrder, CordonedWhileDrained
<1>3. ViewStillTells'
  BY DEF IInv, ViewStillTells
<1>4. CountCoversTier'
  BY DEF IInv, CountCoversTier, Disrupted
<1>5. QED BY <1>1, <1>2, <1>3, <1>4 DEF IInv

LEMMA StartRoundKeeps == IInv /\ TypeOK' /\ StartRound => IInv'
<1> SUFFICES ASSUME IInv, TypeOK', StartRound PROVE IInv'
  OBVIOUS
<1> USE DEF IInv, StartRound, nodeVars, boundVars
<1>1. RoundShape'
  BY DEF RoundShape, Tiers
<1>2. SecretOrder' /\ CordonedWhileDrained'
  BY DEF SecretOrder, CordonedWhileDrained
<1>3. ViewStillTells'
  BY DEF RoundShape, ViewStillTells
<1>4. CountCoversTier'
  BY DEF CountCoversTier, Tiers
<1>5. QED BY <1>1, <1>2, <1>3, <1>4

LEMMA LoadSecretKeeps ==
  ASSUME IInv, TypeOK', NEW m \in Machines, LoadSecret(m)
  PROVE  IInv'
<1> USE DEF IInv
<1>1. /\ pc = "load" /\ pc' = "load" /\ view' \in [Machines -> ViewType]
      /\ UNCHANGED <<secret, cordoned, todo, down, waiting>>
      /\ view' = [view EXCEPT ![m] = SecretToNode(secret[m])]
      /\ loaded' = loaded \cup {m}
      /\ view \in [Machines -> ViewType] /\ secret[m] \in SecretType
  BY DEF LoadSecret, TypeOK, nodeVars
<1>2. RoundShape'
  BY <1>1 DEF RoundShape, Tiers
<1>3. SecretOrder' /\ CordonedWhileDrained'
  BY <1>1 DEF SecretOrder, CordonedWhileDrained, SecretToNode
<1>4. ViewStillTells'
  <2> SUFFICES ASSUME NEW n \in Machines, n \in loaded',
                      (waiting => n \in todo)'
               PROVE  StillTells(view'[n], secret'[n])
    BY DEF ViewStillTells
  <2>1. CASE n = m
    BY <1>1, <2>1, FreshViewTells DEF SecretOrder
  <2>2. CASE n # m
    BY <1>1, <2>2 DEF ViewStillTells
  <2>3. QED BY <2>1, <2>2
<1>5. CountCoversTier'
  BY <1>1 DEF CountCoversTier, Tiers
<1>6. QED BY <1>2, <1>3, <1>4, <1>5

\* A tier is entered with everyone counted who is taken out.
LEMMA EnterTierKeeps ==
  ASSUME IInv, TypeOK', FirstTier \/ NextTier
  PROVE  IInv'
<1> USE DEF IInv
<1>1. PICK t \in Tiers : EnterTier(t)
  BY TierFacts DEF FirstTier, NextTier, TierDone, Tiers
<1>2. /\ pc' = t /\ t \in Tiers /\ todo' = TierOf[t] /\ ~waiting'
      /\ down' = {m \in TierOf[t] : HasPlan(m) /\ Unavailable(m)}
      /\ UNCHANGED <<secret, cordoned, view, loaded>>
  BY <1>1 DEF FirstTier, NextTier, EnterTier, nodeVars
<1>3. loaded = Machines /\ ~waiting
  BY DEF FirstTier, NextTier, TierDone, RoundShape
<1>4. RoundShape'
  BY <1>2, <1>3 DEF RoundShape, HasPlan, Unavailable, Tiers
<1>5. SecretOrder' /\ CordonedWhileDrained'
  BY <1>2 DEF SecretOrder, CordonedWhileDrained
<1>6. ViewStillTells'
  BY <1>2, <1>3 DEF ViewStillTells
<1>7. CountCoversTier'
  <2> SUFFICES ASSUME NEW m \in TierOf[t], Disrupted(m)' PROVE m \in down'
    BY <1>2 DEF CountCoversTier
  <2>1. m \in Machines
    BY <1>2, TierFacts
  <2>2. Disrupted(m)
    BY <1>2 DEF Disrupted
  <2>3. StillTells(view[m], secret[m])
    BY <1>3, <2>1 DEF ViewStillTells
  <2>4. HasPlan(m) /\ Unavailable(m)
    BY <2>1, <2>2, <2>3, DisruptedIsSeen DEF Unavailable
  <2>5. QED BY <1>2, <2>4
<1>8. QED BY <1>4, <1>5, <1>6, <1>7

LEMMA EndRoundKeeps ==
  ASSUME IInv, TypeOK', FinishRound \/ Abort
  PROVE  IInv'
<1> USE DEF IInv
<1>1. EndRound /\ UNCHANGED <<secret, cordoned>>
  BY DEF FinishRound, Abort, nodeVars
<1>2. RoundShape'
  BY <1>1 DEF EndRound, RoundShape, Tiers
<1>3. SecretOrder' /\ CordonedWhileDrained'
  BY <1>1 DEF EndRound, SecretOrder, CordonedWhileDrained, NoView,
    SecretToNode, EmptySecret
<1>4. ViewStillTells' /\ CountCoversTier'
  BY <1>1 DEF EndRound, ViewStillTells, CountCoversTier, Tiers
<1>5. QED BY <1>2, <1>3, <1>4

\* What they do to the annotations and to the node, together.
LEMMA EnvironmentOnDrain ==
  ASSUME TypeOK, NEW m \in Machines, Environment(m)
  PROVE  \/ secret'[m].ann = secret[m].ann /\ cordoned'[m] = cordoned[m]
         \/ secret'[m].ann = secret[m].ann /\ cordoned'[m]
         \/ /\ Drain \in secret[m].ann /\ cordoned'[m]
            /\ secret'[m].ann = secret[m].ann \cup {DrainDone}
         \/ UnCordon \in secret[m].ann /\ secret'[m].ann = secret[m].ann
         \/ UnCordon \in secret[m].ann /\ secret'[m].ann = {}
<1>1. /\ secret \in [Machines -> SecretType]
      /\ cordoned \in [Machines -> BOOLEAN]
  BY DEF TypeOK
<1>2. CASE Cordon(m) \/ Uncordon(m)
  BY <1>1, <1>2 DEF Cordon, Uncordon, Undraining
<1>3. CASE FinishDrain(m) \/ CleanAnnotations(m)
  BY <1>1, <1>3 DEF FinishDrain, CleanAnnotations, Draining, Undraining,
    nodeVars, SecretType
<1>4. QED BY <1>2, <1>3, EnvironmentEffect

\* They take nobody out.
LEMMA EnvironmentDisruptsNobody ==
  ASSUME IInv, NEW m \in Machines, Environment(m),
         NEW n \in Machines, Disrupted(n)'
  PROVE  Disrupted(n)
<1>1. TypeOK
  BY DEF IInv
<1>2. /\ n # m => secret'[n] = secret[n]
      /\ secret'[m].plan = secret[m].plan
      /\ \/ secret'[m].applied = secret[m].applied
         \/ secret'[m].applied = secret[m].plan
  BY <1>1, EnvironmentEffect
<1>3. CASE n # m
  BY <1>2, <1>3 DEF Disrupted
<1>4. CASE n = m
  <2>1. secret'[m].plan # None /\ secret'[m].applied # None
    BY <1>4 DEF Disrupted
  <2>2. CASE secret'[m].applied = secret[m].applied
    BY <1>1, <1>2, <1>4, <2>1, <2>2, EnvironmentOnDrain
    DEF Disrupted, Drain, DrainDone, UnCordon
  <2>3. CASE secret'[m].applied = secret[m].plan
    <3>1. secret'[m].ann \cap {Drain, UnCordon} # {}
      BY <1>2, <1>4, <2>3 DEF Disrupted
    <3>2. QED
      BY <1>1, <1>2, <1>4, <2>1, <3>1, EnvironmentOnDrain
      DEF Disrupted, IInv, SecretOrder, Drain, DrainDone, UnCordon
  <2>4. QED BY <1>2, <2>2, <2>3
<1>5. QED BY <1>3, <1>4

\* They leave what was read of a machine good enough.
LEMMA EnvironmentLetsTell ==
  ASSUME IInv, NEW m \in Machines, Environment(m),
         NEW n \in Machines, StillTells(view[n], secret[n])
  PROVE  StillTells(view[n], secret'[n])
<1> USE DEF IInv
<1>1. /\ n # m => secret'[n] = secret[n]
      /\ secret'[m].plan = secret[m].plan
      /\ \/ secret'[m].applied = secret[m].applied
         \/ secret'[m].applied = secret[m].plan
  BY EnvironmentEffect
<1>2. CASE n = m
  <2>1. secret[m] \in SecretType /\ view[m] \in ViewType
    BY DEF TypeOK
  <2>2. QED
    BY <1>1, <1>2, <2>1, EnvironmentOnDrain
    DEF StillTells, SecretOrder, SecretType, Drain, DrainDone, UnCordon
<1>3. CASE n # m
  BY <1>1, <1>3
<1>4. QED BY <1>2, <1>3

\* Agents and controllers, at any moment of a round, take nobody out and leave
\* what was read good enough.
LEMMA EnvironmentKeeps ==
  ASSUME IInv, TypeOK', NEW m \in Machines, Environment(m)
  PROVE  IInv'
<1> USE DEF IInv
<1>1. /\ UNCHANGED plannerVars
      /\ \A n \in Machines \ {m} :
           secret'[n] = secret[n] /\ cordoned'[n] = cordoned[n]
      /\ secret'[m].plan = secret[m].plan
      /\ \/ secret'[m].applied = secret[m].applied
         \/ secret'[m].applied = secret[m].plan
  BY EnvironmentEffect
<1>2. UNCHANGED <<pc, goal, view, loaded, todo, down, waiting>>
  BY <1>1 DEF plannerVars
<1>3. \/ secret'[m].ann = secret[m].ann /\ cordoned'[m] = cordoned[m]
      \/ secret'[m].ann = secret[m].ann /\ cordoned'[m]
      \/ /\ Drain \in secret[m].ann /\ cordoned'[m]
         /\ secret'[m].ann = secret[m].ann \cup {DrainDone}
      \/ UnCordon \in secret[m].ann /\ secret'[m].ann = secret[m].ann
      \/ UnCordon \in secret[m].ann /\ secret'[m].ann = {}
  BY EnvironmentOnDrain
<1>4. RoundShape'
  BY <1>2 DEF RoundShape, HasPlan
<1>5. SecretOrder'
  <2> SUFFICES ASSUME NEW n \in Machines
               PROVE  /\ DrainDone \in secret'[n].ann => Drain \in secret'[n].ann
                      /\ secret'[n].ann # {} => secret'[n].applied # None
                      /\ secret'[n].plan = None => secret'[n].applied = None
    BY <1>2 DEF SecretOrder
  <2>1. CASE n = m
    BY <1>1, <1>3, <2>1 DEF SecretOrder, Drain, DrainDone
  <2>2. CASE n # m
    BY <1>1, <2>2 DEF SecretOrder
  <2>3. QED BY <2>1, <2>2
<1>6. CordonedWhileDrained'
  <2> SUFFICES ASSUME NEW n \in Machines,
                      {Drain, DrainDone} \subseteq secret'[n].ann,
                      UnCordon \notin secret'[n].ann
               PROVE  cordoned'[n]
    BY DEF CordonedWhileDrained
  <2>1. CASE n = m
    BY <1>3, <2>1 DEF CordonedWhileDrained
  <2>2. CASE n # m
    BY <1>1, <2>2 DEF CordonedWhileDrained
  <2>3. QED BY <2>1, <2>2
<1>7. ViewStillTells'
  <2> SUFFICES ASSUME NEW n \in Machines, n \in loaded,
                      waiting => n \in todo
               PROVE  StillTells(view[n], secret'[n])
    BY <1>2 DEF ViewStillTells
  <2>1. StillTells(view[n], secret[n])
    BY DEF ViewStillTells
  <2>2. QED BY <2>1, EnvironmentLetsTell
<1>8. CountCoversTier'
  <2> SUFFICES ASSUME NEW n \in TierOf[pc], pc \in Tiers, Disrupted(n)'
               PROVE  Disrupted(n)
    BY <1>2 DEF CountCoversTier
  <2>1. n \in Machines
    BY TierFacts
  <2>2. QED BY <2>1, EnvironmentDisruptsNobody
<1>9. QED BY <1>4, <1>5, <1>6, <1>7, <1>8

\* What a step on one machine of the tier has to establish for that machine.
KeptFor(m) ==
  /\ DrainDone \in secret'[m].ann => Drain \in secret'[m].ann
  /\ secret'[m].ann # {} => secret'[m].applied # None
  /\ secret'[m].plan = None => secret'[m].applied = None
  /\ {Drain, DrainDone} \subseteq secret'[m].ann /\ UnCordon \notin secret'[m].ann
       => cordoned[m]
  /\ ~waiting' => StillTells(view[m], secret'[m])
  /\ Disrupted(m)' => m \in down'

\* The other machines are left alone, and stay counted.
LEMMA KeptForOneKeepsAll ==
  ASSUME IInv, TypeOK', NEW m \in Machines, Consider(m) \/ AwaitKubelet(m),
         KeptFor(m)
  PROVE  IInv'
<1> USE DEF IInv
<1>1. /\ pc \in Tiers /\ m \in todo
      /\ UNCHANGED <<cordoned, pc, view, loaded>>
      /\ todo' = todo \ {m} /\ down \subseteq down'
      /\ (waiting => waiting')
      /\ \A n \in Machines \ {m} : secret'[n] = secret[n]
  BY ConsiderEffect DEF Frame, nodeVars
<1>2. RoundShape'
  BY <1>1 DEF RoundShape, HasPlan, Tiers
<1>3. SecretOrder'
  <2> SUFFICES ASSUME NEW n \in Machines
               PROVE  /\ DrainDone \in secret'[n].ann => Drain \in secret'[n].ann
                      /\ secret'[n].ann # {} => secret'[n].applied # None
                      /\ secret'[n].plan = None => secret'[n].applied = None
    BY <1>1 DEF SecretOrder
  <2>1. CASE n = m
    BY <2>1 DEF KeptFor
  <2>2. CASE n # m
    BY <1>1, <2>2 DEF SecretOrder
  <2>3. QED BY <2>1, <2>2
<1>4. CordonedWhileDrained'
  BY <1>1 DEF CordonedWhileDrained, KeptFor
<1>5. ViewStillTells'
  <2> SUFFICES ASSUME NEW n \in Machines, n \in loaded,
                      waiting' => n \in todo'
               PROVE  StillTells(view[n], secret'[n])
    BY <1>1 DEF ViewStillTells
  <2>1. CASE n = m
    BY <1>1, <2>1 DEF KeptFor
  <2>2. CASE n # m
    BY <1>1, <2>2 DEF ViewStillTells
  <2>3. QED BY <2>1, <2>2
<1>6. CountCoversTier'
  <2> SUFFICES ASSUME NEW n \in TierOf[pc], Disrupted(n)' PROVE n \in down'
    BY <1>1 DEF CountCoversTier
  <2>1. n \in Machines
    BY <1>1, TierFacts
  <2>2. CASE n = m
    BY <2>2 DEF KeptFor
  <2>3. CASE n # m
    <3>1. Disrupted(n)
      BY <1>1, <2>1, <2>3 DEF Disrupted
    <3>2. QED BY <1>1, <3>1 DEF CountCoversTier
  <2>4. QED BY <2>2, <2>3
<1>7. QED BY <1>2, <1>3, <1>4, <1>5, <1>6

\* What the invariant says of the machine whose turn it is.
LEMMA AtTurn ==
  ASSUME IInv, NEW m \in Machines, Turn(m)
  PROVE  /\ secret[m] \in SecretType /\ view[m] \in ViewType
         /\ goal \in Goals /\ goal # None
         /\ StillTells(view[m], secret[m])
         /\ DrainDone \in secret[m].ann => Drain \in secret[m].ann
         /\ DrainDone \in view[m].ann => Drain \in view[m].ann
         /\ secret[m].ann # {} => secret[m].applied # None
         /\ view[m].ann # {} => view[m].applied # None
         /\ secret[m].plan = None => secret[m].applied = None
         /\ {Drain, DrainDone} \subseteq secret[m].ann
              /\ UnCordon \notin secret[m].ann => cordoned[m]
         /\ HasPlan(m) /\ (~InSync(view[m]) \/ InDrain(view[m])) => m \in down
         /\ Disrupted(m) => m \in down
<1> USE DEF IInv, Turn
<1>1. /\ secret[m] \in SecretType /\ view[m] \in ViewType
      /\ goal \in Goals /\ goal # None
  BY DEF TypeOK, Plans, Tiers
<1>2. StillTells(view[m], secret[m])
  BY DEF RoundShape, ViewStillTells
<1>3. m \in TierOf[pc]
  BY DEF RoundShape
<1>4. QED
  BY <1>1, <1>2, <1>3
  DEF RoundShape, SecretOrder, CordonedWhileDrained, CountCoversTier

LEMMA OnlyLooksKeeps ==
  ASSUME IInv, NEW m \in Machines, OnlyLooks(m)
  PROVE  KeptFor(m)
<1>1. Turn(m) /\ UNCHANGED <<secret, view, cordoned>> /\ down \subseteq down'
  BY DEF OnlyLooks, AwaitDrain, HoldBack, AwaitPlan, AwaitUncordon,
    AwaitKubelet, Ready, PlanInPlace, Passed, nodeVars
<1>2. Disrupted(m)' => Disrupted(m)
  BY <1>1 DEF Disrupted
<1>3. QED BY <1>1, <1>2, AtTurn DEF KeptFor

\* The annotations that were read, laid over the others, bring none back that
\* matters.
LEMMA OverlayKeeps ==
  ASSUME IInv, NEW m \in Machines, Turn(m)
  PROVE  /\ DrainDone \in Overlay(m) => Drain \in Overlay(m)
         /\ Overlay(m) # {} => secret[m].applied # None
         /\ Drain \notin view[m].ann => Drain \notin Overlay(m)
         /\ UnCordon \notin view[m].ann =>
              UnCordon \notin Overlay(m) /\ view[m].ann \subseteq Overlay(m)
         /\ {Drain, DrainDone} \subseteq Overlay(m) /\ UnCordon \notin Overlay(m)
              => cordoned[m]
<1>1. QED
  BY AtTurn DEF Overlay, StillTells, SecretType, ViewType

\* A first plan takes nobody out, nor does a minor change for a machine that
\* was not read to be in the drain process.
LEMMA FirstPlanDisruptsNobody ==
  ASSUME IInv, NEW m \in Machines, DeliverInitial(m)
  PROVE  ~Disrupted(m)'
<1>1. Turn(m) /\ UpdatePlan(m) /\ ~HasPlan(m)
  BY DEF DeliverInitial
<1>2. secret[m].applied = None
  BY <1>1, AtTurn DEF HasPlan, StillTells
<1>3. secret'[m].applied = secret[m].applied
  BY <1>1, AtTurn, UpdatePlanEffect DEF IInv
<1>4. QED BY <1>2, <1>3 DEF Disrupted

LEMMA MinorChangeDisruptsNobody ==
  ASSUME IInv, NEW m \in Machines, DeliverMinor(m), ~InDrain(view[m]),
         Disrupted(m)'
  PROVE  Disrupted(m)
<1>1. /\ Turn(m) /\ UpdatePlan(m)
      /\ view[m].plan # None /\ Body[goal] = Body[view[m].plan]
  BY DEF DeliverMinor, MinorChange, Change, HasPlan
<1>2. /\ goal # None /\ StillTells(view[m], secret[m])
  BY <1>1, AtTurn
<1>3. /\ secret'[m].plan = goal /\ secret'[m].applied = secret[m].applied
      /\ secret'[m].ann = Overlay(m)
  BY <1>1, <1>2, UpdatePlanEffect DEF IInv
<1>4. Drain \notin Overlay(m) /\ UnCordon \notin Overlay(m)
  BY <1>1, OverlayKeeps DEF InDrain
<1>5. QED BY <1>1, <1>2, <1>3, <1>4 DEF Disrupted, StillTells

\* What was read of a machine stays good enough for a minor change of it.
LEMMA MinorChangeLetsTell ==
  ASSUME IInv, NEW m \in Machines, DeliverMinor(m)
  PROVE  StillTells(view[m], secret'[m])
<1>1. /\ Turn(m) /\ UpdatePlan(m)
      /\ view[m].plan # None /\ Body[goal] = Body[view[m].plan]
  BY DEF DeliverMinor, MinorChange, Change, HasPlan
<1>2. /\ goal # None /\ StillTells(view[m], secret[m])
      /\ secret[m] \in SecretType /\ view[m] \in ViewType
  BY <1>1, AtTurn
<1>3. /\ secret'[m].plan = goal /\ secret'[m].applied = secret[m].applied
      /\ secret'[m].ann = Overlay(m)
  BY <1>1, <1>2, UpdatePlanEffect DEF IInv
<1>4. QED BY <1>1, <1>2, <1>3, OverlayKeeps DEF StillTells

LEMMA DeliversKeeps ==
  ASSUME IInv, NEW m \in Machines, Delivers(m)
  PROVE  KeptFor(m)
<1>1. Turn(m) /\ UpdatePlan(m) /\ UNCHANGED cordoned
  BY DEF Delivers, DeliverInitial, DeliverMinor, DeliverMajor, Passed, nodeVars
<1>2. /\ secret[m] \in SecretType /\ view[m] \in ViewType
      /\ goal \in Goals /\ goal # None /\ StillTells(view[m], secret[m])
  BY <1>1, AtTurn
<1>3. /\ secret'[m].plan = goal /\ secret'[m].applied = secret[m].applied
      /\ secret'[m].ann = Overlay(m)
  BY <1>1, <1>2, UpdatePlanEffect DEF IInv
<1>4. ~waiting' => StillTells(view[m], secret'[m])
  <2> SUFFICES ASSUME ~waiting' PROVE StillTells(view[m], secret'[m])
    OBVIOUS
  <2>1. DeliverMinor(m)
    BY DEF Delivers, DeliverInitial, DeliverMajor, Passed
  <2>2. QED BY <2>1, MinorChangeLetsTell
<1>5. Disrupted(m)' => m \in down'
  <2> SUFFICES ASSUME Disrupted(m)' PROVE m \in down'
    OBVIOUS
  <2>1. CASE DeliverInitial(m)
    BY <2>1, FirstPlanDisruptsNobody
  <2>2. CASE DeliverMajor(m)
    BY <2>2 DEF DeliverMajor, Passed
  <2>3. CASE DeliverMinor(m)
    <3>1. HasPlan(m) /\ down' = down
      BY <2>3 DEF DeliverMinor, MinorChange, Change, Passed
    <3>2. QED BY <1>1, <2>3, <3>1, AtTurn, MinorChangeDisruptsNobody
  <2>4. QED BY <2>1, <2>2, <2>3 DEF Delivers
<1>6. QED
  BY <1>1, <1>2, <1>3, <1>4, <1>5, OverlayKeeps DEF KeptFor

LEMMA AnnotatesKeeps ==
  ASSUME IInv, NEW m \in Machines, Annotates(m)
  PROVE  KeptFor(m)
<1>1. /\ Turn(m) /\ UNCHANGED cordoned /\ waiting'
      /\ HasPlan(m) /\ m \in down'
  <2>1. CASE RequestDrain(m)
    BY <2>1 DEF RequestDrain, MajorChange, Change, Passed, nodeVars
  <2>2. CASE RequestUncordon(m)
    <3>1. Turn(m) /\ HasPlan(m) /\ InDrain(view[m]) /\ down' = down
      BY <2>2 DEF RequestUncordon, PlanInPlace, InDrain, Passed
    <3>2. QED
      BY <2>2, <3>1, AtTurn DEF RequestUncordon, Passed, nodeVars
  <2>3. QED BY <2>1, <2>2 DEF Annotates
<1>2. /\ secret[m] \in SecretType /\ view[m] \in ViewType
      /\ StillTells(view[m], secret[m])
      /\ secret[m].plan = None => secret[m].applied = None
  BY <1>1, AtTurn
<1>3. CASE RequestDrain(m)
  <2>1. Annotate(m, Drain) /\ Drain \notin view[m].ann /\ view[m].applied # None
    BY <1>3 DEF RequestDrain, MustDrain
  <2>2. /\ secret'[m].plan = secret[m].plan
        /\ secret'[m].applied = secret[m].applied
        /\ secret'[m].ann = Overlay(m) \cup {Drain}
    BY <2>1, AnnotateEffect DEF IInv, Annotations
  <2>3. DrainDone \notin Overlay(m)
    BY <1>1, <2>1, OverlayKeeps
  <2>4. secret[m].applied # None
    BY <1>2, <2>1 DEF StillTells
  <2>5. QED
    BY <1>1, <1>2, <2>2, <2>3, <2>4 DEF KeptFor, Drain, DrainDone, UnCordon
<1>4. CASE RequestUncordon(m)
  <2>1. Annotate(m, UnCordon) /\ Drain \in view[m].ann
    BY <1>4 DEF RequestUncordon
  <2>2. /\ secret'[m].plan = secret[m].plan
        /\ secret'[m].applied = secret[m].applied
        /\ secret'[m].ann = Overlay(m) \cup {UnCordon}
    BY <2>1, AnnotateEffect DEF IInv, Annotations
  <2>3. Drain \in Overlay(m)
    BY <2>1 DEF Overlay
  <2>4. secret[m].applied # None
    BY <1>1, <2>3, OverlayKeeps
  <2>5. QED
    BY <1>1, <1>2, <2>2, <2>3, <2>4 DEF KeptFor, Drain, DrainDone, UnCordon
<1>5. QED BY <1>3, <1>4 DEF Annotates

LEMMA IInvStep == IInv /\ [Next]_vars => IInv'
<1> SUFFICES ASSUME IInv, [Next]_vars PROVE IInv'
  OBVIOUS
<1>1. TypeOK'
  BY TypeStep DEF IInv
<1>2. CASE EditSpec
  BY <1>1, <1>2, IInvFrame DEF EditSpec, nodeVars, plannerVars
<1>3. CASE StartRound
  BY <1>1, <1>3, StartRoundKeeps
<1>4. ASSUME NEW m \in Machines, LoadSecret(m) PROVE IInv'
  BY <1>1, <1>4, LoadSecretKeeps
<1>5. CASE FirstTier \/ NextTier
  BY <1>1, <1>5, EnterTierKeeps
<1>6. CASE FinishRound \/ Abort
  BY <1>1, <1>6, EndRoundKeeps
<1>7. ASSUME NEW m \in Machines, Consider(m) \/ AwaitKubelet(m) PROVE IInv'
  <2>1. Delivers(m) \/ Annotates(m) \/ OnlyLooks(m)
    BY <1>7 DEF Consider, Delivers, Annotates, OnlyLooks
  <2>2. KeptFor(m)
    BY <2>1, DeliversKeeps, AnnotatesKeeps, OnlyLooksKeeps
  <2>3. QED BY <1>1, <1>7, <2>2, KeptForOneKeepsAll
<1>8. ASSUME NEW m \in Machines, Environment(m) PROVE IInv'
  BY <1>1, <1>8, EnvironmentKeeps
<1>9. CASE UNCHANGED vars
  BY <1>1, <1>9, IInvFrame DEF vars, nodeVars, plannerVars
<1>10. QED
  BY <1>2, <1>3, <1>4, <1>5, <1>6, <1>7, <1>8, <1>9
  DEF Next, PlannerStep, Environment

LEMMA Invariance == Spec => []IInv
<1>1. QED BY IInvInit, IInvStep, PTL DEF Spec

-----------------------------------------------------------------------------
(* What follows from it.                                                    *)

\* A decision of the planner rests on a view that may be old, and yet holds:
\* no step of an agent or a controller, in any order, makes it wrong.
THEOREM ViewsStillTell == Spec => []ViewStillTells
<1>1. IInv => ViewStillTells
  BY DEF IInv
<1>2. QED BY <1>1, Invariance, PTL

\* The unavailable count of a tier covers whoever really is taken out.
THEOREM CountIsSafe == Spec => []CountCoversTier
<1>1. IInv => CountCoversTier
  BY DEF IInv
<1>2. QED BY <1>1, Invariance, PTL

\* A node reported as drained is cordoned until it is asked to be uncordoned.
THEOREM DrainedIsCordoned == Spec => []CordonedWhileDrained
<1>1. IInv => CordonedWhileDrained
  BY DEF IInv
<1>2. QED BY <1>1, Invariance, PTL

\* Who is not exempt is taken out by two actions only.
LEMMA OnlyTwoDisrupt ==
  ASSUME IInv, [Next]_vars, NEW m \in Machines,
         ~Disrupted(m), Disrupted(m)', ~Exempt(m)
  PROVE  RequestDrain(m) \/ DeliverMajor(m)
<1>1. ~(UNCHANGED secret)
  BY DEF Disrupted
<1>2. ASSUME NEW n \in Machines, Environment(n) PROVE FALSE
  BY <1>2, EnvironmentDisruptsNobody
<1>3. ASSUME NEW n \in Machines, Consider(n) \/ AwaitKubelet(n)
      PROVE  RequestDrain(m) \/ DeliverMajor(m)
  <2>1. n = m
    <3>1. n # m => secret'[m] = secret[m]
      BY <1>3, ConsiderEffect DEF IInv
    <3>2. QED BY <3>1 DEF Disrupted
  <2>2. ~InDrain(view[m])
    BY DEF Exempt
  <2>3. ~DeliverInitial(m)
    BY FirstPlanDisruptsNobody
  <2>4. ~DeliverMinor(m)
    BY <2>2, MinorChangeDisruptsNobody
  <2>5. ~RequestUncordon(m)
    BY <2>2 DEF RequestUncordon, InDrain
  <2>6. ~OnlyLooks(m)
    BY <1>1 DEF OnlyLooks, AwaitDrain, HoldBack, AwaitPlan, AwaitUncordon,
      AwaitKubelet, Ready
  <2>7. QED
    BY <1>3, <2>1, <2>3, <2>4, <2>5, <2>6 DEF Consider, OnlyLooks
<1>4. ASSUME NEW n \in Machines, LoadSecret(n) PROVE FALSE
  BY <1>1, <1>4 DEF LoadSecret
<1>5. QED
  BY <1>1, <1>2, <1>3, <1>4
  DEF Next, PlannerStep, Environment, EditSpec, StartRound, FirstTier,
      NextTier, FinishRound, Abort, vars

LEMMA BudgetStep ==
  ASSUME IInv, IInv', [Next]_vars, NEW m \in Machines,
         ~Disrupted(m), Disrupted(m)', ~Exempt(m), Concurrency[pc] # 0
  PROVE  Cardinality({n \in TierOf[pc] : Disrupted(n)'}) <= Concurrency[pc]
<1> DEFINE out == {n \in TierOf[pc] : Disrupted(n)'}
<1>1. /\ MajorChange(m) /\ MayDisrupt(m) /\ Turn(m)
      /\ down' = down \cup {m} /\ pc' = pc
  BY OnlyTwoDisrupt DEF RequestDrain, DeliverMajor, Passed
<1>2. Cardinality(down) < Concurrency[pc]
  BY <1>1 DEF MayDisrupt
<1>3. pc \in Tiers /\ Concurrency[pc] \in Nat
  BY <1>1, RolloutAssumption DEF Turn
<1>4. out \subseteq down \cup {m}
  BY <1>1, <1>3 DEF IInv, CountCoversTier
<1>5. IsFiniteSet(down)
  <2>1. down \subseteq Machines /\ IsFiniteSet(Machines)
    BY RolloutAssumption DEF IInv, TypeOK
  <2>2. QED BY <2>1, FS_Subset
<1>6. /\ IsFiniteSet(down \cup {m})
      /\ Cardinality(down \cup {m}) <= Cardinality(down) + 1
      /\ Cardinality(down) \in Nat
  <2>1. /\ IsFiniteSet(down \cup {m})
        /\ Cardinality(down \cup {m}) =
             IF m \in down THEN Cardinality(down) ELSE Cardinality(down) + 1
    BY <1>5, FS_AddElement
  <2>2. Cardinality(down) \in Nat
    BY <1>5, FS_CardinalityType
  <2>3. QED BY <2>1, <2>2
<1>7. IsFiniteSet(out) /\ Cardinality(out) <= Cardinality(down \cup {m})
  BY <1>4, <1>6, FS_Subset
<1>8. Cardinality(out) \in Nat /\ Cardinality(down \cup {m}) \in Nat
  BY <1>6, <1>7, FS_CardinalityType
<1>9. QED BY <1>2, <1>3, <1>6, <1>7, <1>8

\* The concurrency of a tier bounds how many of its machines are really out
\* when one more is taken out, in every interleaving of rounds, agents and
\* controllers, with any number of machines.
THEOREM BudgetIsRespected == Spec => BudgetRespected
<1>1. IInv /\ IInv' /\ [Next]_vars =>
        [\A m \in Machines :
           ~Disrupted(m) /\ Disrupted(m)' =>
             \/ Exempt(m) \/ Concurrency[pc] = 0
             \/ Cardinality({n \in TierOf[pc] : Disrupted(n)'})
                  <= Concurrency[pc]]_vars
  BY BudgetStep
<1>2. QED BY <1>1, Invariance, PTL DEF Spec, BudgetRespected

\* Plans are replaced by the planner alone, and a first plan or a minor change
\* brings no restart stamp that was not there.
LEMMA RestartIsMajor ==
  ASSUME IInv, [Next]_vars, NEW m \in Machines, OrdersRestart(m)
  PROVE  DeliverMajor(m) /\ secret'[m].plan = goal
<1>1. ~(UNCHANGED secret) /\ secret'[m].plan # secret[m].plan
  BY DEF OrdersRestart
<1>2. ASSUME NEW n \in Machines, Environment(n) PROVE FALSE
  <2>1. n # m => secret'[m] = secret[m]
    BY <1>2, EnvironmentEffect DEF IInv
  <2>2. secret'[n].plan = secret[n].plan
    BY <1>2, EnvironmentEffect DEF IInv
  <2>3. QED BY <1>1, <2>1, <2>2
<1>3. ASSUME NEW n \in Machines, Consider(n) \/ AwaitKubelet(n)
      PROVE  DeliverMajor(m) /\ secret'[m].plan = goal
  <2>1. n = m
    <3>1. n # m => secret'[m] = secret[m]
      BY <1>3, ConsiderEffect DEF IInv
    <3>2. QED BY <1>1, <3>1
  <2>2. Delivers(m)
    <3>1. ~OnlyLooks(m)
      BY <1>1 DEF OnlyLooks, AwaitDrain, HoldBack, AwaitPlan, AwaitUncordon,
        AwaitKubelet, Ready
    <3>2. ~Annotates(m)
      <4>1. ASSUME NEW a \in Annotations, Annotate(m, a) PROVE FALSE
        BY <1>1, <4>1, AnnotateEffect DEF IInv
      <4>2. QED
        BY <4>1 DEF Annotates, RequestDrain, RequestUncordon, Annotations
    <3>3. QED
      BY <1>3, <2>1, <3>1, <3>2 DEF Consider, Delivers, Annotates, OnlyLooks
  <2>3. Turn(m) /\ UpdatePlan(m)
    BY <2>2 DEF Delivers, DeliverInitial, DeliverMinor, DeliverMajor
  <2>4. secret'[m].plan = goal
    BY <2>3, AtTurn, UpdatePlanEffect DEF IInv
  <2>5. ~DeliverInitial(m)
    BY <2>3, AtTurn DEF DeliverInitial, HasPlan, StillTells, OrdersRestart
  <2>6. ~DeliverMinor(m)
    <3> SUFFICES ASSUME DeliverMinor(m) PROVE FALSE
      OBVIOUS
    <3>1. view[m].plan # None /\ Body[view[m].plan] = Body[goal]
      BY DEF DeliverMinor, MinorChange, Change, HasPlan
    <3>2. Body[secret[m].plan] = Body[goal]
      BY <2>3, <3>1, AtTurn DEF StillTells
    <3>3. secret[m].plan \in Goals /\ goal \in Goals
      BY <2>3, AtTurn DEF OrdersRestart, SecretType, Plans
    <3>4. Stamp[secret[m].plan] = Stamp[goal]
      BY <3>2, <3>3, RolloutAssumption
    <3>5. QED BY <2>4, <3>4 DEF OrdersRestart
  <2>7. QED BY <2>2, <2>4, <2>5, <2>6 DEF Delivers
<1>4. ASSUME NEW n \in Machines, LoadSecret(n) PROVE FALSE
  BY <1>1, <1>4 DEF LoadSecret
<1>5. QED
  BY <1>1, <1>2, <1>3, <1>4
  DEF Next, PlannerStep, Environment, EditSpec, StartRound, FirstTier,
      NextTier, FinishRound, Abort, vars

\* No restart is ordered on a node that is in service, but through the two
\* gaps that the property names.
THEOREM RestartsAreDrained == Spec => RestartsDrainedAsRead
<1>1. ASSUME IInv, [Next]_vars, NEW m \in Machines, OrdersRestart(m)
      PROVE  \/ cordoned[m] \/ UnCordon \in view[m].ann
             \/ secret[m].applied # view[m].applied
  <2> SUFFICES ASSUME UnCordon \notin view[m].ann,
                      secret[m].applied = view[m].applied
               PROVE  cordoned[m]
    OBVIOUS
  <2>1. DeliverMajor(m) /\ secret'[m].plan = goal
    BY <1>1, RestartIsMajor
  <2>2. MustDrain(m)
    BY <1>1, <2>1 DEF OrdersRestart, MustDrain
  <2>3. Turn(m) /\ {Drain, DrainDone} \subseteq view[m].ann
    BY <2>1, <2>2 DEF DeliverMajor
  <2>4. {Drain, DrainDone} \subseteq secret[m].ann /\ UnCordon \notin secret[m].ann
    BY <1>1, <2>3, AtTurn DEF StillTells
  <2>5. QED BY <1>1, <2>4 DEF IInv, CordonedWhileDrained
<1>2. IInv /\ [Next]_vars =>
        [\A m \in Machines : OrdersRestart(m) =>
           \/ cordoned[m]
           \/ UnCordon \in view[m].ann
           \/ secret[m].applied # view[m].applied]_vars
  BY <1>1
<1>3. QED BY <1>2, Invariance, PTL DEF Spec, RestartsDrainedAsRead

-----------------------------------------------------------------------------
(* The order of the tiers.                                                   *)

\* The one way past the order: a machine in the drain process that is to get a
\* minor change, for which the tier does not wait.
Excused ==
  \E c \in Etcd \cup ControlPlane : MinorChange(c) /\ InDrain(view[c])

\* The machines of the tiers before one.
Behind ==
  [t \in Tiers |->
     CASE t = "bootstrap"    -> {}
       [] t = "etcd"         -> {InitNode}
       [] t = "controlplane" -> Etcd
       [] t = "worker"       -> Etcd \cup ControlPlane]

\* As far as was read, the machine is in service and runs the goal, up to minor
\* files.
UpToDate(m) ==
  HasPlan(m) /\ Settled(view[m]) /\ ~InDrain(view[m]) /\ ~MajorChange(m)

\* While a tier has nobody to wait for, those it has looked at are settled.  One
\* of them was held back only because of somebody who was unavailable when the
\* tier was entered; and whoever was unavailable then and has been looked at is
\* one of the excused.
LookedAt ==
  pc \in Tiers /\ ~waiting =>
    /\ \A m \in down : m \in TierOf[pc] /\ Unavailable(m)
    /\ \A m \in TierOf[pc] \ todo :
         /\ HasPlan(m) /\ Settled(view[m])
         /\ Unavailable(m) => MinorChange(m) /\ InDrain(view[m])
         /\ MajorChange(m) => down # {}

\* When a tier is entered, those of the tiers before it run the goal, and what
\* was read of them stays true for the rest of the round.
TiersInOrder ==
  pc \in Tiers =>
    \/ Excused
    \/ \A m \in Behind[pc] : UpToDate(m) /\ StillTells(view[m], secret[m])

InOrder == IInv /\ LookedAt /\ TiersInOrder

\* A tier and those before it are the machines before the next one, and those
\* that are but workers are in the last tier alone.  (A machine with both other
\* roles is looked at twice.)
LEMMA TiersFollow ==
  /\ \A t \in Tiers \ {"worker"} :
       /\ Behind[TierAfter[t]] \subseteq Behind[t] \cup TierOf[t]
       /\ TierOf[t] \subseteq Etcd \cup ControlPlane
  /\ \A t \in Tiers : Behind[t] \subseteq Machines
  /\ \A t \in Tiers : OnlyWorkers \cap TierOf[t] # {} => t = "worker"
<1>1. InitNode \in Etcd /\ Etcd \subseteq Machines /\ ControlPlane \subseteq Machines
  BY RolloutAssumption
<1>2. QED BY <1>1 DEF Tiers, Behind, TierAfter, TierOf, OnlyWorkers

\* They do not look at the rest of the state.
LEMMA InOrderFrame ==
  ASSUME InOrder, UNCHANGED <<secret, pc, goal, view, todo, down, waiting>>
  PROVE  LookedAt' /\ TiersInOrder'
<1> USE DEF InOrder, HasPlan, Change, MinorChange, MajorChange, Unavailable
<1>1. LookedAt'
  BY DEF LookedAt
<1>2. TiersInOrder'
  BY DEF TiersInOrder, Excused, UpToDate
<1>3. QED BY <1>1, <1>2

\* Agents and controllers do not turn back who was up to date.
LEMMA EnvironmentKeepsOrder ==
  ASSUME InOrder, NEW m \in Machines, Environment(m)
  PROVE  LookedAt' /\ TiersInOrder'
<1> USE DEF InOrder
<1>1. UNCHANGED <<pc, goal, view, todo, down, waiting>>
  BY EnvironmentEffect DEF IInv, plannerVars
<1>2. LookedAt'
  BY <1>1 DEF LookedAt, HasPlan, Change, MinorChange, MajorChange, Unavailable
<1>3. TiersInOrder'
  <2> SUFFICES ASSUME pc \in Tiers, ~Excused, NEW n \in Behind[pc]
               PROVE  UpToDate(n) /\ StillTells(view[n], secret'[n])
    BY <1>1 DEF TiersInOrder, Excused, UpToDate, HasPlan, Change, MinorChange,
      MajorChange
  <2>1. n \in Machines
    BY TiersFollow
  <2>2. UpToDate(n) /\ StillTells(view[n], secret[n])
    BY DEF TiersInOrder
  <2>3. QED BY <2>1, <2>2, EnvironmentLetsTell
<1>4. QED BY <1>2, <1>3

\* A tier that has looked at everyone and waits for nobody leaves its machines
\* up to date: had one been held back, somebody would be unavailable.
LEMMA TierIsThrough ==
  ASSUME InOrder, TierDone, ~waiting, pc # "worker", ~Excused,
         NEW m \in TierOf[pc]
  PROVE  UpToDate(m)
<1> USE DEF InOrder, TierDone
<1>1. TierOf[pc] \subseteq Etcd \cup ControlPlane
  BY TiersFollow
<1>2. \A n \in TierOf[pc] : HasPlan(n) /\ Settled(view[n]) /\ ~Unavailable(n)
  BY <1>1 DEF LookedAt, Excused
<1>3. down = {}
  BY <1>2 DEF LookedAt
<1>4. QED BY <1>2, <1>3 DEF LookedAt, UpToDate, Unavailable

LEMMA NextTierKeepsOrder ==
  ASSUME InOrder, FirstTier \/ NextTier
  PROVE  LookedAt' /\ TiersInOrder'
<1> USE DEF InOrder
<1>1. PICK t \in Tiers : EnterTier(t)
  BY TierFacts DEF FirstTier, NextTier, TierDone, Tiers
<1>2. /\ pc' = t /\ todo' = TierOf[t]
      /\ down' = {m \in TierOf[t] : HasPlan(m) /\ Unavailable(m)}
      /\ UNCHANGED <<secret, goal, view>>
  BY <1>1 DEF FirstTier, NextTier, EnterTier
<1>3. LookedAt'
  BY <1>2 DEF LookedAt, HasPlan, Change, MinorChange, MajorChange, Unavailable
<1>4. TiersInOrder'
  <2>1. CASE FirstTier
    <3>1. pc' = "bootstrap"
      BY <2>1 DEF FirstTier, EnterTier
    <3>2. QED BY <3>1 DEF TiersInOrder, Behind, Tiers
  <2>2. CASE NextTier
    <3>1. TierDone /\ ~waiting /\ pc # "worker" /\ pc \in Tiers
      BY <2>2 DEF NextTier, TierDone
    <3>2. pc' = TierAfter[pc]
      BY <2>2 DEF NextTier, EnterTier
    <3> SUFFICES ASSUME ~Excused, NEW m \in Behind[pc']
                 PROVE  UpToDate(m) /\ StillTells(view[m], secret[m])
      BY <1>2 DEF TiersInOrder, Excused, UpToDate, HasPlan, Change,
        MinorChange, MajorChange
    <3>3. m \in Behind[pc] \cup TierOf[pc]
      BY <3>1, <3>2, TiersFollow
    <3>4. CASE m \in Behind[pc]
      BY <3>1, <3>4 DEF TiersInOrder
    <3>5. CASE m \in TierOf[pc]
      <4>1. UpToDate(m)
        BY <3>1, <3>5, TierIsThrough
      <4>2. m \in loaded
        BY <3>1, <3>5, TierFacts DEF IInv, RoundShape
      <4>3. StillTells(view[m], secret[m])
        BY <3>1, <3>5, <4>2, TierFacts DEF IInv, ViewStillTells
      <4>4. QED BY <4>1, <4>3
    <3>6. QED BY <3>3, <3>4, <3>5
  <2>3. QED BY <2>1, <2>2
<1>5. QED BY <1>3, <1>4

\* Which steps let a tier go on without waiting for the machine, and what they
\* say of it.
LEMMA LetGo ==
  ASSUME InOrder, NEW m \in Machines, Consider(m) \/ AwaitKubelet(m), ~waiting'
  PROVE  /\ HasPlan(m) /\ Settled(view[m]) /\ down' = down
         /\ Unavailable(m) => MinorChange(m) /\ InDrain(view[m])
         /\ MajorChange(m) => down # {}
<1> USE DEF InOrder
<1>1. DeliverMinor(m) \/ HoldBack(m) \/ Ready(m)
  BY DEF Consider, DeliverInitial, DeliverMajor, RequestDrain, AwaitDrain,
    AwaitPlan, RequestUncordon, AwaitUncordon, AwaitKubelet, Passed
<1>2. CASE DeliverMinor(m)
  <2>1. MinorChange(m) /\ Settled(view[m]) /\ down' = down
    BY <1>2 DEF DeliverMinor, Passed
  <2>2. QED
    BY <2>1 DEF MinorChange, MajorChange, Change, Settled, Unavailable
<1>3. CASE HoldBack(m)
  <2>1. /\ MajorChange(m) /\ ~MayDisrupt(m) /\ Settled(view[m])
        /\ Turn(m) /\ down' = down
    BY <1>3 DEF HoldBack, Passed
  <2>2. down # {}
    <3>1. /\ Concurrency[pc] \in Nat /\ Concurrency[pc] # 0
          /\ ~(Cardinality(down) < Concurrency[pc])
      BY <2>1, RolloutAssumption DEF MayDisrupt, Turn
    <3>2. down = {} => Cardinality(down) = 0
      BY FS_EmptySet
    <3>3. QED BY <3>1, <3>2
  <2>3. ~Unavailable(m)
    BY <2>1 DEF MayDisrupt, Exempt, MajorChange, Settled, Unavailable
  <2>4. QED BY <2>1, <2>2, <2>3 DEF MajorChange, Change
<1>4. CASE Ready(m)
  <2>1. /\ HasPlan(m) /\ ~Change(m) /\ Settled(view[m]) /\ ~InDrain(view[m])
        /\ down' = down
    BY <1>4 DEF Ready, PlanInPlace, Passed
  <2>2. QED BY <2>1 DEF Settled, Unavailable, MajorChange
<1>5. QED BY <1>1, <1>2, <1>3, <1>4

\* A machine that is up to date and is looked at again, in the tier of its other
\* role, gets a minor change or nothing.
LEMMA StillUpToDate ==
  ASSUME InOrder, NEW m \in Machines, Consider(m) \/ AwaitKubelet(m),
         UpToDate(m), StillTells(view[m], secret[m])
  PROVE  StillTells(view[m], secret'[m])
<1>1. DeliverMinor(m) \/ AwaitUncordon(m) \/ AwaitKubelet(m) \/ Ready(m)
  BY DEF Consider, UpToDate, InDrain, DeliverInitial, DeliverMajor,
    RequestDrain, AwaitDrain, HoldBack, AwaitPlan, RequestUncordon
<1>2. CASE DeliverMinor(m)
  BY <1>2, MinorChangeLetsTell DEF InOrder
<1>3. CASE AwaitUncordon(m) \/ AwaitKubelet(m) \/ Ready(m)
  BY <1>3 DEF AwaitUncordon, AwaitKubelet, Ready
<1>4. QED BY <1>1, <1>2, <1>3

LEMMA ConsiderKeepsOrder ==
  ASSUME InOrder, NEW m \in Machines, Consider(m) \/ AwaitKubelet(m)
  PROVE  LookedAt' /\ TiersInOrder'
<1> USE DEF InOrder
<1>1. /\ pc \in Tiers /\ m \in todo /\ todo' = todo \ {m}
      /\ UNCHANGED <<pc, goal, view>> /\ (waiting => waiting')
      /\ \A n \in Machines \ {m} : secret'[n] = secret[n]
  BY ConsiderEffect DEF IInv, Frame
<1>2. m \in TierOf[pc]
  BY <1>1 DEF IInv, RoundShape
<1>3. LookedAt'
  <2> SUFFICES ASSUME ~waiting'
               PROVE  /\ \A n \in down' : n \in TierOf[pc] /\ Unavailable(n)
                      /\ \A n \in TierOf[pc] \ todo' :
                           /\ HasPlan(n) /\ Settled(view[n])
                           /\ Unavailable(n) => MinorChange(n) /\ InDrain(view[n])
                           /\ MajorChange(n) => down' # {}
    BY <1>1 DEF LookedAt, HasPlan, Change, MinorChange, MajorChange, Unavailable
  <2>1. /\ HasPlan(m) /\ Settled(view[m]) /\ down' = down
        /\ Unavailable(m) => MinorChange(m) /\ InDrain(view[m])
        /\ MajorChange(m) => down # {}
    BY LetGo
  <2>2. QED BY <1>1, <2>1 DEF LookedAt
<1>4. TiersInOrder'
  <2> SUFFICES ASSUME ~Excused, NEW n \in Behind[pc]
               PROVE  UpToDate(n) /\ StillTells(view[n], secret'[n])
    BY <1>1 DEF TiersInOrder, Excused, UpToDate, HasPlan, Change, MinorChange,
      MajorChange
  <2>1. n \in Machines
    BY <1>1, TiersFollow
  <2>2. UpToDate(n) /\ StillTells(view[n], secret[n])
    BY <1>1 DEF TiersInOrder
  <2>3. CASE n = m
    BY <2>2, <2>3, StillUpToDate
  <2>4. CASE n # m
    BY <1>1, <2>1, <2>2, <2>4
  <2>5. QED BY <2>2, <2>3, <2>4
<1>5. QED BY <1>3, <1>4

LEMMA InOrderInit == Init => InOrder
<1> SUFFICES ASSUME Init PROVE InOrder
  OBVIOUS
<1>1. pc \notin Tiers
  BY DEF Init, Tiers
<1>2. QED BY <1>1, IInvInit DEF InOrder, LookedAt, TiersInOrder

LEMMA InOrderStep == InOrder /\ [Next]_vars => InOrder'
<1> SUFFICES ASSUME InOrder, [Next]_vars PROVE LookedAt' /\ TiersInOrder'
  BY IInvStep DEF InOrder
<1>1. CASE pc' \notin Tiers
  BY <1>1 DEF LookedAt, TiersInOrder
<1>2. CASE EditSpec
  BY <1>2, InOrderFrame DEF EditSpec, plannerVars
<1>3. CASE StartRound \/ FinishRound \/ Abort
  BY <1>1, <1>3 DEF StartRound, FinishRound, Abort, EndRound, Tiers
<1>4. ASSUME NEW m \in Machines, LoadSecret(m) PROVE LookedAt' /\ TiersInOrder'
  BY <1>1, <1>4 DEF LoadSecret, Tiers
<1>5. CASE FirstTier \/ NextTier
  BY <1>5, NextTierKeepsOrder
<1>6. ASSUME NEW m \in Machines, Consider(m) \/ AwaitKubelet(m)
      PROVE  LookedAt' /\ TiersInOrder'
  BY <1>6, ConsiderKeepsOrder
<1>7. ASSUME NEW m \in Machines, Environment(m) PROVE LookedAt' /\ TiersInOrder'
  BY <1>7, EnvironmentKeepsOrder
<1>8. CASE UNCHANGED vars
  BY <1>8, InOrderFrame DEF vars, plannerVars
<1>9. QED
  BY <1>2, <1>3, <1>4, <1>5, <1>6, <1>7, <1>8
  DEF Next, PlannerStep, Environment

\* Whoever is up to date as far as was read has the goal in the secret, and has
\* it applied.
LEMMA UpToDateInSecret ==
  ASSUME NEW m \in Machines, TypeOK, goal # None, UpToDate(m),
         StillTells(view[m], secret[m])
  PROVE  /\ secret[m].plan # None /\ secret[m].applied # None
         /\ Body[secret[m].plan] = Body[goal]
         /\ Body[secret[m].applied] = Body[goal]
<1>1. view[m].plan # None /\ InSync(view[m])
  BY DEF UpToDate, HasPlan, Settled
<1>2. Body[view[m].plan] = Body[goal]
  BY DEF UpToDate, MajorChange, Change
<1>3. QED BY <1>1, <1>2 DEF StillTells

LEMMA WorkersStep ==
  ASSUME InOrder, [Next]_vars, NEW w \in OnlyWorkers,
         secret'[w].plan # secret[w].plan
  PROVE  \/ \A c \in Etcd \cup ControlPlane :
              /\ secret[c].plan # None /\ secret[c].applied # None
              /\ Body[secret[c].plan] = Body[goal]
              /\ Body[secret[c].applied] = Body[goal]
         \/ Excused
<1> USE DEF InOrder
<1>1. w \in Machines /\ ~(UNCHANGED secret)
  BY TierFacts DEF OnlyWorkers, Tiers
<1>2. ASSUME NEW n \in Machines, Environment(n) PROVE FALSE
  <2>1. n # w => secret'[w] = secret[w]
    BY <1>1, <1>2, EnvironmentEffect DEF IInv
  <2>2. secret'[n].plan = secret[n].plan
    BY <1>2, EnvironmentEffect DEF IInv
  <2>3. QED BY <2>1, <2>2
<1>3. ASSUME NEW n \in Machines, Consider(n) \/ AwaitKubelet(n)
      PROVE  pc = "worker" /\ goal # None
  <2>1. /\ pc \in Tiers /\ goal # None /\ n \in todo
        /\ n # w => secret'[w] = secret[w]
    BY <1>1, <1>3, ConsiderEffect DEF IInv
  <2>2. w \in TierOf[pc]
    BY <2>1 DEF IInv, RoundShape
  <2>3. QED BY <2>1, <2>2, TiersFollow
<1>4. ASSUME NEW n \in Machines, LoadSecret(n) PROVE FALSE
  BY <1>1, <1>4 DEF LoadSecret
<1>5. pc = "worker" /\ goal # None
  BY <1>1, <1>2, <1>3, <1>4
  DEF Next, PlannerStep, Environment, EditSpec, StartRound, FirstTier,
      NextTier, FinishRound, Abort, vars
<1>6. CASE ~Excused
  <2> SUFFICES ASSUME NEW c \in Etcd \cup ControlPlane
               PROVE  /\ secret[c].plan # None /\ secret[c].applied # None
                      /\ Body[secret[c].plan] = Body[goal]
                      /\ Body[secret[c].applied] = Body[goal]
    OBVIOUS
  <2>1. c \in Behind["worker"] /\ c \in Machines /\ "worker" \in Tiers
    BY RolloutAssumption DEF Behind, Tiers
  <2>2. UpToDate(c) /\ StillTells(view[c], secret[c])
    BY <1>5, <1>6, <2>1 DEF TiersInOrder
  <2>3. QED BY <1>5, <2>1, <2>2, UpToDateInSecret DEF IInv
<1>7. QED BY <1>6

\* No worker gets a plan that the etcd and control plane machines do not run
\* yet, but for the one gap that the property names: in every interleaving of
\* rounds, agents and controllers, for any machines, roles and options.
THEOREM ControlPlaneFirst == Spec => WorkersAfterControlPlane
<1>1. InOrder /\ [Next]_vars =>
        [\A w \in OnlyWorkers : secret'[w].plan # secret[w].plan =>
           \/ \A c \in Etcd \cup ControlPlane :
                /\ secret[c].plan # None /\ secret[c].applied # None
                /\ Body[secret[c].plan] = Body[goal]
                /\ Body[secret[c].applied] = Body[goal]
           \/ \E c \in Etcd \cup ControlPlane :
                MinorChange(c) /\ InDrain(view[c])]_vars
  BY WorkersStep DEF Excused
<1>2. QED BY <1>1, InOrderInit, InOrderStep, PTL
  DEF Spec, WorkersAfterControlPlane

=============================================================================
