--------------------------- MODULE InitNode_proofs ---------------------------
(****************************************************************************)
(* Proofs about InitNode, for any machines and any fixed init node.         *)
(****************************************************************************)
EXTENDS InitNode, FiniteSetTheorems, TLAPS

-----------------------------------------------------------------------------
(* The inductive invariant.                                                  *)

\* What a round has read of the plan secrets still holds of those that are
\* still there, but for the labels that the round itself writes; and if the
\* version of the control plane is still the one that it has read, so are the
\* request and the phase.
RoundKnows ==
  pc # "idle" =>
    /\ seen.mark \subseteq Seen
    /\ url \subseteq seen.url
    /\ \A m \in seen.url : m \in url \/ stage[m] = "gone"
    /\ \A m \in seen.known : m \in known \/ stage[m] = "gone"
    /\ seen.version <= restores
    /\ seen.version = restores =>
         seen.restore = restore /\ seen.phase = phase

\* What each loop of a round may rely on.
LoopShape ==
  /\ pc \in {"read", "elect", "deliver", "join"} => mark \subseteq seen.mark
  /\ pc \in {"elect", "deliver", "join"} => seen.phase \in {"none", "restart"}
  /\ pc = "designate" => seen.phase \in {"shutdown", "restore"}
  /\ pc = "elect" => ~Found
  /\ pc \in {"deliver", "join"} => Found
  /\ pc \in {"elect", "deliver"} => todo \subseteq seen.mark
  /\ pc = "designate" =>
       /\ todo \subseteq Seen
       /\ ~changed => /\ mark \subseteq seen.mark
                      /\ \A m \in Seen \ todo :
                           m = seen.restore <=> m \in seen.mark

IInv == TypeOK /\ RoundKnows /\ LoopShape

-----------------------------------------------------------------------------
(* Helpers.                                                                  *)

LEMMA NoViewTyped == NoView \in ViewType
  BY DEF NoView, ViewType, Maybe, Phases, Stages

\* Whoever has its turn, or is elected, still has a plan secret.
LEMMA TargetsPresent ==
  ASSUME ~Stuck
  PROVE  /\ \A m : pc \in {"elect", "deliver", "join"} /\ Turn(m) =>
              m \in todo /\ stage[m] \in Present
         /\ \A m : pc = "elect" /\ todo = {} /\ ~changed
                     /\ m \in First(Candidates) => stage[m] \in Present
         /\ \A m : pc = "designate" /\ Turn(m) =>
              /\ m \in todo
              /\ (m = seen.restore) # (m \in seen.mark)
                   => stage[m] \in Present
         /\ pc = "designate" /\ todo = {} /\ seen.phase = "restore" =>
              \A m \in seen.mark : stage[m] \in Present
<1>1. \A m : m \in Target => stage[m] \in Present
  BY DEF Stuck
<1>2. \A m : m \in First(todo) => m \in todo
  BY DEF First
<1>3. \A m : pc \in {"elect", "deliver", "join"} /\ Turn(m) => m \in Target
  BY <1>2 DEF Turn, Target
<1>4. \A m : pc = "elect" /\ todo = {} /\ ~changed /\ m \in First(Candidates)
               => m \in Target
  BY DEF Target
<1>5. \A m : pc = "designate" /\ Turn(m)
               /\ (m = seen.restore) # (m \in seen.mark) => m \in Target
  BY <1>2 DEF Turn, Target
<1>6. \A m : pc = "designate" /\ todo = {} /\ seen.phase = "restore"
               /\ m \in seen.mark => m \in Target
  BY DEF Target
<1>7. QED BY <1>1, <1>2, <1>3, <1>4, <1>5, <1>6 DEF Turn

\* A round that is over has nothing to rely on.
LEMMA RoundOver ==
  ASSUME EndRound
  PROVE  /\ RoundKnows' /\ LoopShape'
         /\ pc' = "idle" /\ seen' = NoView /\ seen' \in ViewType
         /\ todo' = {} /\ changed' = FALSE
<1>1. pc' = "idle" /\ seen' = NoView /\ todo' = {} /\ changed' = FALSE
  BY DEF EndRound
<1>2. QED BY <1>1, NoViewTyped DEF RoundKnows, LoopShape

LEMMA StatusTyped ==
  ASSUME TypeOK, NEW p \in Phases, NEW b \in BOOLEAN, Status(p, b)
  PROVE  phase' \in Phases /\ bootstrapped' \in BOOLEAN
  BY DEF TypeOK, Status

-----------------------------------------------------------------------------
(* The invariant holds.                                                      *)

LEMMA IInvInit == Init => IInv
<1> SUFFICES ASSUME Init PROVE IInv
  OBVIOUS
<1>1. stage \in [Machines -> Stages]
  BY DEF Init, Stages
<1>2. /\ mark = {} /\ url = {} /\ planned = {} /\ known = {}
      /\ restore \in Maybe /\ phase \in Phases /\ restoredOn \in Maybe
      /\ pc = "idle" /\ seen = NoView /\ todo = {}
  BY DEF Init, Maybe, Phases
<1>3. bootstrapped \in BOOLEAN /\ changed \in BOOLEAN /\ ~changed
  BY DEF Init
<1>4. churn \in 0..MaxChurn /\ restores \in 0..MaxRestores
        /\ faults \in 0..MaxFaults
  BY InitNodeAssumption DEF Init
<1>5. TypeOK
  BY <1>1, <1>2, <1>3, <1>4, NoViewTyped DEF TypeOK
<1>6. QED BY <1>2, <1>5 DEF IInv, RoundKnows, LoopShape

LEMMA SameView ==
  ASSUME seen' = seen
  PROVE  Seen' = Seen /\ (Found' <=> Found)
BY DEF Seen, Found, CanBeInitNode, Populated

\* A machine that comes, fails, recovers or goes, or whose node comes up.
LEMMA MachineKeeps ==
  ASSUME IInv, NEW m \in Machines, MachineStep(m) \/ BecomeKnown(m)
  PROVE  IInv'
<1> USE DEF IInv
<1>1. /\ stage' \in [Machines -> Stages]
      /\ \A n \in Machines : stage[n] = "gone" => stage'[n] = "gone"
  <2>1. ASSUME NEW s \in Stages, Become(m, s), stage[m] # "gone"
        PROVE  /\ stage' \in [Machines -> Stages]
               /\ \A n \in Machines : stage[n] = "gone" => stage'[n] = "gone"
    BY <2>1 DEF TypeOK, Become
  <2>2. CASE BecomeKnown(m) BY <2>2 DEF TypeOK, BecomeKnown
  <2>3. CASE MachineStep(m)
    BY <2>1, <2>3
       DEF MachineStep, Appear, GetReady, Fail, Delete, Vanish, Stages
  <2>4. QED BY <2>2, <2>3
<1>2. /\ mark' \subseteq mark /\ url' \subseteq url
      /\ planned' \subseteq planned
      /\ url' \subseteq planned' /\ known' \subseteq planned'
      /\ \A n \in Machines \ {m} : n \in url => n \in url'
      /\ \A n \in Machines \ {m} : n \in known => n \in known'
      /\ m \in url => m \in url' \/ stage'[m] = "gone"
      /\ m \in known => m \in known' \/ stage'[m] = "gone"
  BY DEF TypeOK, MachineStep, Appear, GetReady, Fail, Delete, Vanish,
         BecomeKnown, Become, secretVars
<1>3. \A n \in mark' \cup planned' : stage'[n] \in Present
  <2>1. CASE Vanish(m)
    BY <2>1 DEF TypeOK, Vanish, Become, secretVars
  <2>2. CASE Appear(m) \/ GetReady(m) \/ Fail(m) \/ Delete(m)
    BY <2>2 DEF TypeOK, Appear, GetReady, Fail, Delete, Become, Present,
                secretVars
  <2>3. CASE BecomeKnown(m)
    BY <2>3 DEF TypeOK, BecomeKnown, secretVars
  <2>4. QED BY <2>1, <2>2, <2>3 DEF MachineStep
<1>4. UNCHANGED <<statusVars, plannerVars, restores, faults>>
  BY DEF MachineStep, Appear, GetReady, Fail, Delete, Vanish, BecomeKnown,
         boundVars
<1>5. churn' \in 0..MaxChurn
  BY InitNodeAssumption
     DEF TypeOK, MachineStep, Appear, GetReady, Fail, Delete, Vanish,
         BecomeKnown, boundVars, Churn
<1>6. TypeOK'
  BY <1>1, <1>2, <1>3, <1>4, <1>5 DEF TypeOK, statusVars, plannerVars
<1>7. Seen' = Seen /\ (Found' <=> Found)
  BY <1>4, SameView DEF plannerVars
<1>8. RoundKnows'
  BY <1>1, <1>2, <1>4, <1>7
     DEF RoundKnows, plannerVars, statusVars, TypeOK, ViewType
<1>9. LoopShape'
  BY <1>2, <1>4, <1>7 DEF LoopShape, plannerVars
<1>10. QED BY <1>6, <1>8, <1>9

\* A restore is asked for or withdrawn.
LEMMA AskingKeeps ==
  ASSUME IInv, NEW d \in Maybe, AskForRestore(d)
  PROVE  IInv'
<1> USE DEF IInv
<1>1. /\ UNCHANGED <<stage, secretVars, known, plannerVars>>
      /\ restores' = restores + 1
  BY DEF AskForRestore
<1>2. /\ restore' \in Maybe /\ restoredOn' \in Maybe /\ phase' \in Phases
      /\ bootstrapped' \in BOOLEAN /\ churn' = churn /\ faults' = faults
      /\ restores' \in 0..MaxRestores
  BY InitNodeAssumption DEF AskForRestore, TypeOK, Maybe, Phases
<1>3. TypeOK'
  BY <1>1, <1>2 DEF TypeOK, secretVars, plannerVars
<1>4. Seen' = Seen /\ (Found' <=> Found)
  BY <1>1, SameView DEF plannerVars
<1>5. pc # "idle" => seen'.version <= restores' /\ seen'.version # restores'
  <2>1. seen.version \in Nat /\ restores \in Nat
    BY InitNodeAssumption DEF TypeOK, ViewType
  <2>2. pc # "idle" => seen.version <= restores
    BY DEF RoundKnows
  <2>3. QED BY <1>1, <2>1, <2>2 DEF plannerVars
<1>6. RoundKnows'
  BY <1>1, <1>4, <1>5 DEF RoundKnows, plannerVars, secretVars
<1>7. LoopShape'
  BY <1>1, <1>4 DEF LoopShape, plannerVars, secretVars
<1>8. QED BY <1>3, <1>6, <1>7

\* What a step has to leave in place of the plan secrets and the status.
SecretsSound ==
  /\ mark \subseteq Machines /\ url \subseteq planned
  /\ planned \subseteq Machines /\ known \subseteq planned
  /\ \A m \in mark \cup planned : stage[m] \in Present

StatusTypes ==
  restore \in Maybe /\ phase \in Phases /\ restoredOn \in Maybe
    /\ bootstrapped \in BOOLEAN

LEMMA TypeParts ==
  TypeOK => SecretsSound /\ StatusTypes
BY DEF TypeOK, SecretsSound, StatusTypes

\* A step that ends the round keeps the invariant if the secrets are sound.
LEMMA EndKeeps ==
  ASSUME IInv, EndRound, SecretsSound', StatusTypes', UNCHANGED stage,
         UNCHANGED churn, UNCHANGED restores, faults' \in 0..MaxFaults
  PROVE  IInv'
<1>1. /\ RoundKnows' /\ LoopShape'
      /\ pc' = "idle" /\ seen' = NoView /\ seen' \in ViewType
      /\ todo' = {} /\ changed' = FALSE
  BY RoundOver
<1>2. changed' \in BOOLEAN /\ ~changed'
  BY <1>1
<1>3. /\ stage' \in [Machines -> Stages] /\ todo' \subseteq Machines
      /\ churn' \in 0..MaxChurn /\ restores' \in 0..MaxRestores
  BY <1>1 DEF IInv, TypeOK
<1>4. url' \subseteq Machines /\ known' \subseteq Machines
  BY DEF SecretsSound
<1>5. (pc = "idle" => seen = NoView /\ todo = {} /\ ~changed)'
  BY <1>1, <1>2
<1>6. /\ mark' \subseteq Machines /\ planned' \subseteq Machines
      /\ url' \subseteq planned' /\ known' \subseteq planned'
      /\ (\A m \in mark \cup planned : stage[m] \in Present)'
  BY DEF SecretsSound
<1>7. pc' \in {"idle", "read", "elect", "designate", "deliver", "join"}
  BY <1>1
<1>8. /\ restore' \in Maybe /\ phase' \in Phases /\ restoredOn' \in Maybe
      /\ bootstrapped' \in BOOLEAN
  BY DEF StatusTypes
<1>9. TypeOK'
  BY <1>1, <1>2, <1>3, <1>4, <1>5, <1>6, <1>7, <1>8 DEF TypeOK
<1>10. QED BY <1>1, <1>9 DEF IInv

\* Steps that end the round without writing a plan secret.
LEMMA QuietEndKeeps ==
  ASSUME IInv,
         CutOff \/ GiveUp \/ Cleared \/ Redesignated \/ ShutDown \/ Joined
  PROVE  IInv'
<1>1. /\ EndRound /\ UNCHANGED <<stage, secretVars, known, restore>>
      /\ UNCHANGED <<churn, restores>> /\ faults' \in 0..MaxFaults
  <2>1. faults \in 0..MaxFaults
    BY DEF IInv, TypeOK
  <2>2. CASE CutOff
    <3>1. faults' \in 0..MaxFaults
      BY <2>1, <2>2, InitNodeAssumption DEF CutOff
    <3>2. QED BY <2>2, <3>1 DEF CutOff, statusVars
  <2>3. CASE GiveUp BY <2>1, <2>3 DEF GiveUp, statusVars, boundVars
  <2>4. CASE Cleared BY <2>1, <2>4 DEF Cleared, statusVars, boundVars
  <2>5. CASE Redesignated
    BY <2>1, <2>5 DEF Redesignated, statusVars, boundVars
  <2>6. CASE ShutDown BY <2>1, <2>6 DEF ShutDown, boundVars
  <2>7. CASE Joined BY <2>1, <2>7 DEF Joined, boundVars
  <2>8. QED BY <2>2, <2>3, <2>4, <2>5, <2>6, <2>7
<1>2. StatusTypes'
  <2>1. CASE CutOff \/ GiveUp \/ Cleared \/ Redesignated
    BY <2>1 DEF CutOff, GiveUp, Cleared, Redesignated, statusVars, IInv,
                TypeOK, StatusTypes
  <2>2. CASE ShutDown
    <3>1. /\ TypeOK /\ "shutdown" \in Phases /\ "restore" \in Phases
          /\ FALSE \in BOOLEAN /\ bootstrapped \in BOOLEAN
      BY DEF IInv, TypeOK, Phases
    <3>2. phase' \in Phases /\ bootstrapped' \in BOOLEAN
      BY <2>2, <3>1, StatusTyped DEF ShutDown
    <3>3. restoredOn' = restoredOn
      BY <2>2 DEF ShutDown
    <3>4. QED BY <1>1, <3>1, <3>2, <3>3 DEF StatusTypes, TypeOK
  <2>3. CASE Joined
    <3>1. /\ TypeOK /\ "none" \in Phases /\ seen.phase \in Phases
          /\ TRUE \in BOOLEAN
      BY DEF IInv, TypeOK, Phases, ViewType
    <3>2. phase' \in Phases /\ bootstrapped' \in BOOLEAN
      BY <2>3, <3>1, StatusTyped DEF Joined
    <3>3. restoredOn' = restoredOn
      BY <2>3 DEF Joined
    <3>4. QED BY <1>1, <3>1, <3>2, <3>3 DEF StatusTypes, TypeOK
  <2>4. QED BY <2>1, <2>2, <2>3
<1>3. SecretsSound'
  BY <1>1, TypeParts DEF IInv, SecretsSound, secretVars
<1>4. QED BY <1>1, <1>2, <1>3, EndKeeps

\* Steps that write one plan secret and end the round.
LEMMA WritingEndKeeps ==
  ASSUME IInv, NEW m \in Machines,
         RecordJoinURL(m) \/ Elect(m) \/ RestoreSnapshot(m)
  PROVE  IInv'
<1>1. /\ EndRound /\ UNCHANGED <<stage, known, restore>>
      /\ UNCHANGED <<churn, restores>> /\ faults' \in 0..MaxFaults
  BY DEF RecordJoinURL, Elect, RestoreSnapshot, statusVars, boundVars, IInv,
         TypeOK
<1>2. SecretsSound /\ StatusTypes
  BY TypeParts DEF IInv
<1>3. stage[m] \in Present
  BY TargetsPresent
     DEF RecordJoinURL, Elect, RestoreSnapshot, Ready
<1>4. m \notin planned => ~RecordJoinURL(m)
  BY <1>2, <1>3
     DEF RecordJoinURL, Unrecorded, IInv, RoundKnows, SecretsSound, Present
<1>5. mark' \subseteq mark \cup {m}
  BY DEF RecordJoinURL, Elect, RestoreSnapshot, Overlay
<1>6. SecretsSound'
  BY <1>1, <1>2, <1>3, <1>4, <1>5
     DEF RecordJoinURL, Elect, RestoreSnapshot, SecretsSound
<1>7. StatusTypes'
  <2>1. CASE RecordJoinURL(m) \/ Elect(m)
    BY <1>2, <2>1 DEF RecordJoinURL, Elect, StatusTypes, statusVars
  <2>2. CASE RestoreSnapshot(m)
    <3>1. PICK p \in {"restore", "restart"} : Status(p, bootstrapped)
      BY <2>2 DEF RestoreSnapshot
    <3>2. TypeOK /\ p \in Phases /\ m \in Maybe /\ bootstrapped \in BOOLEAN
      BY DEF IInv, TypeOK, Phases, Maybe
    <3>3. phase' \in Phases /\ bootstrapped' \in BOOLEAN
      BY <3>1, <3>2, StatusTyped
    <3>4. restoredOn' = m
      BY <2>2 DEF RestoreSnapshot
    <3>5. QED BY <1>1, <1>2, <3>2, <3>3, <3>4 DEF StatusTypes
  <2>3. QED BY <2>1, <2>2
<1>8. QED BY <1>1, <1>6, <1>7, EndKeeps

\* A step in the midst of a round keeps what the round knows.
LEMMA MidKeeps ==
  ASSUME IInv, pc # "idle", UNCHANGED <<stage, url, known, statusVars, seen>>,
         UNCHANGED boundVars, SecretsSound',
         pc' \in {"read", "elect", "designate", "deliver", "join"},
         todo' \subseteq Machines, changed' \in BOOLEAN
  PROVE  TypeOK' /\ RoundKnows'
<1>1. StatusTypes'
  BY TypeParts DEF IInv, StatusTypes, statusVars
<1>2. /\ stage' \in [Machines -> Stages] /\ seen' \in ViewType
      /\ churn' \in 0..MaxChurn /\ restores' \in 0..MaxRestores
      /\ faults' \in 0..MaxFaults
  BY DEF IInv, TypeOK, boundVars
<1>3. /\ mark' \subseteq Machines /\ planned' \subseteq Machines
      /\ url' \subseteq planned' /\ known' \subseteq planned'
      /\ (\A m \in mark \cup planned : stage[m] \in Present)'
  BY DEF SecretsSound
<1>4. url' \subseteq Machines /\ known' \subseteq Machines
  BY <1>3
<1>5. TypeOK'
  BY <1>1, <1>2, <1>3, <1>4 DEF TypeOK, StatusTypes
<1>6. Seen' = Seen
  BY SameView
<1>7. RoundKnows'
  BY <1>6 DEF IInv, RoundKnows, statusVars, boundVars
<1>8. QED BY <1>5, <1>7

\* The secrets that are read are those that there are.
LEMMA LoadKeeps ==
  ASSUME IInv, Load
  PROVE  IInv'
<1>1. /\ pc = "idle" /\ pc' = "read"
      /\ UNCHANGED <<stage, secretVars, known, restore, phase, bootstrapped>>
      /\ UNCHANGED <<todo, changed, boundVars>> /\ restoredOn' = Nobody
      /\ seen' = [stage |-> stage, mark |-> mark, url |-> url,
                  planned |-> planned, known |-> known,
                  restore |-> restore, phase |-> phase, version |-> restores]
  BY DEF Load
<1>2. restores \in Nat /\ restores <= restores
  BY InitNodeAssumption DEF IInv, TypeOK
<1>8. seen' \in ViewType
  BY <1>1, <1>2 DEF IInv, TypeOK, ViewType
<1>3. TypeOK'
  BY <1>1, <1>8 DEF IInv, TypeOK, Maybe, secretVars, boundVars
<1>4. Seen' = {m \in Machines : stage[m] \in Present}
  BY <1>1 DEF Seen
<1>5. RoundKnows'
  BY <1>1, <1>2, <1>4 DEF IInv, TypeOK, RoundKnows, secretVars, boundVars
<1>6. LoopShape'
  BY <1>1 DEF LoopShape, secretVars
<1>7. QED BY <1>3, <1>5, <1>6 DEF IInv

\* The round sets out on one of its loops.
LEMMA SeekKeeps ==
  ASSUME IInv, SeekInitNode \/ SeekHolder
  PROVE  IInv'
<1>1. /\ UNCHANGED <<stage, secretVars, known, statusVars, boundVars, seen>>
      /\ pc = "read" /\ changed' = FALSE
  BY DEF SeekInitNode, SeekHolder, GoTo
<1>2. Seen' = Seen /\ (Found' <=> Found)
  BY <1>1, SameView
<1>3. /\ mark \subseteq seen.mark /\ seen.mark \subseteq Seen
      /\ Seen \subseteq Machines
  BY <1>1 DEF IInv, RoundKnows, LoopShape, Seen
<1>4. SecretsSound'
  BY <1>1, TypeParts DEF IInv, SecretsSound, secretVars
<1>5. CASE SeekInitNode
  <2>1. /\ seen.phase \in {"none", "restart"}
        /\ \/ Found /\ pc' = "deliver" /\ todo' = seen.mark \ Deleting
           \/ ~Found /\ pc' = "elect" /\ todo' = seen.mark \ {Fixed}
    BY <1>5 DEF SeekInitNode, GoTo
  <2>2. TypeOK' /\ RoundKnows'
    BY <1>1, <1>3, <1>4, <2>1, MidKeeps DEF secretVars
  <2>3. LoopShape'
    BY <1>1, <1>2, <1>3, <2>1 DEF LoopShape, secretVars
  <2>4. QED BY <2>2, <2>3 DEF IInv
<1>6. CASE SeekHolder
  <2>1. /\ pc' = "designate" /\ todo' = Seen
        /\ seen.phase \in {"shutdown", "restore"}
    BY <1>6 DEF SeekHolder, GoTo
  <2>2. TypeOK' /\ RoundKnows'
    BY <1>1, <1>3, <1>4, <2>1, MidKeeps DEF secretVars
  <2>3. LoopShape'
    BY <1>1, <1>2, <1>3, <2>1 DEF LoopShape, secretVars
  <2>4. QED BY <2>2, <2>3 DEF IInv
<1>7. QED BY <1>5, <1>6

\* The init node has its plan; the round ends, or goes on with the others.
LEMMA StartedKeeps ==
  ASSUME IInv, InitNodeStarted
  PROVE  IInv'
<1>1. /\ pc = "deliver" /\ UNCHANGED <<stage, secretVars, known, restore>>
      /\ UNCHANGED <<restoredOn, boundVars>>
  BY DEF InitNodeStarted, Ready
<1>2. SecretsSound'
  BY <1>1, TypeParts DEF IInv, SecretsSound, secretVars
<1>3. CASE Status(seen.phase, TRUE) /\ EndRound
  <2>1. /\ TypeOK /\ seen.phase \in Phases /\ restoredOn \in Maybe
        /\ TRUE \in BOOLEAN /\ restore \in Maybe /\ faults \in 0..MaxFaults
    BY DEF IInv, TypeOK, ViewType
  <2>2. StatusTypes'
    BY <1>1, <1>3, <2>1, StatusTyped DEF StatusTypes
  <2>3. QED BY <1>1, <1>2, <1>3, <2>1, <2>2, EndKeeps DEF boundVars
<1>4. CASE /\ GoTo("join", Seen \ (seen.mark \cup Deleting))
           /\ UNCHANGED <<phase, bootstrapped>>
  <2>1. /\ pc' = "join" /\ seen' = seen /\ changed' = FALSE
        /\ todo' \subseteq Machines /\ UNCHANGED statusVars
    BY <1>1, <1>4 DEF GoTo, Seen, statusVars
  <2>2. TypeOK' /\ RoundKnows'
    BY <1>1, <1>2, <2>1, MidKeeps DEF secretVars
  <2>3. LoopShape'
    BY <1>1, <2>1, SameView DEF IInv, LoopShape, secretVars
  <2>4. QED BY <2>2, <2>3 DEF IInv
<1>5. QED BY <1>3, <1>4 DEF InitNodeStarted

\* A secret is written by one of the loops.
LEMMA VisitKeeps ==
  ASSUME IInv, NEW m \in Machines,
         ClearMark(m) \/ Designate(m) \/ StartInitNode(m) \/ Join(m)
  PROVE  IInv'
<1>1. /\ UNCHANGED <<stage, url, known, statusVars, boundVars, seen>>
      /\ pc' = pc /\ todo' = todo \ {m}
      /\ pc \in {"elect", "designate", "deliver", "join"}
  BY DEF ClearMark, Designate, StartInitNode, Join, HandOut, Visited
<1>2. Turn(m) /\ ~Stuck
  BY DEF ClearMark, Designate, StartInitNode, Join, Turn
<1>3. /\ todo' \subseteq Machines /\ changed \in BOOLEAN
      /\ planned \subseteq Machines
  BY <1>1 DEF IInv, TypeOK
<1>4. SecretsSound
  BY TypeParts DEF IInv
<1>5. Seen' = Seen /\ (Found' <=> Found)
  BY <1>1, SameView
<1>6. m \in todo
  BY <1>2 DEF Turn, First
<1>7. CASE ClearMark(m)
  <2>1. /\ pc = "elect" /\ mark' = mark \ {m} /\ planned' = planned
        /\ changed' \in BOOLEAN
    BY <1>3, <1>7 DEF ClearMark, Visited
  <2>2. SecretsSound'
    BY <1>1, <1>4, <2>1 DEF SecretsSound
  <2>3. TypeOK' /\ RoundKnows'
    BY <1>1, <1>3, <2>1, <2>2, MidKeeps
  <2>4. LoopShape'
    BY <1>1, <1>5, <2>1 DEF IInv, LoopShape
  <2>5. QED BY <2>3, <2>4 DEF IInv
<1>8. CASE StartInitNode(m) \/ Join(m)
  <2>1. /\ pc \in {"deliver", "join"} /\ planned' = planned \cup {m}
        /\ mark' = mark \cup ({m} \cap seen.mark) /\ changed' \in BOOLEAN
    BY <1>3, <1>8 DEF StartInitNode, Join, HandOut, Overlay, Visited
  <2>2. stage[m] \in Present
    BY <1>2, <2>1, TargetsPresent
  <2>3. SecretsSound'
    BY <1>1, <1>4, <2>1, <2>2 DEF SecretsSound
  <2>4. TypeOK' /\ RoundKnows'
    BY <1>1, <1>3, <2>1, <2>3, MidKeeps
  <2>5. LoopShape'
    BY <1>1, <1>5, <2>1 DEF IInv, LoopShape
  <2>6. QED BY <2>4, <2>5 DEF IInv
<1>9. CASE Designate(m)
  <2> DEFINE holder == m = seen.restore
             marked == m \in seen.mark
  <2>1. /\ pc = "designate" /\ planned' = planned
        /\ changed' = (changed \/ (holder # marked))
    BY <1>9 DEF Designate, Visited
  <2>2. /\ holder # marked => mark' \in {mark \cup {m}, mark \ {m}}
        /\ holder = marked => mark' = mark
    BY <1>9 DEF Designate
  <2>3. holder # marked => stage[m] \in Present
    BY <1>2, <2>1, TargetsPresent
  <2>4. SecretsSound'
    BY <1>1, <1>4, <2>1, <2>2, <2>3 DEF SecretsSound
  <2>5. changed' \in BOOLEAN
    BY <1>3, <2>1
  <2>6. TypeOK' /\ RoundKnows'
    BY <1>1, <1>3, <2>1, <2>4, <2>5, MidKeeps
  <2>7. ~changed' => ~changed /\ holder = marked /\ mark' = mark
    BY <2>1, <2>2
  <2>8. LoopShape'
    BY <1>1, <1>5, <2>1, <2>7 DEF IInv, LoopShape
  <2>9. QED BY <2>6, <2>8 DEF IInv
<1>10. QED BY <1>7, <1>8, <1>9

LEMMA IInvStep == IInv /\ [Next]_vars => IInv'
<1> SUFFICES ASSUME IInv, [Next]_vars PROVE IInv'
  OBVIOUS
<1>1. ASSUME PlannerStep \/ CutOff PROVE IInv'
  BY <1>1, QuietEndKeeps, WritingEndKeeps, LoadKeeps, SeekKeeps,
     StartedKeeps, VisitKeeps DEF PlannerStep
<1>2. ASSUME NEW m \in Machines, MachineStep(m) \/ BecomeKnown(m)
      PROVE  IInv'
  BY <1>2, MachineKeeps
<1>3. ASSUME NEW d \in Maybe, AskForRestore(d) PROVE IInv'
  BY <1>3, AskingKeeps
<1>4. ASSUME UNCHANGED vars PROVE IInv'
  <2>1. /\ UNCHANGED <<stage, secretVars, known, statusVars>>
        /\ UNCHANGED <<plannerVars, boundVars>>
    BY <1>4 DEF vars
  <2>2. TypeOK'
    BY <2>1 DEF IInv, TypeOK, secretVars, statusVars, plannerVars, boundVars
  <2>3. RoundKnows' /\ LoopShape'
    BY <2>1, SameView DEF IInv, RoundKnows, LoopShape, secretVars, plannerVars,
                          statusVars, boundVars
  <2>4. QED BY <2>2, <2>3 DEF IInv
<1>5. QED BY <1>1, <1>2, <1>3, <1>4 DEF Next

LEMMA Invariance == Spec => []IInv
  BY IInvInit, IInvStep, PTL DEF Spec

\* Every variable keeps to its type, and a mark or a plan is always that of a
\* machine that exists (TypeOK): a plan secret goes with its machine.
THEOREM TypeCorrect == Spec => []TypeOK
<1>1. IInv => TypeOK
  BY DEF IInv
<1>2. QED BY <1>1, Invariance, PTL

-----------------------------------------------------------------------------
(* One init node.                                                            *)

LEMMA OnlyMember ==
  ASSUME NEW S, Cardinality(S) = 1, IsFiniteSet(S), NEW m \in S
  PROVE  S = {m}
<1>1. PICK n : S = {n}
  BY FS_Singleton
<1>2. QED BY <1>1

LEMMA OnlyOneIsFinite ==
  ASSUME IInv
  PROVE  IsFiniteSet(seen.mark)
<1>1. seen.mark \subseteq Machines
  BY DEF IInv, TypeOK, ViewType
<1>2. QED BY <1>1, FS_Subset, InitNodeAssumption

\* Unless the cluster names the init node itself, plans are handed out only
\* while one machine is the init node (OneInitNode): findInitNode has found no
\* second mark, and the labels that UpdatePlan lays over those of a secret are
\* of no other machine.
THEOREM AgreedInitNode == Fixed = Nobody => (Spec => []OneInitNode)
<1> SUFFICES ASSUME Fixed = Nobody PROVE Spec => []OneInitNode
  OBVIOUS
<1>1. IInv => OneInitNode
  BY DEF IInv, LoopShape, Found, OneInitNode
<1>2. QED BY <1>1, Invariance, PTL

-----------------------------------------------------------------------------
(* What a step may do.                                                       *)

\* Steps that do not touch the marks.
LEMMA MarksGrow ==
  ASSUME IInv, [Next]_vars, NEW m \in mark \ mark'
  PROVE  Vanish(m) \/ ClearMark(m) \/ Designate(m)
<1>1. CASE UNCHANGED vars
  BY <1>1 DEF vars, secretVars
<1>2. ASSUME NEW n \in Machines, MachineStep(n) \/ BecomeKnown(n)
      PROVE  Vanish(m)
  BY <1>2 DEF MachineStep, Appear, GetReady, Fail, Delete, Vanish,
              BecomeKnown, secretVars
<1>3. ASSUME NEW d \in Maybe PROVE ~AskForRestore(d)
  BY DEF AskForRestore, secretVars
<1>4. /\ ~Load /\ ~GiveUp /\ ~SeekInitNode /\ ~Cleared /\ ~SeekHolder
      /\ ~Redesignated /\ ~ShutDown /\ ~InitNodeStarted /\ ~Joined /\ ~CutOff
  BY DEF Load, GiveUp, SeekInitNode, Cleared, SeekHolder, Redesignated,
         ShutDown, InitNodeStarted, Joined, CutOff, secretVars
<1>5. ASSUME NEW n \in Machines
      PROVE  /\ ~RecordJoinURL(n) /\ ~Elect(n) /\ ~RestoreSnapshot(n)
             /\ ~StartInitNode(n) /\ ~Join(n)
  BY DEF RecordJoinURL, Elect, RestoreSnapshot, StartInitNode, Join, HandOut,
         Overlay
<1>6. ASSUME NEW n \in Machines, ClearMark(n) PROVE n = m
  BY <1>6 DEF ClearMark
<1>7. ASSUME NEW n \in Machines, Designate(n) PROVE n = m
  BY <1>7, Zenon DEF Designate
<1>8. QED BY <1>1, <1>2, <1>3, <1>4, <1>5, <1>6, <1>7 DEF Next, PlannerStep

\* An election takes no mark from the only init node that is fit to be one,
\* unless that has no join URL and another has (MarkKept): electInitNode clears
\* marks only when findInitNode has found fault with them.
THEOREM MarksAreKept == Fixed = Nobody => (Spec => MarkKept)
<1> SUFFICES ASSUME Fixed = Nobody PROVE Spec => MarkKept
  OBVIOUS
<1> DEFINE Excuse(m) == \/ stage'[m] = "gone"
                        \/ seen.phase \in {"shutdown", "restore"}
                        \/ seen.mark # {m} \/ m \notin CanBeInitNode
                        \/ m \notin seen.url /\ Populated # {}
<1>1. IInv /\ [Next]_vars => [\A m \in mark \ mark' : Excuse(m)]_vars
  <2> SUFFICES ASSUME IInv, [Next]_vars, NEW m \in mark \ mark'
               PROVE  Excuse(m)
    OBVIOUS
  <2>1. m \in Machines
    BY DEF IInv, TypeOK
  <2>2. CASE Vanish(m)
    BY <2>1, <2>2 DEF Vanish, Become, IInv, TypeOK
  <2>3. CASE ClearMark(m)
    <3>1. ~Found
      BY <2>3 DEF ClearMark, IInv, LoopShape
    <3>2. Cardinality({m}) = 1
      BY FS_Singleton
    <3>3. QED BY <3>1, <3>2 DEF Found
  <2>4. CASE Designate(m)
    BY <2>4 DEF Designate, IInv, LoopShape
  <2>5. QED BY <2>2, <2>3, <2>4, MarksGrow
<1>2. QED BY <1>1, Invariance, PTL DEF Spec, MarkKept

\* Steps that tell a machine to restore a snapshot.
LEMMA OnlyRestoreSnapshot ==
  ASSUME IInv, [Next]_vars, restoredOn' \notin {restoredOn, Nobody}
  PROVE  \E m \in Machines : RestoreSnapshot(m)
<1>1. restoredOn' # restoredOn /\ restoredOn' # Nobody
  OBVIOUS
<1>2. ~UNCHANGED vars
  BY <1>1 DEF vars, statusVars
<1>3. ASSUME NEW m \in Machines
      PROVE  ~MachineStep(m) /\ ~BecomeKnown(m)
  BY <1>1 DEF MachineStep, Appear, GetReady, Fail, Delete, Vanish,
              BecomeKnown, statusVars
<1>4. ASSUME NEW d \in Maybe PROVE ~AskForRestore(d)
  BY <1>1 DEF AskForRestore
<1>5. /\ ~Load /\ ~GiveUp /\ ~SeekInitNode /\ ~Cleared /\ ~SeekHolder
      /\ ~Redesignated /\ ~CutOff
  BY <1>1 DEF Load, GiveUp, SeekInitNode, Cleared, SeekHolder,
              Redesignated, CutOff, statusVars
<1>6. ~ShutDown /\ ~InitNodeStarted /\ ~Joined
  BY <1>1 DEF ShutDown, InitNodeStarted, Joined
<1>7. ASSUME NEW m \in Machines
      PROVE  /\ ~RecordJoinURL(m) /\ ~ClearMark(m) /\ ~Elect(m)
             /\ ~Designate(m) /\ ~StartInitNode(m) /\ ~Join(m)
  BY <1>1 DEF RecordJoinURL, ClearMark, Elect, Designate, StartInitNode,
              Join, HandOut, statusVars
<1>8. QED BY <1>2, <1>3, <1>4, <1>5, <1>6, <1>7 DEF Next, PlannerStep

\* Steps that let a restore go on to the restart.
LEMMA OnlyRestoreRestarts ==
  ASSUME IInv, [Next]_vars, phase' = "restart", phase # "restart"
  PROVE  \E m \in Machines : RestoreSnapshot(m) /\ seen.version = restores
<1>1. phase' # phase
  OBVIOUS
<1>2. ~UNCHANGED vars
  BY <1>1 DEF vars, statusVars
<1>3. ASSUME NEW m \in Machines
      PROVE  ~MachineStep(m) /\ ~BecomeKnown(m)
  BY <1>1 DEF MachineStep, Appear, GetReady, Fail, Delete, Vanish,
              BecomeKnown, statusVars
<1>4. ASSUME NEW d \in Maybe PROVE ~AskForRestore(d)
  BY DEF AskForRestore
<1>5. /\ ~Load /\ ~GiveUp /\ ~SeekInitNode /\ ~Cleared /\ ~SeekHolder
      /\ ~Redesignated /\ ~CutOff
  BY <1>1 DEF Load, GiveUp, SeekInitNode, Cleared, SeekHolder,
              Redesignated, CutOff, statusVars
<1>6. ~ShutDown
  BY <1>1 DEF ShutDown, Status
<1>7. ~InitNodeStarted /\ ~Joined
  <2>1. ASSUME Status(seen.phase, TRUE), pc # "idle" PROVE FALSE
    BY <1>1, <2>1 DEF Status, IInv, RoundKnows
  <2>2. ~Status("none", TRUE)
    BY <1>1 DEF Status
  <2>3. QED BY <1>1, <2>1, <2>2 DEF InitNodeStarted, Joined, Ready
<1>8. ASSUME NEW m \in Machines
      PROVE  /\ ~RecordJoinURL(m) /\ ~ClearMark(m) /\ ~Elect(m)
             /\ ~Designate(m) /\ ~StartInitNode(m) /\ ~Join(m)
  BY <1>1 DEF RecordJoinURL, ClearMark, Elect, Designate, StartInitNode,
              Join, HandOut, statusVars
<1>9. ASSUME NEW m \in Machines, RestoreSnapshot(m)
      PROVE  seen.version = restores
  BY <1>1, <1>9 DEF RestoreSnapshot, Status
<1>10. QED
  BY <1>2, <1>3, <1>4, <1>5, <1>6, <1>7, <1>8, <1>9 DEF Next, PlannerStep

\* The machine that is told is the holder that was read, and the init node.
LEMMA HolderIsTold ==
  ASSUME IInv, NEW m \in Machines, RestoreSnapshot(m)
  PROVE  restoredOn' = m /\ m = seen.restore /\ mark' = {m}
<1>1. /\ pc = "designate" /\ todo = {} /\ ~changed /\ seen.mark = {m}
      /\ mark' = mark \cup ({m} \cap seen.mark) /\ restoredOn' = m
  BY DEF RestoreSnapshot, Ready, Overlay
<1>2. m \in Seen /\ mark \subseteq {m}
  BY <1>1 DEF IInv, RoundKnows, LoopShape
<1>3. m = seen.restore
  BY <1>1, <1>2 DEF IInv, LoopShape
<1>4. QED BY <1>1, <1>2, <1>3

\* Whoever is told to restore a snapshot holds it and is the only init node,
\* whatever is asked for meanwhile; and only a restore whose own holder has been
\* told goes on to the restart (RestoredOnHolder).  The designation has visited
\* every machine and has found nothing to write, so the labels are those of the
\* holder that was read; the plan goes out even if another restore has been
\* asked for since, but then the status of the round is refused.
THEOREM RestoredByHolder == Spec => RestoredOnHolder
<1> DEFINE Told == restoredOn' \notin {restoredOn, Nobody} =>
                     restoredOn' = seen.restore /\ mark' = {restoredOn'}
           Restarts == phase' = "restart" /\ phase # "restart" =>
                         restoredOn' = restore
<1>1. IInv /\ [Next]_vars => [Told /\ Restarts]_vars
  <2>1. ASSUME IInv, [Next]_vars PROVE Told
    BY <2>1, OnlyRestoreSnapshot, HolderIsTold
  <2>2. ASSUME IInv, [Next]_vars, phase' = "restart", phase # "restart"
        PROVE  restoredOn' = restore
    <3>1. PICK m \in Machines : RestoreSnapshot(m) /\ seen.version = restores
      BY <2>2, OnlyRestoreRestarts
    <3>2. pc # "idle"
      BY <3>1 DEF RestoreSnapshot, Ready
    <3>3. seen.restore = restore
      BY <2>2, <3>1, <3>2 DEF IInv, RoundKnows
    <3>4. QED BY <2>2, <3>1, <3>3, HolderIsTold
  <2>3. QED BY <2>1, <2>2
<1>2. QED BY <1>1, Invariance, PTL DEF Spec, RestoredOnHolder

\* A machine without a plan is told to start a cluster only if no other that
\* was read as fit to be the init node has a join URL (NoSecondCluster): that
\* is what findInitNode looks at before it settles for an init node without
\* one, and only rounds record join URLs.
THEOREM OneCluster == Fixed = Nobody => (Spec => NoSecondCluster)
<1> SUFFICES ASSUME Fixed = Nobody PROVE Spec => NoSecondCluster
  OBVIOUS
<1> DEFINE Alone(m) == pc = "deliver" =>
             \A n \in Machines \ {m} : seen.stage[n] = "ready" => n \notin url
<1>1. IInv /\ [Next]_vars => [\A m \in planned' \ planned : Alone(m)]_vars
  <2> SUFFICES ASSUME IInv, [Next]_vars, NEW m \in planned' \ planned,
                      pc = "deliver",
                      NEW n \in Machines \ {m}, seen.stage[n] = "ready"
               PROVE  n \notin url
    OBVIOUS
  <2>1. StartInitNode(m)
    <3>1. ~UNCHANGED vars
      BY DEF vars, secretVars
    <3>2. ASSUME NEW k \in Machines
          PROVE  ~MachineStep(k) /\ ~BecomeKnown(k)
      BY DEF MachineStep, Appear, GetReady, Fail, Delete, Vanish, BecomeKnown,
             secretVars
    <3>3. ASSUME NEW d \in Maybe PROVE ~AskForRestore(d)
      BY DEF AskForRestore, secretVars
    <3>4. /\ ~Load /\ ~GiveUp /\ ~SeekInitNode /\ ~Cleared /\ ~SeekHolder
          /\ ~Redesignated /\ ~ShutDown /\ ~InitNodeStarted /\ ~Joined
          /\ ~CutOff
      BY DEF Load, GiveUp, SeekInitNode, Cleared, SeekHolder, Redesignated,
             ShutDown, InitNodeStarted, Joined, CutOff, secretVars
    <3>5. ASSUME NEW k \in Machines
          PROVE  /\ ~RecordJoinURL(k) /\ ~ClearMark(k) /\ ~Elect(k)
                 /\ ~Designate(k) /\ ~RestoreSnapshot(k) /\ ~Join(k)
      BY DEF RecordJoinURL, ClearMark, Elect, Designate, RestoreSnapshot, Join,
             Ready
    <3>6. ASSUME NEW k \in Machines, StartInitNode(k) PROVE k = m
      BY <3>6 DEF StartInitNode, HandOut
    <3>7. QED BY <3>1, <3>2, <3>3, <3>4, <3>5, <3>6 DEF Next, PlannerStep
  <2>2. Found /\ Turn(m) /\ todo \subseteq seen.mark
    BY <2>1 DEF StartInitNode, IInv, LoopShape
  <2>3. m \in Machines /\ m \in seen.mark /\ stage[m] \in Present
    BY <2>2, TargetsPresent DEF Turn, IInv, TypeOK, ViewType
  <2>4. seen.mark = {m}
    BY <2>2, <2>3, OnlyMember, OnlyOneIsFinite DEF Found
  <2>5. m \notin seen.url
    BY <2>3 DEF IInv, RoundKnows, TypeOK, Present
  <2>6. Populated = {}
    BY <2>2, <2>4, <2>5 DEF Found
  <2>7. QED BY <2>6 DEF Populated, CanBeInitNode, IInv, RoundKnows
<1>2. QED BY <1>1, Invariance, PTL DEF Spec, NoSecondCluster

=============================================================================
