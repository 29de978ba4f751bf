------------------------------ MODULE InitNode ------------------------------
(****************************************************************************)
(* How the planner chooses the init node: the one etcd machine that starts  *)
(* the cluster and that the others join.                                    *)
(*                                                                          *)
(* The choice is nothing but a label on the plan secret of a machine.  A    *)
(* round of the planner reads all machines and secrets (Load), records the  *)
(* join URL of a machine that has become known, designates the machine that *)
(* holds the snapshot if a local snapshot is being restored, or looks for   *)
(* the init node and elects one (electInitNode), and hands plans to it and  *)
(* to the machines that join it.  Each label is written on its own: a round *)
(* may be cut off between two of them, and machines come, go, fail and      *)
(* recover while it goes on.  As the list of machines is sorted by name,    *)
(* machines are numbers here.                                               *)
(****************************************************************************)
EXTENDS Naturals, FiniteSets

CONSTANTS
  Machines,       \* the names of the etcd machines there may be
  Newcomers,      \* those of them that the cluster does not have at first
  Fixed,          \* the init-node-machine-id label of the control plane
  MaxChurn,       \* bound: how often a machine appears, fails or is deleted
  MaxRestores,    \* bound: how often the restore that is asked for changes
  MaxFaults       \* bound: how often a round is cut off

Nobody == 0
Maybe  == Machines \cup {Nobody}

ASSUME InitNodeAssumption ==
  /\ IsFiniteSet(Machines) /\ Machines \subseteq Nat \ {0}
  /\ Newcomers \subseteq Machines /\ Newcomers # Machines
  /\ Fixed \in Maybe
  /\ MaxChurn \in Nat /\ MaxRestores \in Nat /\ MaxFaults \in Nat

\* A machine that is "pending" has failed, or its infrastructure is not ready.
Stages  == {"absent", "pending", "ready", "deleting", "gone"}
Present == {"pending", "ready", "deleting"}
Phases == {"none", "shutdown", "restore", "restart"}

VARIABLES
  stage,         \* machine -> the state of its CAPI machine
  mark,          \* the machines whose plan secret has the init-node label
  url,           \* those whose plan secret has a join URL
  planned,       \* those whose plan secret has a plan
  known,         \* those whose address, hence their join URL, is known
  restore,       \* the machine that holds the snapshot to be restored
  phase,         \* how far the restore is
  bootstrapped,  \* the Bootstrapped condition
  restoredOn,    \* auxiliary: the machine that the round, or the last one, has
                 \* told to restore the snapshot
  pc,            \* planner: what it is doing
  seen,          \* planner: what it has read
  todo,          \* planner: the machines that the current loop still visits
  changed,       \* planner: some secret was written by the current loop
  churn, restores, faults

secretVars  == <<mark, url, planned>>
statusVars  == <<restore, phase, bootstrapped, restoredOn>>
plannerVars == <<pc, seen, todo, changed>>
boundVars   == <<churn, restores, faults>>
vars == <<stage, secretVars, known, statusVars, plannerVars, boundVars>>

ViewType ==
  [stage : [Machines -> Stages], mark : SUBSET Machines,
   url : SUBSET Machines, planned : SUBSET Machines,
   known : SUBSET Machines, restore : Maybe, phase : Phases, version : Nat]

NoView ==
  [stage |-> [m \in Machines |-> "absent"],
   mark |-> {}, url |-> {}, planned |-> {}, known |-> {},
   restore |-> Nobody, phase |-> "none", version |-> 0]

-----------------------------------------------------------------------------
(* What the planner makes of what it read.                                  *)

\* collect returns the machines in the order of their names.
First(S) == {m \in S : \A n \in S : m <= n}

Seen     == {m \in Machines : seen.stage[m] \in Present}
Deleting == {m \in Machines : seen.stage[m] = "deleting"}

CanBeInitNode == {m \in Machines : seen.stage[m] = "ready"}
Populated     == CanBeInitNode \cap seen.url

\* (mutant) Several init nodes are as good as one.
FoundAmongSeveral ==
  /\ seen.mark # {} /\ seen.mark \subseteq CanBeInitNode
  /\ seen.mark \cap seen.url # {} \/ Populated = {}

\* (mutant) An init node that is not fit to be one is kept.
FoundUnfit ==
  /\ Cardinality(seen.mark) = 1
  /\ seen.mark \cap seen.url # {} \/ Populated = {}

\* (mutant) An init node without a join URL is kept whatever else there is.
FoundUnpopulated ==
  Cardinality(seen.mark) = 1 /\ seen.mark \subseteq CanBeInitNode

\* (mutant) An init node without a join URL is never kept.
FoundPopulated ==
  /\ Cardinality(seen.mark) = 1 /\ seen.mark \subseteq CanBeInitNode
  /\ seen.mark \cap seen.url # {}

\* findInitNode finds an init node and has nothing to complain about.
Found ==
  IF Fixed # Nobody THEN Fixed \in seen.mark
  ELSE /\ Cardinality(seen.mark) = 1
       /\ seen.mark \subseteq CanBeInitNode
       /\ seen.mark \cap seen.url # {} \/ Populated = {}

\* Those among whom the election takes the first.
Candidates ==
  CASE Fixed # Nobody                     -> Seen \cap {Fixed}
    [] Fixed = Nobody /\ Populated # {}   -> Populated
    [] Fixed = Nobody /\ Populated = {}   -> CanBeInitNode

\* "Restoration from etcd snapshot is required": the etcd plane is gone.
EtcdPlaneReplaced ==
  (bootstrapped \/ seen.url # {}) /\ seen.planned = {}

-----------------------------------------------------------------------------
Init ==
  /\ stage = [m \in Machines |->
                IF m \in Newcomers THEN "absent" ELSE "pending"]
  /\ mark = {} /\ url = {} /\ planned = {} /\ known = {}
  /\ restore = Nobody /\ phase = "none" /\ restoredOn = Nobody
  /\ bootstrapped = FALSE
  /\ pc = "idle" /\ seen = NoView /\ todo = {} /\ changed = FALSE
  /\ churn = 0 /\ restores = 0 /\ faults = 0

-----------------------------------------------------------------------------
(* The machines and the user.                                               *)

Become(m, s) == stage' = [stage EXCEPT ![m] = s]

Churn == churn < MaxChurn /\ churn' = churn + 1

Appear(m) ==
  /\ stage[m] = "absent" /\ Become(m, "pending")
  /\ Churn
  /\ UNCHANGED <<secretVars, known, statusVars, plannerVars>>
  /\ UNCHANGED <<restores, faults>>

GetReady(m) ==
  /\ stage[m] = "pending" /\ Become(m, "ready")
  /\ UNCHANGED <<secretVars, known, statusVars, plannerVars, boundVars>>

Fail(m) ==
  /\ stage[m] = "ready" /\ Become(m, "pending")
  /\ Churn
  /\ UNCHANGED <<secretVars, known, statusVars, plannerVars>>
  /\ UNCHANGED <<restores, faults>>

Delete(m) ==
  /\ stage[m] \in {"pending", "ready"} /\ Become(m, "deleting")
  /\ Churn
  /\ UNCHANGED <<secretVars, known, statusVars, plannerVars>>
  /\ UNCHANGED <<restores, faults>>

\* The machine is gone, and its plan secret with it.
Vanish(m) ==
  /\ stage[m] = "deleting" /\ Become(m, "gone")
  /\ mark' = mark \ {m} /\ url' = url \ {m}
  /\ planned' = planned \ {m} /\ known' = known \ {m}
  /\ UNCHANGED <<statusVars, plannerVars, boundVars>>

\* The node of the machine has come up with the plan that it has.
BecomeKnown(m) ==
  /\ m \in planned \ known
  /\ known' = known \cup {m}
  /\ UNCHANGED <<stage, secretVars, statusVars, plannerVars, boundVars>>

\* Somebody asks to restore a snapshot that machine d has taken, which may be
\* gone by now, or withdraws that.
AskForRestore(d) ==
  /\ restores < MaxRestores
  /\ d # restore
  /\ d \in {Nobody} \cup known \cup {m \in Machines : stage[m] = "gone"}
  /\ restore' = d
  /\ phase' = IF d = Nobody THEN "none" ELSE "shutdown"
  /\ restores' = restores + 1
  /\ UNCHANGED <<stage, secretVars, known, bootstrapped, restoredOn>>
  /\ UNCHANGED plannerVars
  /\ UNCHANGED <<churn, faults>>

-----------------------------------------------------------------------------
(* The frame of a round.                                                    *)

\* (mutant) The round forgets to empty its list.
EndRoundMutant ==
  /\ pc' = "idle" /\ seen' = NoView /\ changed' = FALSE /\ UNCHANGED todo

EndRound ==
  /\ pc' = "idle" /\ seen' = NoView /\ todo' = {} /\ changed' = FALSE

GoTo(step, S) ==
  /\ pc' = step /\ todo' = S /\ changed' = FALSE
  /\ UNCHANGED seen

\* The loop goes on with the next machine: w tells whether it wrote something.
Visited(m, w) ==
  /\ todo' = todo \ {m} /\ changed' = (changed \/ w)
  /\ UNCHANGED <<pc, seen>>

\* The control plane, its machines and their secrets are read.  A label of a
\* secret is written by rounds only, of which there is one at a time.  The
\* number of changes of the request stands for the version of the control plane.
Load ==
  /\ pc = "idle"
  /\ pc' = "read"
  /\ seen' = [stage |-> stage, mark |-> mark, url |-> url,
              planned |-> planned, known |-> known,
              restore |-> restore, phase |-> phase, version |-> restores]
  /\ restoredOn' = Nobody
  /\ UNCHANGED <<stage, secretVars, known, restore, phase, bootstrapped>>
  /\ UNCHANGED <<todo, changed, boundVars>>

\* The round is cut off: a write is refused or the process stops.
CutOff ==
  /\ pc # "idle"
  /\ faults < MaxFaults /\ faults' = faults + 1
  /\ EndRound
  /\ UNCHANGED <<stage, secretVars, known, statusVars, churn, restores>>

\* The machines whose join URL has still to be recorded.
Unrecorded == (Seen \cap seen.known) \ seen.url

\* The machine whose secret is to be written next.
Target ==
  CASE pc = "read"               -> Unrecorded
    [] pc \in {"deliver", "join"} -> First(todo)
    [] pc = "elect" /\ (todo # {} \/ changed) -> First(todo)
    [] pc = "designate" /\ todo # {} ->
         {m \in First(todo) : (m = seen.restore) # (m \in seen.mark)}
    [] pc = "elect" /\ todo = {} /\ ~changed -> First(Candidates)
    [] pc = "designate" /\ todo = {} /\ seen.phase = "restore" -> seen.mark
    [] OTHER -> {}

\* After Load: there is no etcd machine, it is too late for an election, or
\* the machine that has to be the init node does not exist.
NotYet ==
  \/ Seen \subseteq Deleting
  \/ seen.phase = "none" /\ EtcdPlaneReplaced
  \/ seen.phase \in {"none", "restart"} /\ Fixed \notin Seen \cup {Nobody}

\* Nothing more can be done in this round.
Stuck ==
  \/ pc = "read" /\ Unrecorded = {} /\ NotYet
  \/ pc = "elect" /\ todo = {} /\ ~changed /\ Candidates = {}
  \/ pc = "designate" /\ todo = {} /\ seen.restore \notin Seen
  \/ \E m \in Target : stage[m] \notin Present

GiveUp ==
  /\ Stuck
  /\ EndRound
  /\ UNCHANGED <<stage, secretVars, known, statusVars, boundVars>>

\* The labels that were read are laid over those of the secret.
Overlay(m) == mark \cup ({m} \cap seen.mark)

\* setMachineJoinURL; the round ends because the secret was changed.
RecordJoinURL(m) ==
  /\ pc = "read" /\ m \in Unrecorded /\ stage[m] \in Present
  /\ url' = url \cup {m} /\ mark' = Overlay(m)
  /\ EndRound
  /\ UNCHANGED <<stage, planned, known, statusVars, boundVars>>

Turn(m) == m \in First(todo) /\ ~Stuck
Ready(step) == pc = step /\ todo = {}

-----------------------------------------------------------------------------
(* electInitNode.                                                           *)

SeekInitNode ==
  /\ pc = "read" /\ ~Stuck /\ Unrecorded = {} /\ seen.phase \in {"none", "restart"}
  /\ IF Found THEN GoTo("deliver", seen.mark \ Deleting)
              ELSE GoTo("elect", seen.mark \ {Fixed})
  /\ UNCHANGED <<stage, secretVars, known, statusVars, boundVars>>

ClearMark(m) ==
  /\ pc = "elect" /\ Turn(m)
  /\ mark' = mark \ {m}
  /\ Visited(m, TRUE)
  /\ UNCHANGED <<stage, url, planned, known, statusVars, boundVars>>

\* ErrSkip: the new init node is chosen by another round.
Cleared ==
  /\ Ready("elect") /\ changed
  /\ EndRound
  /\ UNCHANGED <<stage, secretVars, known, statusVars, boundVars>>

Elect(m) ==
  /\ Ready("elect") /\ ~changed /\ ~Stuck
  /\ m \in First(Candidates)
  /\ mark' = mark \cup {m}
  /\ EndRound
  /\ UNCHANGED <<stage, url, planned, known, statusVars, boundVars>>

-----------------------------------------------------------------------------
(* designateInitNodeByMachineID, and what the restore does next.            *)

SeekHolder ==
  /\ pc = "read" /\ ~Stuck /\ Unrecorded = {} /\ seen.phase \in {"shutdown", "restore"}
  /\ GoTo("designate", Seen)
  /\ UNCHANGED <<stage, secretVars, known, statusVars, boundVars>>

Designate(m) ==
  /\ pc = "designate" /\ Turn(m)
  /\ LET holder == m = seen.restore
         marked == m \in seen.mark
     IN /\ mark' = CASE holder /\ ~marked -> mark \cup {m}
                     [] ~holder /\ marked -> mark \ {m}
                     [] holder <=> marked  -> mark
        /\ Visited(m, holder # marked)
  /\ UNCHANGED <<stage, url, planned, known, statusVars, boundVars>>

Redesignated ==
  /\ Ready("designate") /\ ~Stuck /\ changed
  /\ EndRound
  /\ UNCHANGED <<stage, secretVars, known, statusVars, boundVars>>

\* (mutant) The status is written whatever has become of the control plane.
StatusMutant(p, b) == phase' = p /\ bootstrapped' = b

\* The status goes with the control plane that was read: if that has been
\* changed since, it is refused.
Status(p, b) ==
  IF seen.version = restores
    THEN phase' = p /\ bootstrapped' = b
    ELSE UNCHANGED <<phase, bootstrapped>>

\* Machines that are being deleted are waited for, then the services are being
\* stopped; once they are, the phase is over.
ShutDown ==
  /\ Ready("designate") /\ ~Stuck /\ ~changed /\ seen.phase = "shutdown"
  /\ \/ Status("shutdown", bootstrapped)
     \/ Deleting = {} /\ Status("restore", FALSE)
  /\ EndRound
  /\ UNCHANGED <<stage, secretVars, known, restore, restoredOn, boundVars>>

\* runEtcdSnapshotRestorePlan: the only init node is told to restore the
\* snapshot, whatever has become of the request by then.
RestoreSnapshot(m) ==
  /\ Ready("designate") /\ ~Stuck /\ ~changed /\ seen.phase = "restore"
  /\ seen.mark = {m}
  /\ planned' = planned \cup {m} /\ mark' = Overlay(m)
  /\ restoredOn' = m
  /\ \E p \in {"restore", "restart"} : Status(p, bootstrapped)
  /\ EndRound
  /\ UNCHANGED <<stage, url, known, restore, boundVars>>

-----------------------------------------------------------------------------
(* The plans: the init node's, then those of the machines that join it.     *)

HandOut(m) ==
  /\ planned' = planned \cup {m} /\ mark' = Overlay(m)
  /\ Visited(m, TRUE)
  /\ UNCHANGED <<stage, url, known, statusVars, boundVars>>

StartInitNode(m) == pc = "deliver" /\ Turn(m) /\ HandOut(m)
Join(m)          == pc = "join" /\ Turn(m) /\ HandOut(m)

\* Either the init node is waited for, or the other machines are to join it.
InitNodeStarted ==
  /\ Ready("deliver")
  /\ \/ /\ Status(seen.phase, TRUE)
        /\ EndRound
     \/ /\ seen.mark \cap seen.url # {}
        /\ GoTo("join", Seen \ (seen.mark \cup Deleting))
        /\ UNCHANGED <<phase, bootstrapped>>
  /\ UNCHANGED <<stage, secretVars, known, restore, restoredOn, boundVars>>

\* In the end the restored cluster has restarted.
Joined ==
  /\ Ready("join")
  /\ Status(seen.phase, TRUE) \/ Status("none", TRUE)
  /\ EndRound
  /\ UNCHANGED <<stage, secretVars, known, restore, restoredOn, boundVars>>

-----------------------------------------------------------------------------
PlannerStep ==
  \/ Load \/ GiveUp \/ SeekInitNode \/ Cleared
  \/ SeekHolder \/ Redesignated \/ ShutDown \/ InitNodeStarted \/ Joined
  \/ \E m \in Machines :
       \/ RecordJoinURL(m) \/ ClearMark(m) \/ Elect(m) \/ Designate(m)
       \/ RestoreSnapshot(m) \/ StartInitNode(m) \/ Join(m)

MachineStep(m) ==
  Appear(m) \/ GetReady(m) \/ Fail(m) \/ Delete(m) \/ Vanish(m)

Next ==
  \/ PlannerStep \/ CutOff
  \/ \E m \in Machines : MachineStep(m) \/ BecomeKnown(m)
  \/ \E d \in Maybe : AskForRestore(d)

Spec == Init /\ [][Next]_vars

\* A round that changed something enqueues the next one, and so does every
\* change of a machine or a secret.
FairSpec == Spec /\ WF_vars(PlannerStep)

-----------------------------------------------------------------------------
(* Properties.                                                              *)

\* Every variable has values of the kind the code gives it.
TypeOK ==
  /\ stage \in [Machines -> Stages]
  /\ mark \subseteq Machines /\ url \subseteq Machines
  /\ planned \subseteq Machines /\ known \subseteq Machines
  /\ restore \in Maybe /\ phase \in Phases /\ restoredOn \in Maybe
  /\ bootstrapped \in BOOLEAN
  /\ pc \in {"idle", "read", "elect", "designate", "deliver", "join"}
  /\ seen \in ViewType
  /\ todo \subseteq Machines /\ changed \in BOOLEAN
  /\ pc = "idle" => seen = NoView /\ todo = {} /\ ~changed
  /\ url \subseteq planned /\ known \subseteq planned
  /\ \A m \in mark \cup planned : stage[m] \in Present
  /\ churn \in 0..MaxChurn /\ restores \in 0..MaxRestores
  /\ faults \in 0..MaxFaults

\* While plans are handed out one machine is the init node: it was the only one
\* marked when the round began, and no overlay of labels that were read has
\* brought back the mark of another since.  ("If multiple init nodes are found,
\* it will return false as it could not come to consensus on a single init
\* node", initnode.go:89.)
OneInitNode ==
  pc \in {"deliver", "join"} =>
    /\ Cardinality(seen.mark) = 1
    /\ mark \subseteq seen.mark

\* An election never takes the mark from the only init node while that is fit
\* to be one, unless it has no join URL and another machine has.
MarkKept ==
  [][\A m \in mark \ mark' :
       \/ stage'[m] = "gone"
       \/ seen.phase \in {"shutdown", "restore"}
       \/ seen.mark # {m} \/ m \notin CanBeInitNode
       \/ m \notin seen.url /\ Populated # {}]_vars

\* Whoever is told to restore a snapshot is the machine that holds it, and no
\* other is the init node then, even if another restore is asked for in the
\* meantime; and a restore goes on to the restart only when its own holder has
\* been told, not the one of a restore that it has replaced.
RestoredOnHolder ==
  [][/\ restoredOn' \notin {restoredOn, Nobody} =>
          restoredOn' = seen.restore /\ mark' = {restoredOn'}
     /\ phase' = "restart" /\ phase # "restart" =>
          restoredOn' = restore]_vars

\* A machine that has never had a plan is not told to start a cluster of its
\* own while, as far as was read, another one is fit to be the init node and
\* has a join URL that it could join.
NoSecondCluster ==
  [][\A m \in planned' \ planned : pc = "deliver" =>
       \A n \in Machines \ {m} : seen.stage[n] = "ready" => n \notin url
    ]_vars

\* A round elects nobody while a restore is under way, once the etcd machines
\* that had plans have all been replaced, and when all are being deleted.
NoElection ==
  \/ phase \in {"shutdown", "restore"}
  \/ phase = "none" /\ planned = {} /\ (bootstrapped \/ url # {})
  \/ \A m \in Machines : stage[m] \in Present => stage[m] = "deleting"

\* Once the machines are left alone there is exactly one init node, fit to be
\* one, if there is any such machine; and in any case the mark is taken from a
\* machine that is not fit, for whose deletion others may be waiting.
Settles ==
  <>[](\/ NoElection
       \/ /\ \A m \in mark : stage[m] = "ready"
          /\ (\E m \in Machines : stage[m] = "ready")
               => \E m \in Machines : mark = {m})

=============================================================================
