# Verification of cluster-api-provider-rancher

TLA+ modules, TLC runs and TLAPS proofs about the planner of this Cluster API
provider and the controllers it works with. Paths are relative to the
repository (`src/` in `PROJECT.json`). `PROJECT.json` maps every definition
that models code to the lines it models, and lists components, hazards, runs,
mutants, findings and theorems.

1. [The system](#the-system)
2. [The modules](#the-modules)
3. [The runs](#the-runs)
4. [Fairness](#fairness)
5. [What is proved](#what-is-proved)
6. [Where code and comments disagree](#where-code-and-comments-disagree)
7. [What is left out](#what-is-left-out)
8. [Plan](#plan)

Commands, from this directory:

    tlasany Rollout.tla
    tlc -workers 2 -config RolloutWorkers.cfg MCRollout
    tlapm Rollout_proofs.tla

## The system

The provider runs RKE2 and K3s clusters. A *management* cluster holds the
objects: one `RKEControlPlane` per cluster (what is wanted, and a status), a
CAPI `Machine` and an `RKEBootstrap` per machine, and per machine one **plan
secret**. Everything that happens on a node happens because a plan (files,
instructions, probes) is written into its plan secret, which the
`rancher-system-agent` of the node fetches, executes and reports on, in the same
secret. No component calls another; they all read and write the same objects
and are called again when these change. Reads come from caches and are as old
as these; a write to an object that has changed since is refused by the API
server, but nothing relates the ages of two different objects.

### Components

**Planner** (`pkg/planner`, called by `pkg/controllers/planner`).
*State:* none of its own but a lock per control plane; it keeps everything in
labels and annotations of the plan secrets and in the status of the control
plane. *Operations:* `Process` is one round: load all machines and secrets,
then in this order create a snapshot, restore one, rotate certificates, rotate
encryption keys, stop if paused or if the etcd plane was replaced, and
`fullReconcile`. Each of these may end the round with an error: *waiting* (the
next event continues), *skip* (again in five seconds), or a real error, and
then what has been written stays written. *Hard:* all decisions of a round
rest on one read at its beginning; writes of a round are many and separate.

- *Rollout* (`fullReconcile`, `reconcile`, `drain.go`): four tiers of machines
  in order, each with a budget of unavailable machines, drain before a restart
  and uncordon after it. *Correct if* the budget is kept although agents and
  controllers go on while the planner decides, no node restarts that has not
  been drained, workers follow servers, and every machine gets its plan in
  the end.
- *Init node* (`initnode.go`): one etcd machine has the label `init-node`; it
  starts the cluster and all others join it. Found, elected (fit machines with
  a join URL first), designated (the holder of a local snapshot), or fixed by a
  label. *Correct if* plans go out under one init node only, the label leaves a
  fit machine only for a reason, and no fresh machine starts a second cluster.
- *Etcd restore* (`etcdrestore.go`), *etcd create* (`etcdcreate.go`),
  *certificate rotation* (`certificaterotation.go`), *encryption key rotation*
  (`encryptionkeyrotation.go`): state machines in the status of the control
  plane, advanced by one phase at a time when the plans of the phase are in
  sync; the rotations pause the CAPI cluster. *Correct if* they end, are
  restarted by a new request, take the pause back, and do not fall between two
  phases when an error reverts the status.
- *Plan generation* (`config.go`, `probe.go`, `instructions.go`, ...): a
  function without state.
- *Plan store* (`store.go`): secret to node and back; a metadata overlay that
  copies what was read over what is there.

**Plan secret controller** (`pkg/controllers/plansecret`): turns the checksum
the agent reports into the applied plan, marks that probes have passed once,
keeps the list of etcd snapshots. **Machine drain controller**
(`pkg/controllers/machinedrain`): answers drain and uncordon annotations, with
hooks for others before and after. **Bootstrap controller**
(`pkg/controllers/bootstrap`, `etcdmgmt`): creates the empty plan secret, holds
the deletion of an etcd machine until nobody is joined to it and its member is
removed. **Machine provisioning** (`machineprovision`): jobs that create and
remove infrastructure. **Unmanaged machines** (`unmanaged`): machines from a
registration secret; deletion of those whose node is missing.
**machinenodelookup**, **rkecluster**, **rkecontrolplane**,
**managesystemagent**, **dynamicschema**, the standalone controllers,
**configserver**, **installer**: short handlers that copy, generate or serve.

`PROJECT.json` lists under `hazards`, each at its line, what of all this is
hard to test: stale reads between the decision and the write, rounds cut off
between two writes, drain answers for an older plan, marks left by half a
designation, a pause nobody takes back, and so on.

## The modules

| module | models | against |
|---|---|---|
| `Rollout` | a rollout: planner rounds, agents, plansecret and machinedrain controllers | `planner.go`, `store.go`, `drain.go`, `plansecret.go`, `machinedrain.go` |
| `MCRollout` | instances of `Rollout` | |
| `Rollout_proofs` | theorems about `Rollout` | |
| `InitNode` | init node election and designation, restore as far as it decides who is init node | `initnode.go`, `etcdrestore.go`, `store.go`, `planentry.go` |
| `MCInitNode` | instances of `InitNode` | |
| `InitNode_proofs` | theorems about `InitNode` | |
| `PlannerRound` | what the operations share: a round, the status and its write, plan secrets, agents, `fullReconcile` with one machine of a tier at a time | `planner.go`, `store.go`, `idempotent.go`, `controllers/planner` |
| `EtcdCreate` | snapshots on request | `etcdcreate.go` |
| `EtcdRestore` | restore of a snapshot, all phases | `etcdrestore.go` |
| `CertRotation` | rotation of certificates | `certificaterotation.go` |
| `KeyRotation` | rotation of encryption keys | `encryptionkeyrotation.go` |
| `ProcessLoop` | `Process`: the four operations and the rollout in their order | `planner.go` |
| `Request` | abstract: what an operation that is asked for by a generation promises; implemented by `ProcessLoop`, twice | |
| `MCProcessLoop` | instance of `ProcessLoop` | |
| `ProcessLoop_proofs` | theorems about `ProcessLoop`, and the invariant of all its proofs | |
| `EtcdRestore_proofs` | theorems about the restore as part of `ProcessLoop` | |
| `KeyRotation_proofs` | theorems about the rotation of encryption keys as part of `ProcessLoop` | |
| `EtcdRemoval` | how a machine leaves: pre-terminate hook, safe removal, election, who joins whom | `controllers/bootstrap`, `etcdmgmt`, `planner.go`, `initnode.go`, `store.go` |
| `MCEtcdRemoval` | instance of `EtcdRemoval` | |
| `EtcdRemoval_proofs` | theorems about `EtcdRemoval` | |
| `LeastElements` | a lemma: a non-empty set of machines has a first one in an order; for every `CHOOSE` that the code's sorting becomes | |
| `NodeDrain` | the drain of one machine with hooks, errors and changing options | `machinedrain.go`, `drain.go`, `planner.go` |
| `MCNodeDrain` | instance of `NodeDrain` | |
| `NodeDrain_proofs` | theorems about `NodeDrain` | |

`Rollout`, `InitNode` and `EtcdRemoval` look at the same rounds with different
questions: how many machines are out, who starts the cluster, who may go.
`ProcessLoop` EXTENDS the four operations, each of which EXTENDS
`PlannerRound`; `NodeDrain` is `Rollout`'s drain protocol for one machine with
everything `Rollout` leaves out of it.

### Rollout

A plan is a number; `Body` tells which plans differ by more than files marked
minor, `Stamp` which differ in their restart stamp. `secret[m]` is the plan
secret with what the five parties write into it: `plan`, `applied` (the
applied plan), `sum` and `failed` (the checksums the agent reports), `probes`,
`passed`, and the set `ann` of drain annotations. `working[m]` is what the
agent of `m` executes, `cordoned[m]` the node. The rest is the planner's: `pc`
(idle, loading, or the tier), `goal` (what the round hands out), `view` (what
it read, machine by machine, each at its own time), `todo`, `down` (the
unavailable count, as a set), `waiting` (the tier ends the round).

The actions are the code's steps: `StartRound`, `LoadSecret`, `FirstTier`,
`NextTier`, `FinishRound` are `Load` and `fullReconcile`; the disjuncts of
`Consider` are the branches of the loop of `reconcile`, one machine each, so
that others act between two machines; `Abort` is any error. `AgentStart` to
`ProbesFail` are the system-agent, known here only from how the code uses its
reports; `PlanSecretOnChange` is the plansecret controller; `Cordon`,
`FinishDrain`, `Uncordon`, `CleanAnnotations` the machinedrain controller, whose
call on the node and write to the secret are two steps.

### InitNode

Machines are numbers, as `collect` sorts by name. `stage[m]` is its CAPI
machine (absent, pending, ready, deleting, gone); `mark`, `url`, `planned` are
the machines whose secret has the init node label, a join URL, a plan; `known`
those whose address is known; `restore`, `phase`, `bootstrapped` the request and
the status, `restoredOn` whom the last round has told to restore. A round reads everything into `seen`, then visits machines in a
loop, one label write per step: `ClearMark` and `Elect` are `electInitNode`,
`Designate` is `designateInitNodeByMachineID`, `StartInitNode` and `Join` hand
out plans, `ShutDown` and `RestoreSnapshot` do what the restore does next;
`Status` writes the status unless the control plane has been changed since, but
plans are out by then, whatever has become of the request.
`Stuck` and `GiveUp` are rounds that end in an error, `CutOff` those that are
interrupted anywhere. Labels that were read are laid over the secret
(`Overlay`) with every write that the code does through `UpdatePlan` or
`setMachineJoinURL`.

### PlannerRound, EtcdCreate, EtcdRestore, CertRotation, KeyRotation, ProcessLoop

`asked[o]` is the generation in which an operation is asked for (0: not at
all), `status` the status of the control plane with a phase per operation,
`paused` the pause of the CAPI cluster, `secret[m]` the plan secret with what
the agent last carried out (`sum`), what failed and what was printed, `limit`
how long the plan is tried. On the nodes there is what the properties speak of:
`up` (whose service runs), `keyStage` and `loaded` (the stage of the encryption
keys, and the one with which a server has started), `stamp` (the configuration with
which it was installed last, and restarted if that was another), `restored`,
`rotated`, `snapped` (work that has been done), and `ran` (what the script of
`idempotent.go` has marked as run).

A round is two steps, `Read` and `Act`, and everybody else may come between
them. `Act` is the first operation that has something to say, as in `Process`;
`EtcdCreateStep`, `EtcdRestoreStep`, `CertRotationStep` and `KeyRotationStep`
are disjunctions with one disjunct per way through the function that ends the
round, and `SnapshotIdle`, `RestoreIdle`, `CertsDue`, `KeysIdle` say when
it returns quietly. `Waiting`, `Failing` and `Completed` are the three
ways to end: an `errWaiting` keeps the status that the round has made, other
errors revert it, and `Persist` loses it when the control plane has
been edited since it was read or the write fails, although plans have been
delivered and the pause has been set by then. `StopRefused` and
`SnapshotRefused` are rounds in which one secret cannot be written. `Assign`
delivers a plan; a plan that equals one reported before is applied at once.

`Request` has three variables, `asked`, `worked` and `answered`. `ProcessLoop`
instantiates it for certificates (`Certs`, all machines concerned) and for
restores (`Restore`, the init node); `CertsKept` and `RestoreKept` are its
specification under these mappings.

### EtcdRemoval

`life[m]` is a CAPI machine with its bootstrap, `hooked` and `forced` the
pre-terminate hook and the annotation that gives it up; `mark`, `url`,
`joined`, `plan` what the plan secrets say of init node, join URLs and joined-to
annotations; a plan is whom it joins. `running[m]`, `node[m]`, `member[m]` are
the node: the plan that is applied, the Kubernetes node with its answer to the
request to leave etcd, and whose etcd cluster it is a member of. The planner's
`Read` is followed by one of `RecordURL` (`setMachineJoinURL`), `GiveUp`
(`clusterIsSane`, `forceDeleteAllDeletingEtcdMachines`), `AwaitRestore`,
`ClearMark`, `Elect`, `Deliver` (the tiers with `determineJoinURL`),
`MarkInitialized`, `Rest`. `SetHook`, `DropHook`, `AskToLeave`, `Release` are
the branches of `reconcileMachinePreTerminateAnnotation`, `AskToLeave` and
`SafelyRemoved` those of `etcdmgmt.SafelyRemoved`; `AssignPlanSecret` is the
generating handler. Users create and delete machines and the cluster;
`Terminate` is Cluster API once no hook is left.

### NodeDrain

`ann` has the six annotations by which planner and controller talk, `answer`
those of the owners of hooks; their values are drain options. What a round has
read of either is laid over the secret when it writes, of the hooks those in `Copied`,
whose names have a prefix that the planner takes for its own. `Read` is followed
by `RequestDrain`, `Deliver`, `RequestUncordon` or `Rest`, the branches of
`reconcile` with `drain` and `undrain`. The controller is called with a secret
that may be behind (`Called`) and takes one step per call of an API: `Cordon`,
`AskPreHooks`, `Evict`, `ReportDrain`, then `Undrain`, `AskPostHooks`,
`Uncordon`, `CleanAnnotations`, and `ClearError` or `DrainFails`. `Edit` changes
plan and options at any time. `deal` remembers under which options the
plan was delivered, for the properties.

## The runs

Every property of a passing run has a mutant: a plausible bug in one mapped
definition, with which TLC finds the property violated under the same cfg.

| run | properties | instance | states |
|---|---|---|---|
| `rollout_workers` | `TypeOK`, `CountCoversTier`, `CordonedWhileDrained`, `ViewStillTells`, `BudgetRespected`, `RestartsDrainedAsRead`, `WorkersAfterControlPlane` | two servers, one of them etcd, two drained workers, budget 1, two plans, 2 edits, 1 fault | 820 k |
| `rollout_converges` | `Converges`, `WorkersAfterControlPlane` | one server, two drained workers, three plans, two of them a minor change apart, 1 edit, 1 fault, fair | 340 k |
| `rollout_undrained` | violates `RestartsDrained` | one server, two drained workers, no fault | |
| `rollout_etcd` | violates `EtcdOneAtATime` | two etcd machines, one of them the server | |
| `rollout_reverted` | violates `WorkersUpgradedAtATime` | three workers, budget 2 | |
| `init_election` | `TypeOK`, `OneInitNode`, `MarkKept`, `RestoredOnHolder`, `NoSecondCluster` | two etcd machines and a newcomer, 2 machine events, 2 changes of the restore, 1 cut-off | 4.0 M |
| `init_settles` | `Settles` | the same with one of each, fair | 107 k |
| `init_fixed` | violates `OneInitNode` | two machines, the second fixed as init node | |
| `process_operations` | `TypeOK`, `RotatesLoaded`, `KeysDoneEverywhere`, `RestoresPaused`, `FirstRestoreOnStopped`, `RestoreStartsAll`, `RestoreLoadsKeys`, `SnapshotEverywhere`, `CertsKept`, `RestoreKept`, `Settles` | an etcd machine that is init node, a server, a control plane machine; 2 edits, 1 fault, fair | 407 k |
| `process_shutdown` | violates `RestoreOnStopped` | the same, no fault | |
| `etcd_removal` | `TypeOK`, `Released`, `Goes`, `Rejoins` | an etcd init node, two servers of which one comes later, a worker; 3 events, 1 fault, fair | 488 k |
| `node_drain` | `TypeOK`, `DrainedFirst`, `UpdatedFirst`, `Finishes` | two plans, three sets of options (hooks and eviction, hooks only, neither), 3 edits, 1 fault, fair | 1.2 M |

What they show:

- **CountCoversTier, BudgetRespected, ViewStillTells.** The count of a tier is
  computed from a read that may be long past. It still covers every machine
  really taken out, because only the planner takes machines out and what
  agents and controllers do meanwhile only ever puts one back. `ViewStillTells`
  is that statement about interference; the other two rest on it.
  A machine that is *exempt* (in the drain process, failed, probes never
  healthy) may exceed the budget: the code says so.
- **CordonedWhileDrained, RestartsDrainedAsRead.** The drain protocol has three
  annotations and two parties. A node that is reported drained is cordoned; a
  restart is ordered on a cordoned node unless the node was already being
  uncordoned when read, or its applied plan has changed since. The
  first exception is a disagreement with a comment (below); the second is the
  price of deciding on a read.
- **WorkersAfterControlPlane.** Tiers are ordered, but a minor change is
  delivered without waiting and without being counted; the property states the
  one way past the order that this opens. It is checked twice: over two servers
  without a minor change, and with one.
- **Converges.** No party is left waiting for another: not the drain for the
  planner, nor the uncordon, nor a failed plan for its budget.
- **OneInitNode, MarkKept, NoSecondCluster, RestoredOnHolder, Settles.** With
  each label written on its own and rounds cut off anywhere, plans are handed
  out only when one mark is there; two marks or none are repaired by a later
  round; a mark leaves a fit machine only where it has no join URL and another
  has; a machine without a plan founds a cluster only if no fit machine with a
  join URL was read. Whoever is told to restore a snapshot is its holder and the
  only init node, though the request may have changed since it was read; and the
  restore goes on only when the holder of the snapshot now asked for has been
  told. The deletion of an init node does not wait for a mark that is not taken away.
- **RotatesLoaded, KeysDoneEverywhere.** Keys advance a stage only when every
  control plane machine has restarted with the stage before, and a rotation is
  called done only at its last stage on all of them, although restores,
  certificates and other requests take over its machines between the phases and
  the script on the nodes may skip what it finds marked as run. A restore
  brings old keys back, so the second property stops there. It is a theorem, for
  generations that grow; the first is only model-checked.
- **RestoresPaused, FirstRestoreOnStopped, RestoreStartsAll, RestoreLoadsKeys.**
  A snapshot is restored while the CAPI cluster is paused, whichever other
  operation unpauses it in the same rounds; the first restore begins with all
  services down; and a restore that is called finished has everybody up, and
  started with the restored keys unless a command that a rotation has left
  changed these since. All are theorems, the second for generations that grow:
  it fails with four edits and two faults, as said under "What is proved".
- **SnapshotEverywhere.** The management plane restarts only after every etcd
  machine has taken a snapshot, although all are asked at once, each may
  fail, and a plan in place from an earlier request counts.
- **CertsKept, RestoreKept.** The refinement of `Request`: a generation is
  reported as done only while it is the one asked for and after everybody
  concerned has done the work of that generation. What this needs is that the
  status is written with the version that was read. `RestoreKept` holds for two
  edits, and for any number if the generations grow, which is a theorem; with three
  edits and one fault it does not, as said under "What is proved".
- **Settles** (of `ProcessLoop`). Requests come to an end, the pause is taken
  back and the planner comes to rest; or the cluster is in one of the dead ends
  that `DeadEnd` names, which are listed below.
- **Released, Goes, Rejoins.** A deleted etcd machine is kept until its member
  is out and everybody who runs joined to it has a plan to join another; it is
  not kept for ever, which takes election, rollout and hook together, since each
  waits for another; and nobody stays joined to a machine that is gone. The last
  member of an etcd cluster cannot leave it, which `Goes` allows for.
- **DrainedFirst, UpdatedFirst, Finishes.** With the options and the plan
  changed in every stage of the protocol, a plan is applied on a node that has
  been drained as its options ask; the node goes back into service, and
  post-drain hooks are asked, only after the plan is applied, except where
  it was delivered while an uncordon was under way; and
  the protocol always comes to its end, with no request and no error left behind;
  a drain-done that was brought back may stay.

**Bounds.** `MaxEdits`, `MaxFaults`, `MaxChurn`, `MaxRestores`, `MaxEvents` bound
what the environment may do; nothing else is bounded, and rounds are not. Two
edits are needed for a plan replaced while it is executed and replaced back, and
for one operation asked for in the middle of another; three for drain options
that change and change back while the plan changes too. One fault is enough for a round cut off,
an agent that fails, or a controller called with an old secret. Two workers make
a budget of one mean something. Three etcd machines are what an election needs
for a mark to move twice and a newcomer to be passed over; two restores for one
that replaces, or withdraws, another. Three machines in `ProcessLoop` have every
role that the operations tell apart: an init node without an API server, a
server that can lead a rotation, and a control plane machine that follows.
Three events in `EtcdRemoval` are a machine deleted, one that replaces it, and
one more. Workers are symmetric in the runs of safety properties that use
symmetry; liveness runs use none. The safety properties of `Rollout` and
`InitNode` are proved without bounds, as said below. Deadlock is checked in every
run: the planner always can begin another round.

## Fairness

`Rollout`: weak fairness of the planner's steps, of each agent's start and
completion, of probes that pass in the end, of the plansecret controller and of
the machinedrain controller. The planner is called for every change of a
secret, a machine or the control plane (`relatedresource.Watch`,
`pkg/controllers/planner/controller.go:33-79`) and a skipped round is enqueued
again (`:111-114`); the two controllers are called for every change of a secret;
agents poll. That a plan can be executed and becomes healthy is an
assumption about the nodes, without which no rollout converges; failures
(`AgentFail`, `ProbesFail`, `Abort`) are not fair and bounded by `MaxFaults`.
A round that waits is not enqueued again by the code; the model
lets it start again at any time, which is sound as a round that finds nothing
changed writes nothing new.

`InitNode`: weak fairness of the planner only. Machines need not get ready,
nodes need not come up, nobody need ask for anything.

`ProcessLoop`: weak fairness of the planner's `Read` and `Act`, and of each
agent, which polls its secret. A round that fails is tried again by the work
queue. An agent's run comes to an end; whether it succeeds is up to
`AgentFails`, which is bounded.

`EtcdRemoval`: the planner, the bootstrap controller (called for every change of
the bootstrap or its machine, and by `EnqueueAfter` while it waits,
`pkg/controllers/bootstrap/controller.go:556`, `:581`), and each node with
its runtime and Cluster API: plans that can be applied are applied, a node
that is asked leaves etcd, a machine without hooks is torn down. `Fails` is in
the same fairness, so that an agent may be stuck with a server that is
gone; then only a new plan helps.

`NodeDrain`: the planner, the drain controller, the agent, and the owners of
hooks, each of whom answers. Without the last a drain with hooks never ends, as
intended.

## What is proved

TLAPS checks all of it, for every value of the constants that satisfies the
named assumptions of the modules (finite sets of machines, roles as subsets,
natural numbers as bounds, equal bodies have equal stamps; hooks are given for
every option, and no option has the name of a mark; `Order` lists each machine
once). Three theorems have a hypothesis on the behaviour (`RestoresGrow`,
`KeysGrow`), which is explained where they are. Every inductive invariant was
checked by TLC before it was proved.

`Rollout_proofs`: `TypeCorrect`, `ViewsStillTell`, `CountIsSafe`,
`DrainedIsCordoned`, `BudgetIsRespected`, `RestartsAreDrained`,
`ControlPlaneFirst`. The inductive invariant `IInv` adds to the properties `RoundShape` (a tier is entered with
everything read, and whoever was read as out is in the count) and
`SecretOrder` (drain-done only with drain, annotations only where a plan is
applied). The argument: steps of the environment keep `StillTells` for every
machine that the round has read and not yet written (`EnvironmentKeeps`); a
step of the planner writes one machine, which leaves `todo`, so
`ViewStillTells` may weaken there; a machine disrupted by that write is put
into `down` by the same step (`DeliversKeeps`, `AnnotatesKeeps`), and entering
a tier counts all others from the views, which still tell
(`DisruptedIsSeen`). The two action properties follow from `IInv` and from
which steps can disrupt a machine or order a restart at all
(`OnlyTwoDisrupt`, `RestartIsMajor`). `ControlPlaneFirst` needs to know what a
tier leaves behind, and `InOrder` adds that: `LookedAt` (while nobody has to be
waited for, everyone the tier has looked at is settled, and was held back only
for want of capacity) and `TiersInOrder` (machines of earlier tiers are up to
date as read, and what was read still tells). The step between them
(`TierIsThrough`): somebody held back means somebody counted, and whoever is
counted and waited for by nobody is in the drain process with a minor change,
the exception that the property names. A machine that is both etcd and control
plane is looked at twice on one view; `StillUpToDate` says that this does no harm.

`InitNode_proofs`: `TypeCorrect`, `AgreedInitNode`, `MarksAreKept`,
`RestoredByHolder`, `OneCluster`. `IInv` is `TypeOK`, `RoundKnows` (what a round
has read of secrets is still so, but for machines that are gone: only rounds
write labels, one at a time; and if the version that was read is still that of
the control plane, so are the request and the phase, without which a restore
could go on for the holder of another) and `LoopShape` (what each loop relies on:
an election began with no init node found, plans are handed out with one
found, a designation that has changed nothing has seen the right mark on every
machine it has passed). Three theorems are about clusters without a fixed
init node: with one, `OneInitNode` does not hold, as `init_fixed` shows.

`NodeDrain_proofs`: `TypeCorrect`, `AppliedOnDrained`, `ServingOnUpdated`. Neither
action property is inductive: both rest on what stands in the secret *and* on what
the two controllers still hold of it. `IInv` is `Typed` with `SecretTells` (an
uncordon is asked for only with the plan in place, a drain-done without a request
to uncordon describes the node, and so does `deal` until the plan is applied),
`RoundKnows` (the same for the annotations that a round has read and will lay over
the secret) and `ControllerKnows`, whose last part says why a call with an old
secret does no harm: if the controller still sees a request to uncordon that is
gone from the secret, then the clean-up is done, the node is in service, the
post-drain hooks need not be asked, and no drain is reported until the controller
is called with a newer secret. The writes of a round are one lemma (`WriteKeeps`),
those of a call another (`ControllerWrites`), and each action is an instance.

`EtcdRemoval_proofs`: `TypeCorrect`, `PlansKnowServers`, `HookReleased`. The
controller lets a machine go because of annotations, and an annotation names
what the last plan joins. `IInv` says that this server has a join URL or is gone
for good (`PlansJoinKnown`: the planner takes the URL from another secret than
the one it writes), that who has left etcd does not come back (`LeftIsOut`), and
what a round has read that can be relied on when it writes (`RoundKnows`).

`ProcessLoop_proofs`: `TypeCorrect`, `SnapshotsTaken`, `CertsRotated`. `Basics` is
the invariant on which everything about `ProcessLoop` rests: `Typed`, `RoundKnows`
(only the planner writes plans, so a plan that was read is still there, and in
sync if it was; and a status can be written only if nobody has edited the request
since it was read) and `ReportsTrue` (a plan that is reported or applied was
carried out). `CertsRotated` is the refinement of `Request`, action by action:
all but the write of a status and an agent's work stutter.

`EtcdRestore_proofs`: `RestoredPaused`, `RestoreStarts`, `RestoreReloads`,
`RestoreAnswered`, `FirstRestoreStopped`. The danger in a restore is the plan that is
still in some secret, or still being executed, when the request has changed. `Safely`
adds to `Basics` that no plan is of a configuration yet to come (`ConfigsPast`), that
the restored cluster stays marked as not initialized until its own plans run
(`Uninitialized`), that while a restore plan may still be carried out the CAPI
cluster is paused and not marked as initialized, without which no operation gets
as far as unpausing it (`HeldPaused`), and that after the restore a machine with a new
plan is not taken down again (`ComesBack`). This gives the first two theorems.

`RestoreReloads` needs to know that a machine which reports the new configuration
has been restarted *after* the snapshot was restored. `Reloading` adds `Installed`
(configurations are installed in their order, and one that is reported was
installed), `RestoredFirst` (nobody runs with the new one, or is about to, before
the init node does, which has no restore left to execute then) and `LoadsRestored`
(who runs with it has the keys of the snapshot, unless these have been changed).

`RestoreAnswered` and `FirstRestoreStopped` are proved for requests whose
generations grow (`RestoresGrow`), while restore plans may fail and the next
restore may be asked for at any time. `Restoring` adds to `Safely` that nothing is known
on the nodes of a restore yet to be asked for (`Growing`), that a restore is
tried once, so that who reports it as carried out has executed it (`Tried`), and
that what is brought to its end was restored (`RestoredInPhase`); `Stopping` adds
`StillAsked` and `FirstStops` (before the first restore nothing follows a stop plan
but the restore plan, so who has stopped stays down). The code does not ask for
growing generations, "changing the Generation is the only thing required to
initiate a snapshot restore" (`etcd.go:37`), and both are false without them,
beyond the bounds of the run: the stop plan does not hold the generation of its
restore, so it counts as carried out when it was applied in an earlier one, and
the script around the restore marks the attempt before it runs it. If restore 1
begins and fails, restore 2 is asked for and then 1 again, the plan of 1 is
delivered anew, its script finds the attempt marked and skips it, and the restore is
reported as finished (3 edits and 1 fault): "exactly once" (`idempotent.go:57`) is at
most once. With a fourth edit and a second fault a restore that was never carried
out goes on while services run. A withdrawal is not growth and is excluded too;
`FirstRestoreOnStopped` excuses it by itself.

`KeyRotation_proofs`: `RotationDone`. `Rotating` adds to
`Basics`, as long as nothing is restored, what every phase of a rotation knows of
keys and plans. `StageFits`: in which stage the keys are in a phase, and that
every control plane machine runs with that stage before a command can take the
keys further. `CommandsLive`: no plan with another command than that of the
phase is left, although commands are handed out to a leader that may change.
`RestartsPast`: no restart plan is of a phase to come, so that a restart is never
found to be carried out before it is asked for; the script on the nodes, which
skips what is marked as run, would let it pass. `RestartsCount`: a restart plan
that counts as carried out has been, by a machine that loaded the keys of the
stage then, and no command is left on that machine.
`RoundTold`: a command whose output a round has read has taken effect. The theorem
follows from how a node (`NodeStages`) or a round (`RoundRotates`) can leave the
keys and the phase.

A restore brings old keys back, so the property is about rotations before one.
The theorem needs `KeysGrow`: each rotation is asked for with a greater generation than
the one before, of a release that supports it, and is not withdrawn. The code
does not ask for that, and without it TLC finds counterexamples with four edits,
beyond the bounds of the run. A rotation of generation 1 that 2 replaces, then 1
again and, when that is done, 2 again: the restart plans of the second 2 are
those of the first, marked as run on the nodes, so the restart is skipped and
keys are rotated, and called done, with the old ones loaded. And a rotation that is
withdrawn while its last command is executed: the next one prepares new keys
before the reencrypted ones were loaded. The pause that a withdrawn rotation leaves
would prevent this, but certificates have taken it back in between.

Only model-checked:

- the liveness properties `Converges`, `Settles` (both), `Goes`, `Rejoins` and
  `Finishes`: fairness and ENABLED are beyond the prover;
- `RotatesLoaded`: the same argument gives it as long as nothing is restored, but
  its hazards are those that a restore brings. With restores it holds for
  growing generations in the instances that TLC can explore (4 edits, 1 fault), and
  fails for others, as the examples above show.

## Where code and comments disagree

- `rollout_undrained`: a node being uncordoned counts as "currently drained"
  (`planner.go:899`, `:913`). If the plan is edited again just then, the old
  drain-done answers for the new restart while the drain controller uncordons.
- `rollout_etcd`: "select all etcd and then filter to just initNodes so that
  unavailable count is correct" (`planner.go:348`): the filter is applied
  before the count (`:829`), so two etcd machines may be out.
- `rollout_reverted`: "How many workers should be upgraded at a time"
  (`cluster.go:141`): a plan reverted while it is executed is in sync at once
  (`store.go:277`).
- `init_fixed`: "if multiple init nodes are found, it will return false"
  (`initnode.go:89`): not with a fixed init node (`:60`).
- `process_shutdown`: "cluster shutdown complete, running etcd restore"
  (`etcdrestore.go:824`): the plan that stops a machine is the same in every
  restore, and a plan that is the same as the applied one is in sync at once
  (`store.go:277`). A second restore asked for while the first one restarts the
  cluster goes on while services still run.

The following came up while modelling and have no run that violates a property:
the first is harmless, the others are exceptions that the properties name.

- `ProcessLoop`: a restart after a restore is run "ignoring drain and concurrency"
  (`etcdrestore.go:841`, `:856`). It ignores the drain; the concurrency that is
  passed instead is empty, which means one (`planner.go:546`), so that every
  tier, workers included, is restarted one machine at a time. The model does as
  the code.
- `ProcessLoop`, the dead ends of `Settles`. *Abandoned*: a plan with a limited
  number of attempts has failed; the same plan is not tried again, and for
  plans of `assignAndCheckPlan` with swapped limits nobody notices
  (`store.go:478`). *StageUnexpected*: secrets-encrypt printed another stage
  than that of the phase (the command was marked as run, or a restore came in
  between); every round ends in an error on which the phase `failed` is not
  written (`encryptionkeyrotation.go:752`). *LeaderLost*: "the phase will be set
  to failed as this is unexpected" (`:293`), but an error is all that comes
  (`:309`). *PauseLeft*: a rotation that
  failed or was withdrawn leaves the CAPI cluster paused
  (`certificaterotation.go:47`).
- `EtcdRemoval`: "make sure this node is not being used as an init node"
  (`controllers/bootstrap/controller.go:537`) looks at joined-to annotations
  only. These name what the delivered plan joins, not what is running:
  `Released` therefore asks for a plan to join another, not for its being
  applied. A machine with no node reference, one whose node is lost, one that is
  given up, and all machines of a cluster that is deleted are let go without
  waiting.
- `NodeDrain`: a plan delivered while an uncordon is under way (`Hasty`) is
  applied on a node that may be in service, and post-drain hooks, which "run
  after draining AND UPDATING" (`cluster.go:183`), may be asked before it is.
  Answers of hooks in options that have been replaced stay and count when the
  same options come back.

## What is left out

`Rollout`: hooks and errors of drains, changing drain options, machines
without a node, the join URL written during `Load` (its round ends, as in
`Abort`), concurrency in percent or negative, the text of conditions. The order
of machines within a tier is arbitrary. A minor change that waits for a
condition of the machine is `Abort`. Machines do not come and go: that is
`InitNode`.

`InitNode`: S3 snapshots (they elect, they do not designate) and snapshots
without an object; the phases Started, pod cleanup and node cleanup are merged
into their neighbours; the sanity checks on control planes and workers; names
of machines are not used again; the holder of a snapshot has run before. A
change of the restore resets the status at once where the code does so in the
next round. `HandOut` writes even if the plan is the same. The number of
changes of the restore stands for the resource version of the control plane.

`ProcessLoop`: machines do not come and go and the init node stays;
budgets, drains and minor changes (`Rollout`); S3 and missing snapshot
objects, version checks, the restore of the RKE configuration; deleting etcd
machines during the stop; the three reencrypt stages are one, and that
secrets-encrypt takes its commands in order only is an assumption about the
runtime. A generation of a restore stands for the whole request. What etcd
holds is not modelled, so a restored machine that loses the mark in the restart
afterwards is a hazard without a property.

`EtcdRemoval`: budgets and drains; fixed init nodes and designation; machines
that are deleted before they have a plan secret; bootstraps deleted directly
(`OnRemove`); the kubeconfig secret exists; conflicts on the status.

`NodeDrain`: other machines, for which the budget is in `Rollout`; machines
without a node; the drain that is switched off in a cluster of one machine; plans
that fail; plans with the same restart stamp; what kubectl's drain does with
each pod.

The conversion of concurrency strings (`calculateConcurrency`: a negative number
lets nothing through, 0 and 0% everything, 28% of 25 machines is
7.000000000000001 and so 8) and the comparison of files in
`minorPlanChangeDetected` are data conversion; they are listed as
hazards without a property.

Not modelled: `machineprovision` and `unmanaged` cannot run at this commit:
`Register` leaves clients and caches that every path uses nil, since the lines that set
them are commented out, so there is no behaviour to be faithful to. Parts of
`rkecontrolplane` and of `controllers.go` are commented out in the same way.
The generation of configuration, probes and instructions, API types, HTTP
endpoints, the installer, deployment of the system agent, dynamic
schemas, node lookup and the standalone controllers have no state of their own or are
single idempotent writes. Generated clients and caches (`pkg/generated`)
are more than three quarters of the Go code; only their status handler
is part of the models.

## Plan

Done: all modules of the table; proofs of every safety property that a passing
run checks, but for `RotatesLoaded`.

Next, in this order:

1. `RotatesLoaded` with restores, for growing generations of both: what `Rotating`
   says of the phases has to be stated for keys that a snapshot has replaced.
2. The data of etcd members: who has the restored data after a restore, in
   composition with the election.
3. `calculateConcurrency` and `minorPlanChangeDetected` as operators, checked
   against reference definitions.
