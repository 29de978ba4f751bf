----------------------------- MODULE KeyRotation -----------------------------
(****************************************************************************)
(* rotateEncryptionKeys: a control plane machine, the leader, runs          *)
(* secrets-encrypt prepare, rotate and reencrypt, and after each of these   *)
(* all servers are restarted so that they load the keys of that stage.      *)
(****************************************************************************)
EXTENDS PlannerRound

CONSTANT SupportedKeys   \* the generations asked for of supported releases

ASSUME KeysAssumption == SupportedKeys \subseteq Gens["keys"]

\* What the leader runs in a phase, and the phases in their order.
Command ==
  [Prepare |-> "prepare", Rotate |-> "rotate", Reencrypt |-> "reencrypt"]

\* (mutant) The last command is forgotten.
NextPhaseMutant ==
  [Prepare |-> "PostPrepareRestart", PostPrepareRestart |-> "Rotate",
   Rotate |-> "PostRotateRestart", PostRotateRestart |-> "PostReencryptRestart",
   Reencrypt |-> "PostReencryptRestart", PostReencryptRestart |-> "Done"]

NextPhase ==
  [Prepare |-> "PostPrepareRestart", PostPrepareRestart |-> "Rotate",
   Rotate |-> "PostRotateRestart", PostRotateRestart |-> "Reencrypt",
   Reencrypt |-> "PostReencryptRestart", PostReencryptRestart |-> "Done"]

CommandPhases == DOMAIN Command
RestartPhases == DOMAIN NextPhase \ CommandPhases
KeyPhases == DOMAIN NextPhase \cup {"", "Done", "Failed"}
KeyStages == {"start", "prepare", "rotate", "reencrypt"}

KeysAsked == cp.asked["keys"]
InProgress == cp.status.keysPhase \in DOMAIN NextPhase
Supported == KeysAsked \in SupportedKeys
Refused == cp.status.keysFor = KeysAsked /\ cp.status.keysPhase = "Failed"

\* canRotateEncryptionKeys
CanRotate ==
  /\ cp.status.ready \/ InProgress
  /\ \/ cp.status.keysFor # KeysAsked
     \/ cp.status.keysPhase \notin {"Done", "Failed"}

\* rotateEncryptionKeys returns without an error.
KeysIdle ==
  \/ KeysAsked = 0 /\ cp.status.keysFor = 0 /\ cp.status.keysPhase = ""
  \/ KeysAsked # 0 /\ ~Supported /\ Refused
  \/ KeysAsked # 0 /\ Supported /\ (~CanRotate \/ ~cp.status.initialized)

\* shouldRestartEncryptionKeyRotation
ShouldRestart ==
  /\ cp.status.ready
  /\ \/ cp.status.keysFor = 0
     \/ ~InProgress /\ cp.status.keysFor # KeysAsked
     \/ ~InProgress /\ cp.status.keysPhase # "Done"

KeysState(phase) ==
  [cp.status EXCEPT !.keysFor = KeysAsked, !.keysPhase = phase]

\* The phase is all that is reset, the CAPI cluster stays paused.
ResetKeys ==
  /\ Turn /\ KeysAsked = 0 /\ ~KeysIdle
  /\ Waiting(KeysState(""))
  /\ PlannerOnly /\ UNCHANGED <<paused, secret>>

RefuseKeys ==
  /\ Turn /\ KeysAsked # 0 /\ ~Supported /\ ~Refused
  /\ Waiting(KeysState("Failed"))
  /\ PlannerOnly /\ UNCHANGED <<paused, secret>>

Rotates ==
  Turn /\ KeysAsked # 0 /\ Supported /\ CanRotate /\ cp.status.initialized

StartKeys ==
  /\ Rotates /\ ShouldRestart
  /\ Waiting(KeysState("Prepare"))
  /\ PlannerOnly /\ UNCHANGED <<paused, secret>>

Suitable == ControlPlane \ cp.unfit
HasLeader == cp.status.leader \in Suitable

\* encryptionKeyRotationFindLeader
MayElect ==
  /\ cp.status.keysPhase = "Prepare"
  /\ InitNode \in ControlPlane \/ Suitable # {}

\* (mutant) The init node leads whether it can rotate the keys or not.
LeaderMutant == IF HasLeader THEN cp.status.leader ELSE InitNode

Leader ==
  IF HasLeader THEN cp.status.leader
  ELSE IF InitNode \in ControlPlane THEN InitNode ELSE First(Suitable)

\* The phase is said to be set to failed here, it is not.
NoLeader ==
  /\ Rotates /\ ~ShouldRestart /\ ~HasLeader /\ ~MayElect
  /\ Failing
  /\ PlannerOnly /\ UNCHANGED <<paused, secret>>

ElectLeader ==
  /\ Rotates /\ ~ShouldRestart
  /\ HasLeader \/ MayElect
  /\ cp.status.leader # Leader
  /\ Waiting([cp.status EXCEPT !.leader = Leader])
  /\ PlannerOnly /\ UNCHANGED <<paused, secret>>

RotationIn(phases) ==
  /\ Rotates /\ ~ShouldRestart
  /\ HasLeader \/ MayElect
  /\ cp.status.leader = Leader /\ cp.status.keysPhase \in phases

PhasePlan(kind) == Plan(kind, cp.status.keysPhase, KeysAsked)

\* encryptionKeyRotationFailed does set the phase to failed, but with an
\* error on which the status is not written.
RunCommand ==
  LET p == PhasePlan("encrypt")
      s == cp.status
  IN /\ RotationIn(CommandPhases)
     /\ paused' = (paused \/ s.keysPhase = "Prepare")
     /\ Assign({m \in {Leader} : NeedsPlan(m, p)}, [m \in Machines |-> p],
               "few")
     /\ IF \/ HasFailed(Leader, p)
           \/ /\ Carried(Leader, p)
              /\ view[Leader].out \notin {"", Command[s.keysPhase]}
        THEN Failing
        ELSE Waiting(IF Carried(Leader, p) /\ view[Leader].out # ""
                     THEN KeysState(NextPhase[s.keysPhase]) ELSE s)
     /\ PlannerOnly

\* Everybody else first when the leader is not the init node.
RestartTiers ==
  IF Leader = InitNode THEN <<{Leader}, ControlPlane \ {Leader}>>
  ELSE <<{InitNode}, Etcd \ (ControlPlane \cup {InitNode}), {Leader},
         ControlPlane \ {Leader, InitNode}>>

\* Those whose stage is read are told which stage the leader has.
Followers == ControlPlane \ {Leader, InitNode}
RestartPlan(m) ==
  [PhasePlan("restart") EXCEPT
     !.arg = IF m \in Followers THEN view[Leader].out ELSE ""]

\* A machine is done with when its stage is known, if it is asked for.
Restarted(m) ==
  /\ Carried(m, RestartPlan(m))
  /\ m \in Followers \cup {Leader} => view[m].out # ""

\* (mutant) The followers are not waited for.
NotRestartedMutant == {m \in {Leader} : ~Restarted(m)}

NotRestarted ==
  UNION {{m \in RestartTiers[t] : ~Restarted(m)} : t \in DOMAIN RestartTiers}

\* Of the followers that come before the next machine, one has another stage.
StageDiffers ==
  \E f \in Followers \ NotRestarted :
    /\ view[f].out # view[Leader].out
    /\ \A m \in NotRestarted : m \in Followers /\ Order[f] < Order[m]

RestartNext ==
  /\ RotationIn(RestartPhases) /\ NotRestarted # {}
  /\ LET m == NextIn(RestartTiers, NotRestarted)
         p == RestartPlan(m)
     IN /\ Assign({n \in {m} : NeedsPlan(n, p) /\ ~StageDiffers},
                  [n \in Machines |-> p], "few")
        /\ IF HasFailed(m, p) \/ StageDiffers THEN Failing
           ELSE Waiting(cp.status)
  /\ PlannerOnly /\ UNCHANGED paused

EndRestarts ==
  LET next == NextPhase[cp.status.keysPhase]
      done == next = "Done"
  IN /\ RotationIn(RestartPhases) /\ NotRestarted = {}
     /\ paused' = (paused /\ (~done \/ StageDiffers))
     /\ IF StageDiffers THEN Failing
        ELSE Waiting([KeysState(next) EXCEPT
                        !.leader = IF done THEN Nobody ELSE @])
     /\ PlannerOnly /\ UNCHANGED secret

KeyRotationStep ==
  \/ ResetKeys \/ RefuseKeys \/ StartKeys \/ NoLeader \/ ElectLeader
  \/ RunCommand \/ RestartNext \/ EndRestarts

\* secrets-encrypt takes its commands in their order only.
Takes ==
  [prepare |-> {"start", "reencrypt"}, rotate |-> {"prepare"},
   reencrypt |-> {"rotate"}]

\* The command is marked as run, or carried out; the status is printed.
NodeEncrypts(m) ==
  LET stage == Command[working[m].plan.phase]
      new == IF working[m].fresh THEN stage ELSE keyStage
  IN /\ Runs(m, {"encrypt"})
     /\ working[m].fresh => keyStage \in Takes[stage]
     /\ keyStage' = new
     /\ AgentReports(m, new)
     /\ UNCHANGED <<up, loaded, stamp, ran, restored, rotated, snapped, faults>>

\* The command is refused, of which the failure of the plan tells.
NodeRefuses(m) ==
  /\ Runs(m, {"encrypt"}) /\ working[m].fresh
  /\ keyStage \notin Takes[Command[working[m].plan.phase]]
  /\ PlanFails(m)
  /\ UNCHANGED <<up, keyStage, loaded, stamp, restored, rotated, snapped>>
  /\ UNCHANGED faults

\* A server is restarted and tells the stage that it has loaded, which must
\* be that of the leader.
NodeRestarts(m) ==
  LET stage == loaded'[m]
      p == working[m].plan
  IN /\ Runs(m, {"restart"})
     /\ IF working[m].fresh THEN StartsService(m) ELSE UNCHANGED <<up, loaded>>
     /\ IF p.arg \in {"", stage}
        THEN /\ AgentReports(m, IF m \in ControlPlane THEN stage ELSE "")
             /\ UNCHANGED ran
        ELSE PlanFails(m)
     /\ UNCHANGED <<keyStage, stamp, restored, rotated, snapped, faults>>

=============================================================================
