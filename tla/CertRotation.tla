---------------------------- MODULE CertRotation ----------------------------
(****************************************************************************)
(* rotateCertificates: one machine after the other gets a plan that renews  *)
(* its certificates and restarts it, while the CAPI cluster is paused.      *)
(****************************************************************************)
EXTENDS PlannerRound

CONSTANT CertScope   \* the machines that have any of the services to rotate

ASSUME CertAssumption == CertScope \subseteq Machines

CertPlan(g) == Plan("certs", "", g)

\* shouldRotate
CertsDue ==
  /\ cp.asked["certs"] # 0 /\ cp.status.initialized
  /\ cp.status.certs # cp.asked["certs"]

CertTiers ==
  <<Etcd \ ControlPlane, Etcd \cap ControlPlane, ControlPlane \ Etcd,
    Machines \ (Etcd \cup ControlPlane)>>

\* (mutant) The plan of a machine is not awaited.
NotRotatedMutant ==
  {m \in CertScope : NeedsPlan(m, CertPlan(cp.asked["certs"]))}

NotRotated == {m \in CertScope : ~Carried(m, CertPlan(cp.asked["certs"]))}

\* The plan fails or not, the limits 0 and 0 mean that the agent goes on.
RotateNext ==
  /\ Turn /\ CertsDue /\ NotRotated # {}
  /\ LET m == NextIn(CertTiers, NotRotated)
         p == CertPlan(cp.asked["certs"])
     IN /\ Assign({n \in {m} : NeedsPlan(n, p)}, [n \in Machines |-> p],
                  "forever")
        /\ IF HasFailed(m, p) THEN Failing ELSE Waiting(cp.status)
  /\ paused' = TRUE
  /\ PlannerOnly

CertsDone ==
  /\ Turn /\ CertsDue /\ NotRotated = {}
  /\ paused' = FALSE
  /\ Waiting([cp.status EXCEPT !.certs = cp.asked["certs"]])
  /\ PlannerOnly /\ UNCHANGED secret

CertRotationStep == RotateNext \/ CertsDone

\* Stop, rotate and restart are run once for each generation.
NodeRotatesCerts(m) ==
  /\ Runs(m, {"certs"})
  /\ AgentReports(m, "")
  /\ IF working[m].fresh THEN StartsService(m) ELSE UNCHANGED <<up, loaded>>
  /\ rotated' = rotated \cup {<<m, working[m].plan.gen>>}
  /\ UNCHANGED <<keyStage, stamp, ran, restored, snapped, faults>>

=============================================================================
