------------------------------ MODULE MCRollout ------------------------------
(* Instances of Rollout for TLC.                                            *)
EXTENDS Rollout, TLC

CONSTANTS c1, c2, w1, w2, w3

\* Every plan restarts what the others run; or 3 is the plan 1 with
\* other minor files.
DistinctBodies == [g \in Goals |-> g]
MinorThree     == [g \in Goals |-> IF g = 3 THEN 1 ELSE g]

OneAtATime == [t \in Tiers |-> 1]
TwoWorkers == [t \in Tiers |-> IF t = "worker" THEN 2 ELSE 1]
NoDrain    == [t \in Tiers |-> FALSE]
DrainWorkers == [t \in Tiers |-> t = "worker"]

WorkerSymmetry == Permutations(Worker)
=============================================================================
