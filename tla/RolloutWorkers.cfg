SPECIFICATION Spec
CONSTANTS
  c1 = c1
  c2 = c2
  w1 = w1
  w2 = w2
  w3 = w3
  Machines = {c1, c2, w1, w2}
  Etcd = {c1}
  ControlPlane = {c1, c2}
  Worker = {w1, w2}
  InitNode = c1
  Concurrency <- OneAtATime
  DrainEnabled <- DrainWorkers
  Goals = {1, 2}
  Body <- DistinctBodies
  Stamp <- DistinctBodies
  MaxEdits = 2
  MaxFaults = 1
SYMMETRY WorkerSymmetry
INVARIANTS
  TypeOK
  CountCoversTier
  CordonedWhileDrained ViewStillTells
PROPERTIES
  BudgetRespected
  RestartsDrainedAsRead
  WorkersAfterControlPlane
