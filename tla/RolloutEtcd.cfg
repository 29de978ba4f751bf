SPECIFICATION Spec
CONSTANTS
  c1 = c1
  c2 = c2
  w1 = w1
  w2 = w2
  w3 = w3
  Machines = {c1, c2}
  Etcd = {c1, c2}
  ControlPlane = {c1}
  Worker = {}
  InitNode = c1
  Concurrency <- OneAtATime
  DrainEnabled <- NoDrain
  Goals = {1, 2}
  Body <- DistinctBodies
  Stamp <- DistinctBodies
  MaxEdits = 2
  MaxFaults = 0
PROPERTY EtcdOneAtATime
