SPECIFICATION FairSpec
CONSTANTS
  c1 = c1
  c2 = c2
  w1 = w1
  w2 = w2
  w3 = w3
  Machines = {c1, w1, w2}
  Etcd = {c1}
  ControlPlane = {c1}
  Worker = {w1, w2}
  InitNode = c1
  Concurrency <- OneAtATime
  DrainEnabled <- DrainWorkers
  Goals = {1, 2, 3}
  Body <- MinorThree
  Stamp <- MinorThree
  MaxEdits = 1
  MaxFaults = 1
PROPERTIES Converges WorkersAfterControlPlane
