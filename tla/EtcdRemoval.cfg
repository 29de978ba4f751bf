CONSTANTS
  a = a
  b = b
  n = n
  w = w
  Machines = {a, b, n, w}
  Etcd = {a, b, n}
  ControlPlane = {b, n}
  Worker = {w}
  FirstInit = a
  FirstServer = b
  Later = {n}
  Order <- ByName
  MaxEvents = 3
  MaxFaults = 1
SPECIFICATION FairSpec
INVARIANT TypeOK
PROPERTIES Released Goes Rejoins
