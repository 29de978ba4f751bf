SPECIFICATION Spec
CONSTANTS
  Machines = {1, 2, 3}
  Newcomers = {3}
  Fixed = 0
  MaxChurn = 2
  MaxRestores = 2
  MaxFaults = 1
INVARIANTS
  TypeOK
  OneInitNode
PROPERTIES
  MarkKept
  RestoredOnHolder
  NoSecondCluster
