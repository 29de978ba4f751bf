SPECIFICATION Spec
CONSTANTS
  Machines = {1, 2}
  Newcomers = {}
  Fixed = 2
  MaxChurn = 0
  MaxRestores = 2
  MaxFaults = 1
INVARIANT OneInitNode
