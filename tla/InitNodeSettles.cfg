SPECIFICATION FairSpec
CONSTANTS
  Machines = {1, 2, 3}
  Newcomers = {3}
  Fixed = 0
  MaxChurn = 1
  MaxRestores = 1
  MaxFaults = 1
PROPERTY Settles
