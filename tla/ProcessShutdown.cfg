CONSTANTS
  a = a
  b = b
  c = c
  Machines = {a, b, c}
  Etcd = {a, b}
  ControlPlane = {b, c}
  InitNode = a
  Order <- OrderABC
  Gens <- FewGenerations
  SupportedKeys = {1}
  CertScope = {a, b, c}
  MaxEdits = 2
  MaxFaults = 0
SPECIFICATION Spec
PROPERTY RestoreOnStopped
