CONSTANTS
  a = a
  b = b
  c = c
  Machines = {a, b, c}
  Etcd = {a, b}
  ControlPlane = {b, c}
  InitNode = a
  Order <- OrderABC
  Gens <- FewGenerations
  SupportedKeys = {1}
  CertScope = {a, b, c}
  MaxEdits = 2
  MaxFaults = 1
SPECIFICATION FairSpec
INVARIANT TypeOK
PROPERTIES RotatesLoaded KeysDoneEverywhere RestoresPaused
  FirstRestoreOnStopped RestoreStartsAll RestoreLoadsKeys SnapshotEverywhere
  CertsKept RestoreKept Settles
