SPECIFICATION Spec
CONSTANTS
  c1 = c1
  c2 = c2
  s1 = s1
  Callers = {c1, c2}
  Stores = {s1}
  StoreOf <- OneStore
  Retention = 4
  MaxTime = 4
  MaxRecords = 3
  Faults = {"open"}
  Hour = 2
  Windows = {1, 2}
  DefaultHours = 2
  Connections <- Counted
  RXBytes <- Carried
  Traffic = 1000
SYMMETRY Alike
INVARIANTS
  TypeOK
  SavedSnapshotsKept
  ClearedStaysCleared
  PruningIsInvisible
  EachInOneBucket
  TotalsCountOnce
PROPERTY
  AbstractSpec
