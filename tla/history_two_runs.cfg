SPECIFICATION Spec
CONSTANTS
  c1 = c1
  c2 = c2
  c3 = c3
  s1 = s1
  s2 = s2
  Callers = {c1, c2}
  Stores = {s1, s2}
  StoreOf <- TwoStores
  Retention = 2
  MaxTime = 2
  MaxRecords = 2
  Faults = {}
INVARIANT
  SavedSnapshotsKept
