SPECIFICATION FairSpec
CONSTANTS
  c1 = c1
  c2 = c2
  c3 = c3
  s1 = s1
  s2 = s2
  Callers = {c1, c2, c3}
  Stores = {s1, s2}
  StoreOf <- TwoStores
  Retention = 1
  MaxTime = 0
  MaxRecords = 2
  Faults = {"read", "open", "write", "remove", "crash"}
INVARIANT
  ResurrectionOnlyByRace
PROPERTY
  EveryCallReturns
