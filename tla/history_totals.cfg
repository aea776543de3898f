SPECIFICATION Spec
CONSTANTS
  c1 = c1
  c2 = c2
  s1 = s1
  Callers = {c1}
  Stores = {s1}
  StoreOf <- OneStore
  Retention = 4
  MaxTime = 2
  MaxRecords = 2
  Faults = {}
  Hour = 2
  Windows = {1}
  DefaultHours = 2
  Connections <- Idle
  RXBytes <- Idle
  Traffic = 1
INVARIANT
  TotalIsTraffic
