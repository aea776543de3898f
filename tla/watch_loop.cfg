SPECIFICATION FairSpec
CONSTANTS
  s1 = s1
  s2 = s2
  a1 = a1
  Socks = {s1, s2}
  AddrOf <- SameAddress
  MaxCount = 1
  MaxList = 2
  MaxTime = 1
INVARIANTS
  TypeOK
  RatesAreOfOneSocket
PROPERTIES
  Refreshing
  SignalEndsRun
CHECK_DEADLOCK FALSE
