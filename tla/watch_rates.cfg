SPECIFICATION Spec
CONSTANTS
  s1 = s1
  s2 = s2
  a1 = a1
  Socks = {s1}
  AddrOf <- SameAddress
  MaxCount = 1
  MaxList = 2
  MaxTime = 2
INVARIANT
  RatesOverTheirTime
CHECK_DEADLOCK FALSE
