SPECIFICATION FairSpec
CONSTANTS
  a1 = a1
  a2 = a2
  lo = lo
  n1 = n1
  n2 = n2
  n3 = n3
  NoIP = NoIP
  NoName = NoName
  Unknown = Unknown
  NConns = 3
  IPs = {a1, a2, lo}
  Special = {lo}
  PTR <- Answers
  MaxLookups = 2
INVARIANTS
  TypeOK
  LookupsBounded
  NoConcurrentMapAccess
  CachedIsFinal
PROPERTIES
  NoLateWrite
  AbstractSpec
  EveryCallReturns
