SPECIFICATION Spec
CONSTANTS
  NSlots = 2
  KindOf <- TCPSlots
  includeListening = FALSE
  MaxInode = 2
  Failing = {}
INVARIANTS
  NoneReportedTwice
