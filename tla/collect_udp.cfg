SPECIFICATION Spec
CONSTANTS
  NSlots = 2
  KindOf <- UDPSlots
  includeListening = FALSE
  MaxInode = 2
  Failing = {}
INVARIANTS
  ConnectedUDPReported
