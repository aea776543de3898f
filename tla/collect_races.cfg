SPECIFICATION Spec
CONSTANTS
  NSlots = 3
  KindOf <- MixedSlots
  includeListening = TRUE
  MaxInode = 3
  Failing = {1, 2, 3, 4, 5, 6}
INVARIANTS
  TypeOK
  OncePerInode
  LastingReported
