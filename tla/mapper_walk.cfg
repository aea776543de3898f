SPECIFICATION Spec
CONSTANTS
  NPids = 2
  NFds = 2
  Slots <- TwoAndOne
  Inodes = {s1, s2}
  Names = {sshd, nginx}
  Denied = {}
SYMMETRY Alike
INVARIANTS
  TypeOK
  AttributionIsTrue
  SteadyIsAttributed
  OneNamePerPid
