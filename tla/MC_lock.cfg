SPECIFICATION FairSpec
CONSTANTS
  Procs = {p1, p2, p3}
  Inodes = {i1, i2, i3}
  Calls <- AllCalls
INVARIANTS
  MutualExclusion
  FileKept
PROPERTIES
  Implements
  Progress
