SPECIFICATION FairSpec
CONSTANTS
  Tasks = {t1, t2}
  MaxHashes = 1
  MaxFaults = 2
INVARIANTS
  HashesAsSent
PROPERTIES
  Implements
  NothingLost
  WorkerEnds
CHECK_DEADLOCK FALSE
