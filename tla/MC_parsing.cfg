SPECIFICATION FairSpec
CONSTANTS
  p1 = p1
  p2 = p2
  Parsers = {p1, p2}
  Recipes = {"r1", "r2", "r3"}
  Chunk <- TwoOne
  Capacity = 1
  Pid <- Pids
  OldFiles = {1}
  Old = Old
  None = None
  MaxKills = 1
INVARIANTS
  Complete
  ExtrasKept
PROPERTIES
  ParseEnds
CHECK_DEADLOCK FALSE
