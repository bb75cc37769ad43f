SPECIFICATION Spec
CONSTANTS
  Clients = {c1, c2}
  None = None
  Conns <- Pairs
  Retries = 1
  Backlog = 1
  ToParse = 1
  Tasks = 1
  Kinds = {"knotty", "kill"}
  Timeouts = {"none"}
  Kills = 1
  Terms = 1
INVARIANTS
  OneServer
  NobodyForgotten
  ToldOnce
PROPERTIES
  StopHonoured
SYMMETRY Symmetry
CHECK_DEADLOCK FALSE
