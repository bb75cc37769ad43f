SPECIFICATION FairSpec
CONSTANTS
  Clients = {c1, c2}
  None = None
  Conns <- Pairs
  Retries = 1
  Backlog = 1
  ToParse = 1
  Tasks = 1
  Kinds = {"knotty", "kill"}
  Timeouts = {"never"}
  Kills = 0
  Terms = 0
PROPERTIES
  KillEnds
CHECK_DEADLOCK FALSE
