SPECIFICATION FairSpec
CONSTANTS
  Clients = {c1, c2}
  None = None
  Conns <- Pairs
  Retries = 1
  Backlog = 0
  ToParse = 1
  Tasks = 1
  Kinds = {"knotty", "kill"}
  Timeouts = {"none", "some"}
  Kills = 0
  Terms = 0
PROPERTIES
  ClientsEnd
  ServerEnds
CHECK_DEADLOCK FALSE
