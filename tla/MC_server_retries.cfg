SPECIFICATION FairSpec
CONSTANTS
  Clients = {c1}
  None = None
  Conns <- Pairs
  Retries = 3
  Backlog = 1
  ToParse = 1
  Tasks = 1
  Kinds = {"knotty", "kill"}
  Timeouts = {"none", "some"}
  Kills = 0
  Terms = 0
PROPERTIES
  ClientsEnd
  ServerEnds
CHECK_DEADLOCK FALSE
