SPECIFICATION Spec
CONSTANTS
  Tasks <- bridgeTasks
  depends <- bridgeDepends
  Setscene <- bridgeSetscene
  sq_harddeps <- bridgeHard
  Targets = {6, 7}
  Noexec = {}
  Nostamp = {}
  Fakeroot = {}
  Recipe <- bridgeRecipe
  PN <- bridgePN
  Stamp <- bridgeShared
  TaskName <- bridgeName
  NumberThreads <- bridgeOne
  NumberTasks = 2
  Whitelisted = {}
  Hash = {"h1", "h2"}
  Unihash0 <- bridgeHash
  OldStamps = {{}}
  OldSqStamps = {{}}
  Requests = {{}, {"continue"}}
INVARIANTS
  DepsFirst
  DecidedFirst
  ExitUnambiguous
  StampsOfStart
PROPERTIES
  Implements
