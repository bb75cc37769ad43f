SPECIFICATION FairSpec
CONSTANTS
  Tasks <- mergeTasks
  depends <- mergeDepends
  Setscene <- mergeSetscene
  sq_harddeps <- mergeHard
  Targets = {2, 3}
  Noexec = {}
  Nostamp = {}
  Fakeroot = {}
  Recipe <- mergeRecipe
  PN <- mergePN
  Stamp <- mergeEach
  TaskName <- mergeEach
  NumberThreads <- mergeNone
  NumberTasks = 2
  Whitelisted = {}
  Hash = {"h1", "h2"}
  Unihash0 <- mergeHash
  OldStamps = {{}}
  OldSqStamps = {{}}
  Requests = {{}}
INVARIANTS
  HashSteady
  OneBuilder
PROPERTIES
  Ends
