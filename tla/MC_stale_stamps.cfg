SPECIFICATION Spec
CONSTANTS
  Tasks <- pairTasks
  depends <- pairDepends
  Setscene <- pairSetscene
  sq_harddeps <- pairHard
  Targets = {3, 4}
  Noexec = {}
  Nostamp = {}
  Fakeroot = {}
  Recipe <- pairRecipe
  PN <- pairPN
  Stamp <- pairShared
  TaskName <- pairEach
  NumberThreads <- pairNone
  NumberTasks = 2
  Whitelisted = {}
  Hash = {"h1", "h2"}
  Unihash0 <- pairHash
  OldStamps = {{}}
  OldSqStamps = {{}}
  Requests = {{}}
INVARIANTS
  StampExclusive
