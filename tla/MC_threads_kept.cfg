SPECIFICATION Spec
CONSTANTS
  Tasks <- pairTasks
  depends <- pairDepends
  Setscene <- pairSetscene
  sq_harddeps <- pairHard
  Targets = {3, 4}
  Noexec = {}
  Nostamp = {}
  Fakeroot = {}
  Recipe <- pairRecipe
  PN <- pairEach
  Stamp <- pairEach
  TaskName <- pairName
  NumberThreads <- pairOne
  NumberTasks = 2
  Whitelisted = {}
  Hash = {"h1"}
  Unihash0 <- pairHash
  OldStamps = {{}}
  OldSqStamps = {{}}
  Requests = {{"continue"}}
INVARIANTS
  KeepGoing
