SPECIFICATION Spec
CONSTANTS
  Tasks <- pairTasks
  depends <- pairDepends
  Setscene = {}
  sq_harddeps <- pairNoHard
  Targets = {3, 4}
  Noexec = {}
  Nostamp = {}
  Fakeroot = {}
  Recipe <- pairRecipe
  PN <- pairEach
  Stamp <- pairEach
  TaskName <- pairEach
  NumberThreads <- pairNone
  NumberTasks = 2
  Whitelisted = {}
  Hash = {"h1"}
  Unihash0 <- pairHash
  OldStamps = {{}}
  OldSqStamps = {{}}
  Requests = {{"setsceneonly"}}
INVARIANTS
  SaneQueues
