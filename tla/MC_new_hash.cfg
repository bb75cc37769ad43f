SPECIFICATION Spec
CONSTANTS
  Tasks <- newsTasks
  depends <- newsDepends
  Setscene <- newsSetscene
  sq_harddeps <- newsHard
  Targets = {2, 3}
  Noexec = {}
  Nostamp = {}
  Fakeroot = {}
  Recipe <- newsRecipe
  PN <- newsPN
  Stamp <- newsEach
  TaskName <- newsEach
  NumberThreads <- newsNone
  NumberTasks = 2
  Whitelisted = {}
  Hash = {"h1", "h2", "h3"}
  Unihash0 <- newsHash
  OldStamps = {{}}
  OldSqStamps = {{}}
  Requests = {{}}
INVARIANTS
  OneBuilder
