SPECIFICATION Spec
CONSTANTS
  Tasks <- quadTasks
  depends <- quadDepends
  Setscene <- quadSetscene
  sq_harddeps <- quadHard
  Targets = {1, 2, 3, 4}
  Noexec = {}
  Nostamp = {}
  Fakeroot = {}
  Recipe <- quadRecipe
  PN <- quadPN
  Stamp <- quadEach
  TaskName <- quadEach
  NumberThreads <- quadNone
  NumberTasks = 2
  Whitelisted = {}
  Hash = {"h1"}
  Unihash0 <- quadHash
  OldStamps = {{}}
  OldSqStamps = {{2}}
  Requests = {{}}
INVARIANTS
  OneBuilder
