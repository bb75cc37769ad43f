SPECIFICATION Spec
CONSTANTS
  Tasks <- trioTasks
  depends <- trioDepends
  Setscene <- trioSetscene
  sq_harddeps <- trioHard
  Targets = {1, 2, 3}
  Noexec = {}
  Nostamp = {}
  Fakeroot = {}
  Recipe <- trioRecipe
  PN <- trioPN
  Stamp <- trioEach
  TaskName <- trioEach
  NumberThreads <- trioNone
  NumberTasks = 3
  Whitelisted = {}
  Hash = {"h1", "h2"}
  Unihash0 <- trioHash
  OldStamps = {{}}
  OldSqStamps = {{}}
  Requests = {{"skipsetscene"}}
INVARIANTS
  HashSteady
