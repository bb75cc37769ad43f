SPECIFICATION Spec
CONSTANTS
  Tasks <- duoTasks
  depends <- duoDepends
  Setscene <- duoSetscene
  sq_harddeps <- duoHard
  Targets = {1, 2}
  Noexec = {}
  Nostamp = {}
  Fakeroot = {}
  Recipe <- duoRecipe
  PN <- duoPN
  Stamp <- duoEach
  TaskName <- duoEach
  NumberThreads <- duoNone
  NumberTasks = 2
  Whitelisted = {}
  Hash = {"h1"}
  Unihash0 <- duoHash
  OldStamps = {{}}
  OldSqStamps = {{}}
  Requests = {{"skipsetscene"}}
INVARIANTS
  OneBuilder
