SPECIFICATION Spec
CONSTANTS
  Tasks <- crossTasks
  depends <- crossDepends
  Setscene <- crossSetscene
  sq_harddeps <- crossHard
  Targets = {3, 4}
  Noexec = {}
  Nostamp = {}
  Fakeroot = {}
  Recipe <- crossRecipe
  PN <- crossPN
  Stamp <- crossEach
  TaskName <- crossEach
  NumberThreads <- crossNone
  NumberTasks = 2
  Whitelisted = {}
  Hash = {"h1"}
  Unihash0 <- crossHash
  OldStamps = {{}}
  OldSqStamps = {{}}
  Requests = {{}}
INVARIANTS
  OneBuilder
