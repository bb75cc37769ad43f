SPECIFICATION Spec
CONSTANTS
  Tasks <- nativeTasks
  depends <- nativeDepends
  Setscene <- nativeSetscene
  sq_harddeps <- nativeHard
  Targets = {3, 6}
  Noexec = {}
  Nostamp = {}
  Fakeroot = {}
  Recipe <- nativeRecipe
  PN <- nativePN
  Stamp <- nativeShared
  TaskName <- nativeEach
  NumberThreads <- nativeNone
  NumberTasks = 2
  Whitelisted = {}
  Hash = {"h1", "h2", "h3"}
  Unihash0 <- nativeHash
  OldStamps = {{}}
  OldSqStamps = {{}}
  Requests = {{}}
INVARIANTS
  NotBoth
