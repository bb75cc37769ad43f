SPECIFICATION FairSpec
CONSTANTS
  Tasks <- imageTasks
  depends <- imageDepends
  Setscene <- imageSetscene
  sq_harddeps <- imageHard
  Targets = {7, 8}
  Noexec = {7}
  Nostamp = {}
  Fakeroot = {3, 6}
  Recipe <- imageRecipe
  PN <- imageShared
  Stamp <- imageShared
  TaskName <- imageEach
  NumberThreads <- imageNone
  NumberTasks = 2
  Whitelisted = {6}
  Hash = {"h1"}
  Unihash0 <- imageHash
  OldStamps = {{}, {1, 2}}
  OldSqStamps = {{}, {2}, {3}}
  Requests = {{}, {"shutdown"}, {"skipsetscene", "force"}, {"continue"}, {"forceshutdown"}, {"enforce"}, {"setsceneonly"}, {"nofakeworker"}}
INVARIANTS
  ActiveIsLive
  InputsAvailable
  SaneQueues
  CompleteIsBuilt
  NothingKilled
  KeepGoing
  OutcomeKnown
PROPERTIES
  Ends
