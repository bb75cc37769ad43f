SPECIFICATION Spec
CONSTANTS
  local = local
  before = before
  upstream = upstream
  after = after
  Builds = {b1, b2}
  Dirs = {d1, d2}
  Locals = {local}
  Servers = {before, upstream, after}
  Upstream = upstream
  Premirrors <- DiskAndServer
  Mirrors <- OneServer
  Contents = {x, y}
  None = None
  MaxCalls = 2
  MaxFaults = 1
INVARIANTS
  FetchedRight
  Resilient
SYMMETRY Symmetry
CHECK_DEADLOCK FALSE
