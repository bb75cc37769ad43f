SPECIFICATION Spec
CONSTANTS
  Builders = {b1, b2}
  Askers = {b1, b2}
  Earlier <- OneValue
  Hashes = {t1, t2}
  Checksums = {t1, t2}
  Outhashes = {o1, o2}
  NoOuthash = NoOuthash
  None = None
  Packages = {p}
  Package = p
  Retries = 1
  MaxBuilds = 2
  MaxFaults = 2
INVARIANTS
  OuthashShared
  AgreeOnOutput
  OneChecksum
PROPERTIES
  GetSteady
  NeverLower
SYMMETRY Symmetry
CHECK_DEADLOCK FALSE
