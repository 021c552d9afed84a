SPECIFICATION Spec
CONSTANTS
  r1 = r1  r2 = r2  w1 = w1  w2 = w2  s1 = s1  s2 = s2  s3 = s3
  Readers = {r1}
  Writers = {w1}
  Servers = {s1, s2, s3}
  FirstServer = s1
  NameTag <- Ranks
  K = 2
  Prewritten = FALSE
  MaxOpnum <- ReadTwice
  MaxIncarnation = 1
  MaxDrops = 0
  MaxKilledServers = 1
SYMMETRY ServerSymmetry
INVARIANTS ReaderGetsRequestedTag ReadsAreUnregistered
CHECK_DEADLOCK FALSE
