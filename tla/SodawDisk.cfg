SPECIFICATION FairSpec
CONSTANTS
  r1 = r1  w1 = w1  w2 = w2  s1 = s1  s2 = s2  s3 = s3
  Readers = {r1}
  Writers = {w1}
  Servers = {s1, s2, s3}
  FirstServer = s1
  NameTag <- Ranks
  K = 2
  Fast = FALSE
  UseDisk = TRUE
  Prewritten = TRUE
  MaxOpnum <- WriteTwice
  MaxIncarnation = 0
  MaxDrops = 0
  MaxKilledServers = 1
  MaxKilledClients = 0
  MaxDiskErrors = 0
INVARIANTS FilesExistWhenRead ReaderGetsRequestedTag
PROPERTY OperationsEnd
