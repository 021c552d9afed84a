SPECIFICATION FairSpec
CONSTANTS
  r1 = r1  r2 = r2  w1 = w1  w2 = w2  s1 = s1  s2 = s2  s3 = s3
  Readers = {r1}
  Writers = {w1, w2}
  Servers = {s1, s2, s3}
  FirstServer = s1
  NameTag <- Ranks
  K = 3
  Prewritten = TRUE
  MaxOpnum <- Once
  MaxIncarnation = 0
  MaxDrops = 0
  MaxKilledServers = 0
INVARIANTS CompletedIsStored ServersHoldTheirElements
PROPERTIES OperationsEnd ImplementsRegister
