SPECIFICATION FairSpec
CONSTANTS
  r1 = r1  w1 = w1  w2 = w2  s1 = s1  s2 = s2  s3 = s3  o1 = o1
  Readers = {r1}
  Writers = {w1}
  Servers = {s1, s2, s3}
  Objects = {o1}
  NoObject = NoObject
  Servers_names <- AllServers
  NameTag <- Ranks
  Fast = TRUE
  MaxOpnum <- Once
  MaxIncarnation = 1
  MaxDrops = 0
  MaxKilled = 1
CONSTRAINT ReadersStay
PROPERTY OperationsEnd
