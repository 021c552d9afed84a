SPECIFICATION MCSpec
CONSTANTS
  r1 = r1  w1 = w1  w2 = w2  s1 = s1  s2 = s2  s3 = s3  o1 = o1
  Readers = {r1}
  Writers = {w1, w2}
  Servers = {s1, s2, s3}
  Objects = {o1}
  NoObject = NoObject
  Servers_names <- AllServers
  NameTag <- Ranks
  Fast = TRUE
  MaxOpnum <- Twice
  MaxIncarnation = 1
  MaxDrops = 1
  MaxKilled = 0
SYMMETRY ServerSymmetry
INVARIANTS CompletedIsStored P1 P2 P3 OneReplyPerServer
PROPERTY ImplementsRegister
