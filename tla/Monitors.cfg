SPECIFICATION MCFairSpec
CONSTANTS
  d1 = d1  d2 = d2  p1 = p1
  NULL = NULL
  NoProcess = NoProcess
  Platforms = {"Linux", "Linux24", "FreeBSD", "NetBSD", "OpenBSD", "Solaris", "HPUX"}
  Devices = {d1, d2, p1}
  Partial = {p1}
  Tables <- MCTables
  MAXVAL = 4
  Bursts = {1, 3}
  MaxChanges = 3
  MaxFailures = 1
  KB = 2
  MAXUINT64 = 64
  Delay = 2
  MaxKeys = 2
  MaxResizes = 1
  Rank <- MCRank
  Arguments <- MCArguments
  Systems = {"Linux", "FreeBSD", "NetBSD", "Solaris", "HPUX"}
  Processes = {1, 2, 3, 4}
  Self = 2
  State <- MCState
  Spare = 1
  Batch = 2
CHECK_DEADLOCK FALSE
INVARIANTS  NetworkDiffsAddUp  LoggedTrafficIsTraffic PrintedIsAsked ProcessesAreListedOnce ProcessesAreCounted
PROPERTIES UpdatesAreSpaced 
