SPECIFICATION Spec
CONSTANTS
  r1 = r1  w1 = w1  w2 = w2  o1 = o1
  Logs <- MCLogs
  Writers = {w1, w2}
  Objects = {o1}
  Times <- MCTimes
  LoggedTags <- MCTags
  numReads = 2
  numWrites = 1
  MaxLines = 4
INVARIANTS P1RaisesNoFalseAlarm P1FindsEveryInversion P2IsExact P3IsExact LivenessIsExact
