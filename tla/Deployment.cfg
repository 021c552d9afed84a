SPECIFICATION MCFairSpec
CONSTANTS
  r1 = r1  w1 = w1  w2 = w2  s1 = s1  s2 = s2  o1 = o1  o2 = o2
  Readers = {r1}
  Writers = {w1, w2}
  Servers = {s1, s2}
  Controller = Controller
  Keys <- MCKeys
  NoObject = NoObject
  numreads = 1
  numwrites = 1
  ToBeKilled = {s1}
  MAX_NUM_PENDING = 3
  MaxCommands = 2
  MaxBatch = 3
  MaxLimits = 2
CHECK_DEADLOCK FALSE
INVARIANTS RunningIsConfigured ControllerIsSetupLast ReadsAreOfWrittenObjects WriterSetupMeansAllWritten FewOperationsAreLate
PROPERTY WhatIsAskedEnds
