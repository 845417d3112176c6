CONSTANTS
  Sessions = {s1, s2}
  MaxThreadObjs = 3
  MinThreads = 1
  MaxEvents = 1
  MaxUpdates = 2
  MaxSends = 1
  JoinWaitTimesOut = TRUE
SPECIFICATION Spec
CHECK_DEADLOCK FALSE
INVARIANT TypeOK
INVARIANT PartitionSound
