CONSTANTS
  Queues = {q1}
  Names = {n1, n2, n3}
  DiagnosticsEnabled = TRUE
  FreezeMonitoring = TRUE
  LogFrequency = 1
  Tolerance = 1
  MaxTime = 4
  MaxItems = 1
  MaxRenames = 2
SPECIFICATION Spec
INVARIANT DumpMeansFrozen
CHECK_DEADLOCK FALSE
