CONSTANTS
  Platforms = {"unix", "bsd", "win"}
  ReadSize = 2
  WriteSize = 2
  MaxBytes = 3
  MaxReads = 2
  MaxWrites = 1
  MaxSignals = 1
  MAX_RETRY_ATTEMPTS_FOR_WSAWOULDBLOCK_ERROR = 3
  RequireReadAll = TRUE
  ReadTimeOutActive = TRUE
  WriteTimeOutActive = TRUE
  Capturing = TRUE
  MaxAvailable = 1
SPECIFICATION Spec
INVARIANT TypeOK
INVARIANT StreamAccounted
PROPERTY SelectReadTerminates
CHECK_DEADLOCK FALSE
