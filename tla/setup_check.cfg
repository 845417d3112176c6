CONSTANTS
  Platforms = {"unix", "win", "bsd", "bsdEnhanced"}
  NFds = 3
  MaxAddrs = 2
  MaxOps = 2
  MaxOther = 1
  Ids = {6680, 65535}
  MAX_RETRY_COUNT = 3
SPECIFICATION Spec
INVARIANT TypeOK
INVARIANT ChecksumVerifies
INVARIANT EnhancedConnectSucceedsIfAnyAccepts
INVARIANT EnhancedConnectReturnsConnected
INVARIANT EnhancedListenReturnsListening
PROPERTY EnhancedNoForeignFdTouched
CHECK_DEADLOCK FALSE
