CONSTANTS
  None = None
  Sessions = {s1, s2}
  Fds = {f1, f2}
  FdReuse = FALSE
  MaxUpdates = 2
  MaxSends = 1
SPECIFICATION Spec
INVARIANT TypeOK
INVARIANT ClosedAtMostOnce
INVARIANT RearmGuard
PROPERTY CloseEventuallyReported
CHECK_DEADLOCK FALSE
