CONSTANTS
  None = None
  Handlers = {h1, h2}
  Raisers = {t1, t2}
SPECIFICATION Spec
INVARIANT TypeOK
PROPERTY FanOutCompletes
CHECK_DEADLOCK FALSE
