CONSTANTS
  None = None
  Clients = {c1, c2}
  Home = c1
  RxThread = tr
  TxThread = tt
  Viewer = tv
  MAX_LOGS_HISTORY = 2
  MAX_SESSIONS_HISTORY = 2
  MaxLogs = 3
  MaxSessions = 4
  MaxViews = 1
  MaxTime = 1
  MaxTransacted = 1
SPECIFICATION Spec
 
INVARIANT HistoriesBounded
PROPERTY ConversionsRoundTrip
CHECK_DEADLOCK FALSE
