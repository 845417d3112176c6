CONSTANTS
  None = None
  Producers = {p1, p2}
  Consumers = {c1, c2}
  MaxItems = 3
  MaxBatch = 2
SPECIFICATION Spec
INVARIANT TypeOK
PROPERTY FifoRefinement
PROPERTY NoItemStrandedBesideSleeper
CHECK_DEADLOCK FALSE
