SPECIFICATION Spec
CONSTANTS
  e0 = e0
  e1 = e1
  e2 = e2
  e3 = e3
  Events = {e0, e1, e2, e3}
  Rows <- MCRowsOf
  Limit = 2
  Workers = {w1, w2}
  Bufs = {b1, b2, b3}
  NoBuf = NoBuf
  RetryEnable = TRUE
  FlushTimeout = TRUE
  WatcherFirst = FALSE
SYMMETRY MCSymmetry
INVARIANTS
  TypeOK
  BufferOwnership
  PooledBuffersEmpty
  BatchSize
  NothingLostBeforeFailure
  OnlyRetriesDuplicate
PROPERTIES
  RetrySendsSameBatch
CHECK_DEADLOCK FALSE
