SPECIFICATION FairSpec
CONSTANTS
  e0 = e0
  e1 = e1
  e2 = e2
  e3 = e3
  Events = {e1, e2}
  Rows <- MCRowsOf
  Limit = 2
  Workers = {w1, w2}
  Bufs = {b1, b2, b3}
  NoBuf = NoBuf
  RetryEnable = TRUE
  FlushTimeout = TRUE
  WatcherFirst = TRUE
INVARIANTS
  CleanServeStoresAll
PROPERTIES
  ImplementsSink
  ErrorStopsFlushing
  ServeEnds
  BatchReturns
  AcceptedSettles
