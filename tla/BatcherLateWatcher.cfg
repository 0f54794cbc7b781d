SPECIFICATION FairSpec
CONSTANTS
  e0 = e0
  e1 = e1
  e2 = e2
  e3 = e3
  Events = {e1, e2}
  Rows <- MCRowsOf
  Limit = 2
  Workers = {w1}
  Bufs = {b1, b2}
  NoBuf = NoBuf
  RetryEnable = TRUE
  FlushTimeout = TRUE
  WatcherFirst = FALSE
PROPERTIES
  ErrorStopsFlushing
CHECK_DEADLOCK FALSE
