SPECIFICATION Spec
CONSTANTS
  Workers = {w1, w2}
  Limit = 3
  MaxRows = 2
  MaxIdle = 1
  MaxDeserted = 6
  BatchTimeout = 2
  FlushTimeout = 5
  InitialInterval = 2
  Multiplier = 150
  MaxInterval = 3
  RandomizationFactor = 50
INVARIANTS
  OldestRowWaits
  HandoffBounded
  DeadlineKept
  RetriesSpaced
