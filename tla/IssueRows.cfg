SPECIFICATION Spec
CONSTANTS
  Bodies = {a, b}
  FromEvent = FromEvent
  Empty = Empty
  IDs <- MCIDs
  MaxInt = 3
  MaxExceptions = 3
INVARIANTS
  OrderInsensitive
  ParentsResolve
  ParentAgrees
  RowsComplete
