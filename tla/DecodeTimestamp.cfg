SPECIFICATION Spec
CONSTANTS
  Docs <- MCDocs
  Names <- MCParts
  Values <- MCValues
  Depth <- MCDepth
  MaxDepth = 2
  MaxInt = 3
  MaxInt64 = 1099999999
INVARIANTS
  TimestampsAreRead
