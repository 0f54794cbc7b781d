SPECIFICATION FairSpec
CONSTANTS
  Requests = {r1, r2}
INVARIANTS
  CleanExitKeepsAll
  NormalAckIsKept
PROPERTIES
  StopsInTheEnd
  RequestsEnd
