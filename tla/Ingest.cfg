SPECIFICATION Spec
CONSTANTS
  Keys = {"k1", "k2"}
  Names = {"f"}
  Nodes = {n1, n2, n3, n4, n5, n6}
  n1 = n1
  n2 = n2
  n3 = n3
  n4 = n4
  n5 = n5
  n6 = n6
  Kind <- MCKind
  Subs <- MCSubs
  Null = Null
  Absent = Absent
  MaxEntries = 2
  Words <- MCWords
  ParamNames <- MCParamNames
  Values <- MCValues
  MaxParams = 2
INVARIANTS
  LoadExact
  RoutedAsSent
  FilteredOrAborted
