SPECIFICATION FairSpec
CONSTANTS
  Migrators = {m1, m2}
  Files <- MCFiles
  Content <- MCContent
  Alphabet <- MCAlphabet
  MaxLength = 5
INVARIANTS
  QueriesAreStatements
  RecordedMeansApplied
  InOrder
  SuccessMeansMigrated
  RecordedOnceAlone
PROPERTIES
  EventuallyMigrated
