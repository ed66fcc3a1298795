SPECIFICATION FairSpec
CONSTANTS
  Operations <- Asked
  MaxItems = 2
  MaxErrors = 2
INVARIANTS
  TypeOK
  NullReachesParents
  ErrorsExplainNulls
  CodeOfItsKind
PROPERTIES
  MutationsInOrder
  EveryRequestResponds
CHECK_DEADLOCK FALSE
