\* Eight hanchan on three workers: a slow one holds back the results of others
\* until the pool runs against the reorder bound.
CONSTANTS
  TaskCount = 8
  Workers = 3
  MaxAhead = 4
SPECIFICATION FairSpec
INVARIANTS
  ResultIsWhole
  ReorderBounded
PROPERTIES
  KeepsContract
  EventEnds
CHECK_DEADLOCK FALSE
