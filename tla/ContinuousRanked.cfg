\* Each bound of the run differs from the others, and a wait outlasts a backoff.
CONSTANTS
  MaxCompletedGames = 2
  MaxDuration = 9
  FailureBudget = 3
  OriginalGameWait = 7
  InitialBackoff = 2
  MaxBackoff = 5
SPECIFICATION FairSpec
INVARIANTS
  OrphanIsAwaited
  StartedGamePlaysOn
PROPERTIES
  KeepsContract
  OrphanSparesBudget
  WaitEnds
  StopEnds
CHECK_DEADLOCK FALSE
