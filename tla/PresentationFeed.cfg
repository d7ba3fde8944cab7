CONSTANTS
  Capacity = 2
  MaxGames = 3
  MaxDecisions = 3
SPECIFICATION Spec
INVARIANTS
  OneTerminal
  DecisionsAccounted
PROPERTIES
  NoTerminalMissed
CHECK_DEADLOCK FALSE
