\* Two bots, so that one exits while the other is in a game.
CONSTANT
  Bots = {b1, b2}
SPECIFICATION FairSpec
INVARIANTS
  PassIsAttributed
  GamesAreSpared
PROPERTIES
  StopSpreads
CHECK_DEADLOCK FALSE
