\* Two watchdogs of the same stage, one after the other or at the same time.
CONSTANT
  Invocations = {w1, w2}
SPECIFICATION StageSpec
INVARIANTS
  ZeroIsVerified
PROPERTIES
  StageEnds
CHECK_DEADLOCK FALSE
