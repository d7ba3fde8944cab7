CONSTANTS
  Seeds = {s1, s2}
  Calls = {c1, c2, c3}
  NoFile = NoFile
SPECIFICATION Spec
INVARIANTS
  ReceiptsAreReadable
  CheckpointSurvives
PROPERTIES
  ImplementsLedger
CHECK_DEADLOCK FALSE
