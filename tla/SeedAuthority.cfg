CONSTANTS
  halfHanchan = halfHanchan
  Legacy = legacy
  p = p
  q = q
  history = history
  Allocation = {p, q, history}
  DomainOf <- MCDomainOf
  SeedsOf <- MCSeedsOf
  Run = {r1, r2}
  Job = {j1}
SYMMETRY Symmetry
SPECIFICATION Spec
INVARIANTS
  SeedsPlayedOnce
  QuarantineHolds
CHECK_DEADLOCK FALSE
