CONSTANTS
  RequestIds = {1, 2}
  Seats = {s0, s1}
  NoRequest = NoRequest
  NoSeat = NoSeat
  MaxBufferedFrames = 1
  MaxPendingRequests = 1
  ServerFrames <- HostileFrame
SPECIFICATION Spec
INVARIANTS
  TypeOK
  NoInternalError
  EveryRequestSettled
  LateAckEvidence
  FailsClosed
  WholeStreamUsed
  WorkerEnds
PROPERTIES
  ImplementsLifecycle
CHECK_DEADLOCK FALSE
