CONSTANTS
  RequestIds = {1, 2, 3}
  Seats = {s0}
  NoRequest = NoRequest
  NoSeat = NoSeat
  MaxBufferedFrames = 2
  MaxPendingRequests = 2
  ServerFrames <- GameFrame
SPECIFICATION Spec
INVARIANTS
  LiveHasWork
  NoLostWakeup
  NothingSkipped
PROPERTIES
  AdapterInOrder
CHECK_DEADLOCK FALSE
