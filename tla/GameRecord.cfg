CONSTANTS
  RequestIds = {1, 2}
  Seats = {s0}
  NoRequest = NoRequest
  NoSeat = NoSeat
  MaxBufferedFrames = 1
  MaxPendingRequests = 1
  ServerFrames <- RecordFrame
SPECIFICATION RecordSpec
INVARIANTS
  TraceTellsTheGame
  RefusedForCause
  LoadableIsConfirmed
CHECK_DEADLOCK FALSE
