CONSTANTS
  RequestIds = {1, 2}
  Seats = {s0}
  NoRequest = NoRequest
  NoSeat = NoSeat
  MaxBufferedFrames = 1
  MaxPendingRequests = 1
  ServerFrames <- LiveFrame
SPECIFICATION FairSpec
PROPERTIES
  CutoffFreesTheLoop
  StreamEndReturns
CHECK_DEADLOCK FALSE
