CONSTANTS
  MaxPieces = 2
  ClientRequests <- Ending
SPECIFICATION Spec
INVARIANTS KeepAliveAsAsked
