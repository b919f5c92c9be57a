CONSTANTS
  MaxPieces = 2
  ClientRequests <- Plain
SPECIFICATION FairSpec
PROPERTIES IdleConnectionCloses
