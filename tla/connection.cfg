CONSTANTS
  MaxPieces = 4
  ClientRequests <- Typical
SPECIFICATION FairSpec
INVARIANTS
  TypeOK
  CancelNamesLiveAwaiter
  NothingAfterClose
  StopReachesPending
  EachRequestAnsweredOnce
PROPERTIES
  ServedConnectionCloses
  RequestAnswered
