CONSTANTS
  MaxPieces = 2
  ClientRequests <- Plain
SPECIFICATION Spec
INVARIANTS RingDrivenByIoThread
