CONSTANTS
  Timers = {t1, t2}
  kWheelSlots = 2
  kTickMs = 2
  Delays = {1, 4}
  LastAdd = 1
  MaxTime = 8
  MaxStarts = 2
SPECIFICATION FairSpec
INVARIANTS
  TypeOK
  NoDanglingEntry
  CanceledNeverDispatched
  
  AtMostOneTurnLate
PROPERTIES
  EventuallyDispatched
  CollectedIsDispatched
CHECK_DEADLOCK FALSE
