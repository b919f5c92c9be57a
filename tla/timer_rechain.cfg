CONSTANTS
  Timers = {t1, t2}
  kWheelSlots = 2
  kTickMs = 2
  Delays = {1, 4}
  LastAdd = 2
  MaxTime = 10
  MaxStarts = 1
SPECIFICATION Spec
INVARIANTS OnlyMultiRoundStays
CHECK_DEADLOCK FALSE
