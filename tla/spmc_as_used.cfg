CONSTANTS
  Owner = owner
  Thieves = {s1, s2}
  kMaxSize = 2
  MaxTasks = 4
  ThiefTakesHalf = TRUE
  StoreDelay = TRUE
SPECIFICATION Spec
SYMMETRY Symmetry
INVARIANTS NoEmptySlotHandedOut OccupancyBounded
