CONSTANTS
  Owner = owner
  Thieves = {s1, s2}
  kMaxSize = 4
  MaxTasks = 4
  ThiefTakesHalf = FALSE
  StoreDelay = TRUE
SPECIFICATION Spec
SYMMETRY Symmetry
INVARIANTS NoTaskTwice
