CONSTANTS
  Owner = owner
  Thieves = {s1, s2}
  kMaxSize = 4
  MaxTasks = 5
  ThiefTakesHalf = TRUE
  StoreDelay = FALSE
SPECIFICATION Spec
SYMMETRY Symmetry
INVARIANTS NoTaskTwice
