CONSTANTS
  Owner = owner
  Thieves = {s1, s2}
  kMaxSize = 4
  MaxTasks = 5
  ThiefTakesHalf = FALSE
  StoreDelay = FALSE
SPECIFICATION Spec

INVARIANTS TypeOK NoTaskTwice NoTaskLost
PROPERTIES ImplementsWorkDeque
