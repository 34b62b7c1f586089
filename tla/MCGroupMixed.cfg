SPECIFICATION Spec
CONSTANTS
  Groups = {1, 2}
  Tasks = {1, 2, 3}
  Concurrency <- Sync
  TaskGroups <- Pair
  Priority <- LastHigher
  RunInline = {}
  Stoppable = {1}
CHECK_DEADLOCK FALSE
INVARIANTS TokenAccounting MultiGroupBound SlowPathTidy
