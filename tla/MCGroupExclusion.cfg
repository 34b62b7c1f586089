SPECIFICATION Spec
CONSTANTS
  Groups = {1}
  Tasks = {1, 2, 3}
  Concurrency <- Sync
  TaskGroups <- AllFast
  Priority <- NormalPriority
  RunInline = {}
  Stoppable = {}
INVARIANTS
  ConcurrencyBound
