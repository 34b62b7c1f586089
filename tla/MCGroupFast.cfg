SPECIFICATION FairSpec
CONSTANTS
  Groups = {1}
  Tasks = {1, 2, 3}
  Concurrency <- Sync
  TaskGroups <- AllFast
  Priority <- LastHigher
  RunInline = {2}
  Stoppable = {3}
INVARIANTS
  TypeOK
  TokenAccounting
PROPERTIES
  EverySubmissionEnds
