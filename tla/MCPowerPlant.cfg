\* Starting, idling and stopping, with three pools.
CONSTANTS
  Pools = {"main", "d", "a"}
  Threads = {"main", "d1", "d2", "a1", "o"}
  Tasks = {"t", "u", "v", "i", "s"}
  Scenarios <- MCScenarios
SPECIFICATION Spec
INVARIANTS IdleCounts StopReachesAll
PROPERTIES PlantSettles
