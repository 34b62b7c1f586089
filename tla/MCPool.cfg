\* A pool that is not stopped, and a normal, a final and a forced stop, see MCPool.
SPECIFICATION FairSpec
CONSTANTS
  t1 = t1
  t2 = t2
  t3 = t3
  w1 = w1
  w2 = w2
  Workers = {w1, w2}
  Tasks = {t1, t2, t3}
  Scenarios <- Pools
INVARIANTS Accounting KeptTasksRun
PROPERTIES PoolSettles
