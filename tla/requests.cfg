CONSTANTS
  Coroutines = {k1, k2}
  Workers = {w1, w2}
  Loops = {l1}
  NoTask = NoTask
  MaxCalls = 3
  Hosts = {telegram}
  PoolSize = 2
  CounterSize = 2
  GivenUp = GivenUp
SPECIFICATION FairRequestsSpec
INVARIANT PoolTypeOK
INVARIANT OneThreadPerCoroutine
INVARIANT WakeupForEachRequest
INVARIANT ClientTypeOK
INVARIANT LeasesAreBalanced
PROPERTY PoolServesCalls
PROPERTY EveryCallReturns
PROPERTY DestructorReturns
PROPERTY QueueIsDrained
CHECK_DEADLOCK FALSE
