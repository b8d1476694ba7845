CONSTANTS
  Coroutines = {k1, k2, k3}
  Workers = {w1, w2}
  Loops = {l1}
  NoTask = NoTask
  MaxCalls = 4
  Hosts = {telegram}
  PoolSize = 1
  CounterSize = 1
  GivenUp = GivenUp
SPECIFICATION FairRequestsSpec
 
PROPERTY EveryCallReturns
CHECK_DEADLOCK FALSE
