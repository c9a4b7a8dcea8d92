\* A pool of fixed size, destroyed at any time, under fairness.
SPECIFICATION FairSpec
CONSTANTS
  min_thread_num = 2
  max_thread_num = 2
  queue_max_size = 1
  DEFAULT_THREAD_ADD_SIZE = 1
  Tids <- TwoTids
  Tasks <- TwoTasks
  Clients <- OneClient
  ConcurrentDestroy = TRUE
  NoTid = NoTid
  NoTask = NoTask
  t1 = t1
  t2 = t2
  t3 = t3
  k1 = k1
  k2 = k2
  k3 = k3
  k4 = k4
  c1 = c1
  c2 = c2
INVARIANTS NoStrandedTask FreeIsQuiescent JoinsWorkersOnly
PROPERTY EveryTaskRuns
\* The pool stops when all workers wait, or when it is freed.
CHECK_DEADLOCK FALSE
