\* A request to retire that outlives its round takes the wakeup of a task.
SPECIFICATION Spec
CONSTANTS
  min_thread_num = 1
  max_thread_num = 2
  queue_max_size = 2
  DEFAULT_THREAD_ADD_SIZE = 1
  Tids <- ThreeTids
  Tasks <- ThreeTasks
  Clients <- OneClient
  ConcurrentDestroy = FALSE
  NoTid = NoTid
  NoTask = NoTask
  t1 = t1
  t2 = t2
  t3 = t3
  k1 = k1
  k2 = k2
  k3 = k3
  k4 = k4
  c1 = c1
  c2 = c2
SYMMETRY Symmetry
INVARIANT NoAbandonedTask
\* The pool stops when all workers wait, or when it is freed.
CHECK_DEADLOCK FALSE
