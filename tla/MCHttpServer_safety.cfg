\* Two workers, three descriptors of which clients use four in all.
\* The server may stop: the clients are done, or connections whose arrival was not
\* reported stay in the backlog.
CHECK_DEADLOCK FALSE
SPECIFICATION Spec
CONSTANTS
  Workers <- TwoWorkers
  Fds <- ThreeFds
  NoFd = NoFd
  MAX_FD = 3
  m_max_requests = 1
  Backlog = 2
  MaxClients = 4
  w1 = w1
  w2 = w2
  f1 = f1
  f2 = f2
  f3 = f3
SYMMETRY Symmetry
INVARIANTS TypeOK OneHolder UserCountExact SemaphoreMatchesQueue
PROPERTY ProtocolSpec
