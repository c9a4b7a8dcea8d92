\* Two records, three descriptors: connections beyond the table, descriptors used again.
SPECIFICATION FairSpec
CONSTANTS
  MAX_EVENTS = 2
  TIMEOUT = 1
  Backlog = 2
  Fds <- ThreeFds
  Lfd = Lfd
  NoFd = NoFd
INVARIANTS TypeOK RegistrationExact OpenAccounted NoStaleEvent
PROPERTIES ReadableIsServed EchoSpec
