\* A silent client that is not in the first record is never closed.
SPECIFICATION FairSpec
CONSTANTS
  MAX_EVENTS = 2
  TIMEOUT = 1
  Backlog = 1
  Fds <- TwoFds
  Lfd = Lfd
  NoFd = NoFd
PROPERTY IdleClientClosed
