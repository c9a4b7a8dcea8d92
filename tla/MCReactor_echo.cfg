\* What a client sends is not written back.
SPECIFICATION Spec
CONSTANTS
  MAX_EVENTS = 1
  TIMEOUT = 1
  Backlog = 1
  Fds <- TwoFds
  Lfd = Lfd
  NoFd = NoFd
PROPERTY EchoesData
