\* Two places, descriptors used again; poll may fail, and then the server stops.
CHECK_DEADLOCK FALSE
SPECIFICATION FairSpec
CONSTANTS
  USER_LIMIT = 2
  Fds <- ThreeFds
  MaxMessages = 2
INVARIANTS TypeOK RoomIsOpen ScanExact RecvFindsData PendingIsDue
PROPERTIES LeaversAreRemoved PendingIsSent ChatSpec
