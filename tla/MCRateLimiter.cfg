SPECIFICATION FairSpec
CONSTANTS
  Evictable = {ip1}
  Clients = {web}
  Keys <- MCKeys
  IPLimit = 2
  IPWindow = 2
  ClientLimit = 1
  ClientWindow = 2
  Limit <- MCLimit
  Window <- MCWindow
  MaxArrival = 4
  MaxNow = 6
  MaxRequests = 4
INVARIANTS
    SlidingWindow
    RefusedOnlyWhenFull
PROPERTIES
    IdleEvicted
CHECK_DEADLOCK FALSE
