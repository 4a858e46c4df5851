SPECIFICATION Spec
CONSTANTS
  None = None
  Updates <- MCUpdates
  Requests <- MCRequests
  Neighbours <- MCNeighbours
  ipv4 <- MCIpv4
  bufsize = 110
  UNICAST_BUFSIZE = 60
  UpdateBufsize = 2
  Filtered = {}
  Diversity = TRUE
  IF_FARAWAY = FALSE
  IF_TIMESTAMPS = TRUE
  MaxMessages = 4
INVARIANTS
  
  Bounded
  FlushArmed

  
