SPECIFICATION Spec
CONSTANTS
  W = 3
  V4 = 1
  INFINITY = 9
  RTPROT_BABEL_LOCAL <- MCLocal
  RTPROT_BOOT = 3
  Clients = {c1, c2}
  NoClient = NoClient
  MAX_LOCAL_SOCKETS = 2
  LOCAL_BUFSIZE = 2
  Servers <- MCServers
  StartLines <- MCStartLines
  Lines <- MCLines
  Arguments <- MCArguments
  Routes <- MCRoutes
  MaxLines = 3
  MaxServed = 1
  MaxSends = 3
  MaxStalls = 1
INVARIANTS
  AsWritten
  ConfAlive
  MonitorsAgree
  NoneStranded
SYMMETRY ClientSymmetry
CHECK_DEADLOCK FALSE
