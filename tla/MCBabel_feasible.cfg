SPECIFICATION Spec
CONSTANTS
  ro = ro
  ra = ra
  rb = rb
  eth = eth
  Paths = {ro, ra, rb}
  NoPath = NoPath
  Neighs = {ro, ra, rb}
  NeighOf <- Me
  Ifaces = {eth}
  IfOf <- OneIface
  SplitHorizon = {}
  Ids = {ro, ra, rb}
  NoSource = NoSource
  SeqMod = 8
  INFINITY = 4
  AddMetric <- NoFilter
  OutMetric <- NoOutFilter
  HoldTime = 0
  SOURCE_GC_TIME = 0
  RESEND_MAX = 1
  keep_unfeasible = FALSE
  allow_duplicates <- NoDuplicates
  kernel_metric = 0
  reflect_kernel_metric = FALSE
  IsDefault = FALSE
  UnreachPrio = 1
  Smoothing = FALSE
  Th <- Thresholds
  Origin = ro
  Links <- Chain
  Costs = {1, 4}
  FirstSeqno = 7
  MaxBumps = 1
  MaxNet = 2
INVARIANTS
  DistanceBoundsUpdates
  FeasibleLoopFree
