SPECIFICATION FairSpec
CONSTANTS
  p1 = p1
  p2 = p2
  n1 = n1
  n2 = n2
  i1 = i1
  i2 = i2
  me = me
  ida = ida
  Paths = {p1, p2}
  NoPath = NoPath
  Neighs = {n1}
  NeighOf <- TwoHops
  Ifaces = {i1}
  IfOf <- OneNeigh
  SplitHorizon = {}
  Ids = {me, ida}
  NoSource = NoSource
  SeqMod = 4
  INFINITY = 3
  AddMetric <- NoFilter
  OutMetric <- NoOutFilter
  HoldTime = 0
  SOURCE_GC_TIME = 0
  RESEND_MAX = 1
  keep_unfeasible = FALSE
  allow_duplicates <- NoDuplicates
  kernel_metric = 0
  reflect_kernel_metric = FALSE
  IsDefault = FALSE
  UnreachPrio = 1
  Smoothing = FALSE
  Th <- Thresholds
  Self = me
  Announced <- OneUpdate
  Costs = {1, 3}
  Exported = {1}
  ExportedPrio = 0
  KernelMayRefuse = FALSE
  BuffersMayFill = TRUE
INVARIANTS
  XrouteWins
  KernelMatches
PROPERTIES
  UnrefreshedIsFlushed
  LossIsHeard
