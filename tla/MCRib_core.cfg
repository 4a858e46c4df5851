SPECIFICATION Spec
CONSTANTS
  p1 = p1
  p2 = p2
  n1 = n1
  n2 = n2
  i1 = i1
  i2 = i2
  me = me
  ida = ida
  Paths = {p1, p2}
  NoPath = NoPath
  Neighs = {n1, n2}
  NeighOf <- OneEach
  Ifaces = {i1, i2}
  IfOf <- TwoIfaces
  SplitHorizon = {i2}
  Ids = {me, ida}
  NoSource = NoSource
  SeqMod = 4
  INFINITY = 3
  AddMetric <- NoFilter
  OutMetric <- NoOutFilter
  HoldTime = 0
  SOURCE_GC_TIME = 0
  RESEND_MAX = 1
  keep_unfeasible = TRUE
  allow_duplicates <- NoDuplicates
  kernel_metric = 0
  reflect_kernel_metric = FALSE
  IsDefault = FALSE
  UnreachPrio = 1
  Smoothing = FALSE
  Th <- Thresholds
  Self = me
  Announced <- TwoUpdates
  Costs = {1, 3}
  Exported = {}
  ExportedPrio = 0
  KernelMayRefuse = FALSE
  BuffersMayFill = FALSE
INVARIANTS
  InstalledAtHead
  RefCounts
  NoBlackhole
  AsAnnounced
  
  LossIsAnnounced
PROPERTIES
  OnlyFeasibleInstalled
  DistanceOnlyImproves
