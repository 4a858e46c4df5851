SPECIFICATION Spec
CONSTANTS
  Procs = {p, q}
  None = None
  SeqMod = 12
  NumSysctls = 2
  Already = {2}
  MaxStarts = 4
  MaxSteps = 1
  MaxFaults = 2
CHECK_DEADLOCK FALSE
INVARIANTS
  OneDaemon
  SeqnoIsNewer
  Restored
