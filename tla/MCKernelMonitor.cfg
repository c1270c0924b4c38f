\* Five CPUs, two MSR images, two callbacks; core_range either enables
\* every core or only the first module, so lead 4 goes off and on again.
CONSTANTS
  NCpu = 5
  FirstCore = 0
  MsrVals = {v1, v2}
  Unloaded = Unloaded
  Ranges <- MCRanges
  PmuReads = TRUE
  MaxTicks = 2
SPECIFICATION Spec
INVARIANTS TypeOK StopIsFinal ModulesProgrammed MonitorInv VisitInv
\* After module exit the handler process is gone and the timer is off:
\* nothing runs any more.
CHECK_DEADLOCK FALSE
