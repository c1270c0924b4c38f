\* Every core enabled, FIRST_CORE = 0, no pmu_read requests: the tuner runs
\* at core 0 before cores 1-4 have been sampled in the same callback.
CONSTANTS
  NCpu = 5
  FirstCore = 0
  MsrVals = {v1, v2}
  Unloaded = Unloaded
  Ranges <- MCRanges
  PmuReads = FALSE
  MaxTicks = 2
SPECIFICATION Spec
PROPERTY DecisionSeesTickSamples
CHECK_DEADLOCK FALSE
