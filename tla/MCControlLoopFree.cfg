\* As MCControlLoop.cfg with the timing main.c has: Drift = MaxTick bounds
\* nothing, so a core that does not wait at the barrier (CORE_IN_MODULE # 0)
\* may run any number of ticks ahead.  Checked against spec invariant 2.
CONSTANTS
  v1 = v1
  v2 = v2
  MsrVals <- MCMsrVals
  InitVal = v1
  N = 5
  Drift = 3
  MaxTick = 3
SPECIFICATION Spec
CHECK_DEADLOCK FALSE
PROPERTY DecisionSeesAllSamples
