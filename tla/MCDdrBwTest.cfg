\* Three threads; measurements of 0 or 3 MB/s so that a zero total happens.
\* The timing main.c gives: a thread may be created after core_first's
\* reset, and a measurement may end while others still spin at line 128.
CONSTANTS
  N = 3
  Meas = {0, 3}
  LateStart = TRUE
  FastMeasure = TRUE
SPECIFICATION Spec
\* The block ends in the control loop or in exit(-1), or it hangs in a spin
\* (run ddrbw_hang); none of these is an error of this run.
CHECK_DEADLOCK FALSE
INVARIANTS TypeOK FlagCounts TargetIsSum
