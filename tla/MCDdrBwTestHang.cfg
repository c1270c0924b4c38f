\* As MCDdrBwTest.cfg, with the timing main.c gives, against the liveness
\* the self-test needs: every thread leaves the block or the process exits.
CONSTANTS
  N = 3
  Meas = {0, 3}
  LateStart = TRUE
  FastMeasure = TRUE
SPECIFICATION Spec
CHECK_DEADLOCK FALSE
PROPERTY TestCompletes
