\* Two modules (cores 0-3 and core 4): master, three free-running cores and
\* a second module lead; either tuner (--alg 0 or 2); the timing the design
\* needs (Drift = 0: no core wakes for a tick before the last one is
\* collected), which main.c does not ensure (see MCControlLoopFree.cfg).
CONSTANTS
  v1 = v1
  v2 = v2
  MsrVals <- MCMsrVals
  InitVal = v1
  N = 5
  Drift = 0
  MaxTick = 3
SPECIFICATION Spec
\* The process really stops: SIGINT ends it with exit(1).  A hanging barrier
\* is caught by TickCompletes instead.
CHECK_DEADLOCK FALSE
INVARIANTS
  TypeOK
  
  
PROPERTIES
  
  TickCompletes
