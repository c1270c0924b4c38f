\* --core 0-3 and --core 2-1; otherwise as MCConfig.cfg.
CONSTANTS
  MaxThreads = 3
  MinPriority = 0
  MaxPriority = 99
  DefPriority = 50
  Bad = Bad
  NoDash = NoDash
  NoWeight = NoWeight
  CoreArgs <- MCCoreArgsEdge
  WeightArgs <- MCWeightArgs
  SetArgs = {0, 20000}
  UtilArgs <- MCUtilArgs
  Garbage <- MCGarbage
  ECores <- MCECores
  DmiBw <- MCDmiBw
  MaxOpts = 2
SPECIFICATION Spec
INVARIANT ThreadsInBounds
\* main ends: it returns, or it has created the threads.
CHECK_DEADLOCK FALSE
