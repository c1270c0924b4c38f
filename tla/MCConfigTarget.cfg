\* As MCConfig.cfg: the DMI bandwidth may be unknown (-1).
CONSTANTS
  MaxThreads = 3
  MinPriority = 0
  MaxPriority = 99
  DefPriority = 50
  Bad = Bad
  NoDash = NoDash
  NoWeight = NoWeight
  CoreArgs <- MCCoreArgs
  WeightArgs <- MCWeightArgs
  SetArgs = {0, 20000}
  UtilArgs <- MCUtilArgs
  Garbage <- MCGarbage
  ECores <- MCECores
  DmiBw <- MCDmiBw
  MaxOpts = 2
SPECIFICATION Spec
INVARIANT TargetPositive
\* main ends: it returns, or it has created the threads.
CHECK_DEADLOCK FALSE
