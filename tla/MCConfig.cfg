\* Command lines of up to two options over --core 0 / 0-2, five --weight
\* lists, --ddrbw-set 0 / 20000, --ddrbw-test, --ddrbw-auto 1.3 / 0;
\* DMI bandwidth 10000 or unknown (-1).
CONSTANTS
  MaxThreads = 3
  MinPriority = 0
  MaxPriority = 99
  DefPriority = 50
  Bad = Bad
  NoDash = NoDash
  NoWeight = NoWeight
  CoreArgs <- MCCoreArgs
  WeightArgs <- MCWeightArgs
  SetArgs = {0, 20000}
  UtilArgs <- MCUtilArgs
  Garbage <- MCGarbage
  ECores <- MCECores
  DmiBw <- MCDmiBw
  MaxOpts = 2
SPECIFICATION Spec
INVARIANTS TypeOK WeightsAsSpecified
\* main ends: it returns, or it has created the threads.
CHECK_DEADLOCK FALSE
