\* Two writers and a concurrent reader; three writes in all.
CONSTANTS
  w1 = w1
  w2 = w2
  r1 = r1
  NoOwner = NoOwner
  Writers = {w1, w2}
  Readers = {r1}
  RespSize <- MCRespSize
  InitSize = 4
  ReadCounts = {1, 3}
  MaxWrites = 3
SPECIFICATION Spec
INVARIANTS MutexInv ResponseOfLastWrite NoLeak
