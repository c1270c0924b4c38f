\* One writer, no reader: a failed request after a successful one.
CONSTANTS
  w1 = w1
  w2 = w2
  r1 = r1
  NoOwner = NoOwner
  Writers = {w1}
  Readers = {}
  RespSize <- MCRespSize
  InitSize = 4
  ReadCounts = {1, 3}
  MaxWrites = 2
SPECIFICATION Spec
CHECK_DEADLOCK FALSE
INVARIANT LastSuccessKept
