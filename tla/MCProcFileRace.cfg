\* One writer and one reader racing on proc_buffer.
CONSTANTS
  w1 = w1
  w2 = w2
  r1 = r1
  NoOwner = NoOwner
  Writers = {w1}
  Readers = {r1}
  RespSize <- MCRespSize
  InitSize = 4
  ReadCounts = {1, 3}
  MaxWrites = 2
SPECIFICATION Spec
INVARIANT ReaderSafe
