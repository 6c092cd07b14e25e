SPECIFICATION Spec
CONSTANTS
  a = a
  b = b
  c = c
  e = e
  stemA = stemA
  stemE = stemE
  Files = {a, b, c, e}
  FileSize <- MCFileSize
  Stem <- MCStem
  Ids = {id1, id2}
  NoId = NoId
  Absent = Absent
  ChunkSize = 2
  MaxRetries = 2
  SizeMod = 64
  MaxCalls = 3
INVARIANT CheckpointFormat
