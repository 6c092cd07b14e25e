SPECIFICATION Spec
CONSTANTS
  a = a
  b = b
  e = e
  c = c
  stemA = stemA
  stemE = stemE
  stemC = stemC
  stemNone = stemNone
  Files = {a, b, e}
  Copies = {c}
  NoName = NoName
  Chunks <- MCChunks
  Stem <- MCStem
  Ids = {id1, id2}
  NoId = NoId
  Absent = Absent
  MaxRetries = 2
  DiskFills = FALSE
  MaxCalls = 3
INVARIANT SavedInfoIsFound
