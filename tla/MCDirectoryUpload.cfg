SPECIFICATION FairSpec
CONSTANTS
  a = a
  b = b
  c = c
  e = e
  stemA = stemA
  stemC = stemC
  stemE = stemE
  Files = {a, b, c, e}
  Chunks <- MCChunks
  Stem <- MCStem
  Directories <- MCDirectories
  NumClients = 2
  Handles = {h1, h2}
  None = None
  Absent = Absent
  Empty = Empty
INVARIANTS TypeOK FilesShared FilesAccounted ChecksumWhereDue SocketsKept CheckpointsTell
PROPERTIES SentIsCounted EveryCallReturns
