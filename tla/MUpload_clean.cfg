SPECIFICATION Spec
CONSTANTS
  Client = {c1, c2}
  Request = {r1}
  Hash = {h1, h2}
  h1 = h1
  h2 = h2
  Idx = {1, 2}
  Minutes = 2
  FileSize <- SmallFiles
  ChunkSize = 2
  IntHalf = 4
  RetryMax = 0
  Sends = {"bare", "MP_"}
  Faults = {}
  Nil = Nil
  Mixed = Mixed
INVARIANTS SuccessSound NoForeignChunk AllRecordedMeansSuccess
PROPERTY GuessOnlyBeforeCount
SYMMETRY Symmetry
