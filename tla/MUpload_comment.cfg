SPECIFICATION Spec
CONSTANTS
  Client = {c1}
  Request = {r1}
  Hash = {h1}
  h1 = h1
  h2 = h2
  Idx = {1, 2}
  Minutes = 1
  FileSize <- TwoChunkFile
  ChunkSize = 2
  IntHalf = 4
  RetryMax = 0
  Sends = {"MP_"}
  Faults = {}
  Nil = Nil
  Mixed = Mixed
INVARIANT ProgressAfterWrite
