SPECIFICATION FairSpec
CONSTANTS
  Client = {c1}
  Request = {r1, r2}
  Hash = {h1, h2}
  h1 = h1
  h2 = h2
  Idx = {1, 2}
  Minutes = 1
  FileSize <- WrappingFiles
  ChunkSize = 2
  IntHalf = 4
  RetryMax = 1
  Sends = {"MP_"}
  Faults = {"redis", "disk", "restart"}
  Nil = Nil
  Mixed = Mixed
INVARIANTS TypeOK SuccessSound
PROPERTY RequestsEnd
