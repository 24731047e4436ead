SPECIFICATION FairSpec
CONSTANTS
  Upload = {u1, u2}
  Name = {n1, n2}
  Data = {d1, d2}
  d1 = d1
  d2 = d2
  Size <- TwoSizes
  FdLimits = {3, 8}
  Faults = {"disk", "mysql", "mq", "oss"}
  None = None
INVARIANTS TypeOK AgreeUnlessDisturbed RedirectMeansListed TakenOnce
INVARIANTS UploadIsolated OssContentAddressed ListedIsFound FourPerUpload
PROPERTY UploadsEnd
CHECK_DEADLOCK FALSE
