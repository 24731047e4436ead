SPECIFICATION FairSpec
CONSTANTS
  Locals = {0, 2}
  Global = 2
  MaxFiles = 2
  MaxOps = 2
  Faults = {"task", "reply"}
INVARIANTS BodyAlive FreedOnce RequestBack MultiPartSent AfterOnce
PROPERTY RequestEnds
CHECK_DEADLOCK FALSE
