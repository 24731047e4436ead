SPECIFICATION Spec
CONSTANTS
  Locals = {0, 2}
  Global = 2
  MaxFiles = 2
  MaxOps = 2
  Faults = {"task", "reply"}
INVARIANT UserDataKept
CHECK_DEADLOCK FALSE
