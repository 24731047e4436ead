SPECIFICATION FairSpec
CONSTANTS
  BodyLen = {1, 3}
  HeaderLen = 1
  SizeT = 8
  MaxBodies = 3
  MaxRefused = 2
  Faults = {"header", "refuse", "peer"}
INVARIANTS TypeOK RefusalCostsAByte
PROPERTIES StreamSpec SignalServed StopEnds
CHECK_DEADLOCK FALSE
