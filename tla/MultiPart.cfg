SPECIFICATION FairSpec
CONSTANTS
  Char <- Chars
  CR = "CR"
  LF = "LF"
  Boundary <- Dashes
  Disposition <- Dispositions
  PartLists <- Lists
  Cuts = {0, 3, 9, 12}
INVARIANTS RoundTrip NothingMixed
PROPERTY ParserEnds
CHECK_DEADLOCK FALSE
