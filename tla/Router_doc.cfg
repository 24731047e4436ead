SPECIFICATION Spec
CONSTANTS
  Order <- Pieces
  Param <- Params
  NameOf <- Names
  Wild <- Wilds
  StartsWith <- Starting
  Routes <- DocRoutes
  Targets = {"server"}
  UrlPrefixes <- NoPrefixes
  Paths <- AllPaths
  Verbs = {"ANY", "GET"}
  MaxReg = 3
  MaxGraft = 0
  None = None
INVARIANT ExactNeverParam
CHECK_DEADLOCK FALSE
