SPECIFICATION Spec
CONSTANTS
  Order <- Pieces
  Param <- Params
  NameOf <- Names
  Wild <- Wilds
  StartsWith <- Starting
  Routes <- AllRoutes
  Targets = {"server", "blueprint"}
  UrlPrefixes <- BlueprintPrefixes
  Paths <- AllPaths
  Verbs = {"ANY", "GET"}
  MaxReg = 3
  MaxGraft = 2
  None = None
INVARIANTS FindIsRight ExactServed ParamsRight BlueprintServed
CHECK_DEADLOCK FALSE
