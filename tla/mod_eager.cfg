SPECIFICATION MCSpec
CONSTANTS
  Parts = {"runtime"}
  Module = {"lib", "static"}
  Native = {"lib"}
  Components <- LibraryAndStatic
  Bare = {2}
  Eager = {1}
  Factory = {1, 2, 3, 4, 5}
  Null = 0
  Embedder = {"a", "b"}
  MaxCount = 3
  Contract <- CommaContracts
  CID = {"c", "d"}
  Location <- CommaLocations
  Entry <- CommaEntries
  Value <- PlainValues
INVARIANT FactoriesGoFirst
CHECK_DEADLOCK FALSE
