SPECIFICATION MCSpec
CONSTANTS
  Parts = {"table", "vector", "strings", "lists", "pool", "dates", "streams"}
  MaxSize = 3
  Key = {0, 1, 2}
  NoKey = 9
  PrimeList <- Primes
  Value = {1, 2}
  Raw = 0
  MaxCapacity = 5
  String = {s1, s2}
  MaxLength = 3
  Heads = {1, 2}
  Elems = {3, 4, 5, 6}
  MaxBlocks = 2
  MaxCells = 3
  FirstDays = {2415065, 2451576, 2488110, 2454801, 2299161, 5738708}
  Span = 120
  NearMidnight = 1
  Length = 3
  Wrap = 5
INVARIANTS QueriesAgree TraversalIsComplete VectorIsSequence StringsAreValues BuffersAreCounted ListsAreSequences CellsAreSomewhere TimesFollowCalendar StreamsGiveTheData
PROPERTY ImplementsMultiset
SYMMETRY StringNames
CHECK_DEADLOCK FALSE
