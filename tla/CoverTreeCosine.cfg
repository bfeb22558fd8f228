SPECIFICATION SpecSearch
CONSTANTS
  Vectors <- Directions
  Distance <- Cosine
  Unit = 1000
  Num = 13
  Den = 10
  MaxPoints = 4
  Strategies = {"node"}
  Queries <- Directions
  MaxK = 2
INVARIANTS
  SearchIsExact
