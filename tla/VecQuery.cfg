SPECIFICATION FairSpec
CONSTANTS
  g1 = g1
  g2 = g2
  d1 = d1
  d2 = d2
  d3 = d3
  Goroutines = {g1, g2}
  Ids = {d1, d2, d3}
  DatasetOf <- ThreeDocs
  Scores = {1, 2, 3}
  Zero = Zero
  ZeroScore = 2
  Odd = Odd
  Blank = Blank
  Absent = Absent
  Unreadable = Unreadable
  Kinds = {"brute", "cover"}
  Queries <- Mix
  FirstRows <- Stored
  FirstSchemas <- Schemas
  Pools <- Enough
  Changes <- Some
  MaxWrites = 1
  MaxFaults = 1
INVARIANTS
  TypeOK
  AnswerIsExact
  QueriesFailForCause
  RefusalsAreBrief
PROPERTY EveryQueryReturns
