SPECIFICATION FairSpec
CONSTANTS
  g1 = g1
  g2 = g2
  g3 = g3
  w1 = w1
  w2 = w2
  p1 = p1
  p2 = p2
  Goroutines = {g1, g2, g3}
  Writers = {w1, w2}
  Procs = {p1, p2}
  ProcOf <- Restarted
  Nobody = Nobody
  NoIndex = NoIndex
  MaxAlive = 1
  MaxWrites = 1
  MaxFaults = 1
  StaleAfter = 1
INVARIANTS
  TypeOK
  OneBuilderOverall
  WaitersHaveABuilder
  UnracedAnswersAreFresh
PROPERTY EveryMatchReturns
