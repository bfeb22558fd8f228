SPECIFICATION Spec
CONSTANTS
  g1 = g1
  g2 = g2
  g3 = g3
  w1 = w1
  w2 = w2
  p1 = p1
  p2 = p2
  Goroutines = {g1, g2}
  Writers = {w1}
  Procs = {p1}
  ProcOf <- OneProcess
  Nobody = Nobody
  NoIndex = NoIndex
  MaxAlive = 1
  MaxWrites = 2
  MaxFaults = 0
  StaleAfter = 1
INVARIANT NextMatchRebuilds
