SPECIFICATION FairSpec
CONSTANTS
  g1 = g1
  g2 = g2
  g3 = g3
  g4 = g4
  p = p
  q = q
  r = r
  Goroutines = {g1, g2, g3, g4}
  Procs = {p, q, r}
  ProcOf <- ThreeProcs
  Nobody = Nobody
  StaleAfter = 2
INVARIANT ProcessesExclude
PROPERTY OrphanIsBroken
