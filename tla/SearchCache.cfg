SPECIFICATION FairSpec
CONSTANTS
  NoIndex = NoIndex
  Nil = Nil
  g1 = g1
  g2 = g2
  w1 = w1
  path = path
  ds = ds
  Goroutines = {g1, g2}
  Writers = {w1}
  Keys = {path}
  Datasets = {ds}
  DatasetOf <- OneKey
  MaxVersion = 2
  MaxFaults = 1
INVARIANTS
  TypeOK
  SingleFlight
  WaitersHaveABuilder
  CacheFresh
  Inv
PROPERTIES
  EveryCallReturns
  KeepsThePromise
