SPECIFICATION FairSpec
CONSTANTS
  a1 = a1
  a2 = a2
  c1 = c1
  c2 = c2
  c3 = c3
  Admins = {a1, a2}
  Conns = {c1, c2, c3}
  Nobody = Nobody
  MaxWrites = 2
  MaxFaults = 1
INVARIANTS
  TypeOK
  BlobIsCurrent
  TransactionsEnd
  AcknowledgedWritesStay
  SomebodyGoesOn
PROPERTIES
  ReindexedIsStored
  KeepsThePromise
  EveryReindexReturns
