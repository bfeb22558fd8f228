SPECIFICATION Spec
CONSTANTS
  Schemes = {"helper", "autocommit", "inTxn"}
  Writers = {w1, w2}
  Ids = {d1, d2}
  Values = {a, b}
  Absent = Absent
  MaxScn = 6
  BatchSize = 2
SYMMETRY Symmetry
INVARIANTS
  TypeOK
  NumbersOnce
  OrderedLogReplays
