SPECIFICATION Spec
CONSTANTS
  f1 = f1
  f2 = f2
  p1 = p1
  p2 = p2
  Flows = {f1, f2}
  Partitions = {p1, p2}
  PartitionsOf <- OneAndBoth
  Traffic <- HalfDropped
  StartAt = 6
  Word = 8
  MaxReports = 3
  MaxFaults = 2
INVARIANTS
  TypeOK
  RateIsReal
PROPERTIES
  NeverGoesBack
  ShowsTheLatest
CHECK_DEADLOCK FALSE
