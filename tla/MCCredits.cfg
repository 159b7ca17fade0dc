SPECIFICATION Spec
CONSTANTS
  ann = ann
  bob = bob
  Customers = {ann, bob}
  Scenarios <- BobJoins
  Amounts = {0, 2}
  ApiPods = {p1, p2}
  RunnerPods = {r1, r2}
  MaxRounds = 2
  MaxStops = 2
  MaxFaults = 1
SYMMETRY PodsAlike
INVARIANTS
  TypeOK
  NeverInflated
  Exact
  EntriesFromTheStart
PROPERTY
  KeptWithoutFaults
