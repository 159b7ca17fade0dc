SPECIFICATION Spec
CONSTANTS
  ann = ann
  bob = bob
  Customers = {ann, bob}
  Scenarios <- BobJoins
  Amounts = {0, 2}
  ApiPods = {p1}
  RunnerPods = {r1}
  MaxRounds = 1
  MaxStops = 1
  MaxFaults = 1
SYMMETRY PodsAlike
PROPERTY
  NeverOverwritten
