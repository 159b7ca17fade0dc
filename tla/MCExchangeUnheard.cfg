SPECIFICATION Spec
CONSTANTS
  Handlers = {1, 2}
  Scrapers = {1, 2}
  Requests <- Posts
  Wide = 4
  Outcomes <- Awards
  MeteredFlows = {"f"}
  PerKbps = 5
  RandomDemand = {4, 9}
  RandomDrop = {0, 1}
  Kbps = {0, 1, 2}
  Workloads <- Listening
INVARIANT ResultsTakeEffect
CHECK_DEADLOCK FALSE
