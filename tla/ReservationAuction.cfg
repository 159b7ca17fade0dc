SPECIFICATION Spec
CONSTANTS
  Capacity = 4
  ReservationPrice = 2
  MaxBids = 3
  MaxUnits = 3
  MaxPrice = 3
  Word = 64
INVARIANTS
  TypeOK
  CapacityRespected
  PriceFloorHolds
  VirtualBidNeverServed
  MatchesOutcome
  HigherPriceFirst
  FairWithinPrice
  LittleIsWasted
