SPECIFICATION Spec
CONSTANTS
  e1 = e1
  e2 = e2
  Customers = {1, 2}
  Ingress = {1, 2}
  Owner <- EachItsOwn
  Valuation <- Valuations
  EgressPorts <- OnePort
  PostPorts = {e1}
  Offers <- TwoOffers
  PriceOf <- OutcomePrice
  AwardsOf <- OutcomeAwards
  Capacity = 4
  ReservationPrice = 1
  MaxPosts = 2
  MaxClock = 1
  MaxFaults = 0
INVARIANT
  NoBidDropped
