SPECIFICATION Spec
CONSTANTS
  e1 = e1
  e2 = e2
  Customers = {1, 2}
  Ingress = {1, 2}
  Owner <- EachItsOwn
  Valuation <- Valuations
  EgressPorts <- BothPorts
  PostPorts = {e1, e2}
  Offers <- TwoOffers
  PriceOf <- OutcomePrice
  AwardsOf <- OutcomeAwards
  Capacity = 4
  ReservationPrice = 1
  MaxPosts = 3
  MaxClock = 1
  MaxFaults = 0
INVARIANTS
  OneFate
  BooksBalance
  HistoryBacked
PROPERTY
  ImplementsLedger
