-------------------------- MODULE MCAuctionRunner --------------------------
(***************************************************************************)
(* Values of the constants of AuctionRunner for TLC: one ingress port for  *)
(* each customer, and the outcome of the reservation-price auction.        *)
(***************************************************************************)
EXTENDS AuctionRunner

CONSTANTS e1, e2, Capacity, ReservationPrice

Outcome == INSTANCE AuctionOutcome

OutcomePrice(book) == Outcome!ClearingPrice(book, Capacity, ReservationPrice)
OutcomeAwards(book) == Outcome!Awards(book, Capacity, ReservationPrice)

TwoPorts == 1..2
EachItsOwn == [i \in TwoPorts |-> i]
Valuations == [c \in TwoPorts |-> 1 + c]
OnePort == <<e1>>
BothPorts == <<e1, e2>>
\* two units at 3, or three units at 2: in a capacity of 4 the second is rationed
TwoOffers == {[units |-> 2, price |-> 3], [units |-> 3, price |-> 2]}
=============================================================================
