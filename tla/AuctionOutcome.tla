--------------------------- MODULE AuctionOutcome ---------------------------
(***************************************************************************)
(* What one reservation-price auction (auction/algo/reservation.go)        *)
(* returns, said without its loops: who is allocated how much, and at      *)
(* which price.  A book maps each bidder to what it bids, a record         *)
(* [units, price].  ReservationAuction models the two passes of the code   *)
(* and is checked against these definitions; AuctionRunner uses them       *)
(* where the code calls the function.                                      *)
(*                                                                         *)
(* Numbers are unbounded here: the 64-bit products of the code are         *)
(* modelled in ReservationAuction.                                         *)
(***************************************************************************)
EXTENDS Naturals, FiniteSetsExt, Functions

Units(book, S) == SumFunctionOnSet([b \in S |-> book[b].units], S)

AtLeast(book, price) == {b \in DOMAIN book : book[b].price >= price}
Above(book, price)   == {b \in DOMAIN book : book[b].price > price}
Marginal(book, price) == {b \in DOMAIN book : book[b].price = price}

(***************************************************************************)
(* Demand at a price, the virtual bid (all of the capacity, at the         *)
(* reservation price) included.                                            *)
(***************************************************************************)
DemandAt(book, capacity, reserve, price) ==
  Units(book, AtLeast(book, price)) + (IF reserve >= price THEN capacity ELSE 0)

ClearingPrice(book, capacity, reserve) ==
  Max({price \in {book[b].price : b \in DOMAIN book} \cup {reserve} :
         DemandAt(book, capacity, reserve, price) >= capacity})

(***************************************************************************)
(* Bids above the clearing price are served in full; those at it share     *)
(* what is left in proportion to what they ask, rounded down, and get at   *)
(* most what they ask.                                                     *)
(***************************************************************************)
Award(book, capacity, reserve, b) ==
  LET price == ClearingPrice(book, capacity, reserve)
      left  == capacity - Units(book, Above(book, price))
      tier  == Units(book, Marginal(book, price))
  IN  CASE book[b].price > price -> book[b].units
        [] book[b].price = price -> Min({book[b].units, (book[b].units * left) \div tier})
        [] OTHER                 -> 0

(***************************************************************************)
(* The bidders that get an allocation record, of zero units possibly: a    *)
(* bid below the clearing price gets none.                                 *)
(***************************************************************************)
Allocated(book, capacity, reserve) ==
  AtLeast(book, ClearingPrice(book, capacity, reserve))

Awards(book, capacity, reserve) ==
  [b \in Allocated(book, capacity, reserve) |-> Award(book, capacity, reserve, b)]
=============================================================================
