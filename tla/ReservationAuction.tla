------------------------- MODULE ReservationAuction -------------------------
(***************************************************************************)
(* RunReservationPriceAuction (auction/algo/reservation.go), one step per  *)
(* loop iteration: the virtual bid is added, the bids are sorted by price, *)
(* a first pass finds the clearing price, a second one serves the bids     *)
(* above it and collects those at it, and a last loop divides what is left *)
(* among the latter.                                                       *)
(*                                                                         *)
(* A bid is named by its place in the list the runner read, which stands   *)
(* for its ingress port.  sort.Slice is not stable, so any order of equal  *)
(* prices may come out of the sort.  uint64 arithmetic is modulo Word.     *)
(***************************************************************************)
EXTENDS Integers, Sequences, FiniteSets, Functions

Outcome == INSTANCE AuctionOutcome

CONSTANTS
  Capacity,          \* MaxCapacity of the switch
  ReservationPrice,  \* reservation_price of the scenario
  MaxBids,           \* bound: bids in one auction
  MaxUnits,          \* bound: units of a bid
  MaxPrice,          \* bound: unit price of a bid
  Word               \* 2^64 in the code

ASSUME CapacityAssumption == Capacity \in Nat \ {0}  \* runner.go skips an auction without capacity
ASSUME PriceAssumption == ReservationPrice \in Nat /\ MaxPrice \in Nat
ASSUME SizeAssumption == MaxBids \in Nat /\ MaxUnits \in Nat
ASSUME WordAssumption == Word \in Nat /\ Capacity < Word /\ MaxUnits < Word

VARIABLES
  book,          \* the list of bids the runner read
  bids,          \* the slice: with the virtual bid, once sorted
  pc,            \* "sort", "price", "allocate", "split", "done"
  at,            \* loop index of the current pass
  remaining,
  clearingPrice,
  marginalBids,
  marginalDemand,
  allocations,   \* sequence of [ingress, units]
  left,          \* history: remaining before each bid of the first pass
  tier,          \* history: true demand of the marginal bids before each of them
  granted        \* history: the sum of the units in allocations

vars == <<book, bids, pc, at, remaining, clearingPrice, marginalBids,
          marginalDemand, allocations, left, tier, granted>>

(***************************************************************************)
(* validateBid lets only positive units and prices into the bid map.       *)
(***************************************************************************)
Offer == [units : 1..MaxUnits, price : 1..MaxPrice]
Books == UNION {[1..n -> Offer] : n \in 1..MaxBids}

VirtualIngress == 0
MutantFreeVirtualBid == [ingress |-> VirtualIngress, units |-> Capacity, price |-> 0]
VirtualBid == [ingress |-> VirtualIngress, units |-> Capacity, price |-> ReservationPrice]
RealBid(i) == [ingress |-> i, units |-> book[i].units, price |-> book[i].price]
IsVirtual(bid) == bid.ingress = VirtualIngress

Bid == [ingress : 0..MaxBids, units : 0..(Word - 1), price : Nat]

Submitted == {RealBid(i) : i \in 1..Len(book)} \cup {VirtualBid}

Init ==
  /\ book \in Books
  /\ bids = <<>>
  /\ pc = "sort"
  /\ at = 1
  /\ remaining = Capacity
  /\ clearingPrice = 0
  /\ marginalBids = <<>>
  /\ marginalDemand = 0
  /\ allocations = <<>>
  /\ left = <<Capacity>>
  /\ tier = <<0>>
  /\ granted = 0

SortedByPrice(s) == \A i, j \in DOMAIN s : i < j => s[i].price >= s[j].price

SortBids ==
  /\ pc = "sort"
  /\ \E order \in Bijection(1..(Len(book) + 1), Submitted) :
        SortedByPrice(order) /\ bids' = order
  /\ pc' = "price"
  /\ UNCHANGED <<book, at, remaining, clearingPrice, marginalBids, marginalDemand,
                 allocations, left, tier, granted>>

(***************************************************************************)
(* Between the passes the code resets remaining and starts over.           *)
(***************************************************************************)
BeginAllocation ==
  /\ pc' = "allocate"
  /\ at' = 1
  /\ remaining' = Capacity

MutantUnderflow ==  \* subtracts without comparing first
  /\ pc = "price"
  /\ IF at > Len(bids) \/ remaining = 0
     THEN BeginAllocation /\ UNCHANGED <<clearingPrice, left>>
     ELSE /\ clearingPrice' = bids[at].price
          /\ remaining' = remaining - bids[at].units
          /\ left' = Append(left, remaining')
          /\ at' = at + 1
          /\ UNCHANGED pc
  /\ UNCHANGED <<book, bids, marginalBids, marginalDemand, allocations, tier, granted>>

FindClearingPrice ==
  /\ pc = "price"
  /\ IF at > Len(bids) \/ remaining = 0
     THEN BeginAllocation /\ UNCHANGED <<clearingPrice, left>>
     ELSE /\ clearingPrice' = bids[at].price
          /\ IF bids[at].units >= remaining
             THEN BeginAllocation /\ UNCHANGED left
             ELSE /\ remaining' = remaining - bids[at].units
                  /\ left' = Append(left, remaining')
                  /\ at' = at + 1
                  /\ UNCHANGED pc
  /\ UNCHANGED <<book, bids, marginalBids, marginalDemand, allocations, tier, granted>>

Allocate(bid, units) ==
  /\ allocations' = Append(allocations, [ingress |-> bid.ingress, units |-> units])
  /\ granted' = granted + units

Considering ==
  /\ pc = "allocate"
  /\ at <= Len(bids)
  /\ at' = at + 1
  /\ UNCHANGED <<book, bids, pc, clearingPrice, left>>

AllocateAbove ==
  /\ Considering
  /\ bids[at].price > clearingPrice
  /\ Allocate(bids[at], bids[at].units)
  /\ remaining' = IF bids[at].units >= remaining THEN 0 ELSE remaining - bids[at].units
  /\ UNCHANGED <<marginalBids, marginalDemand, tier>>

MutantDiluted(bid) == bid.units  \* the virtual bid counts in the denominator
RealUnits(bid) == IF IsVirtual(bid) THEN 0 ELSE bid.units

MutantCollectBelow ==  \* everyone not above the price shares
  /\ Considering
  /\ bids[at].price <= clearingPrice
  /\ marginalBids' = Append(marginalBids, bids[at])
  /\ marginalDemand' = (marginalDemand + RealUnits(bids[at])) % Word
  /\ tier' = Append(tier, tier[Len(tier)] + RealUnits(bids[at]))
  /\ UNCHANGED <<remaining, allocations, granted>>

CollectMarginal ==
  /\ Considering
  /\ bids[at].price = clearingPrice
  /\ marginalBids' = Append(marginalBids, bids[at])
  /\ marginalDemand' = (marginalDemand + RealUnits(bids[at])) % Word
  /\ tier' = Append(tier, tier[Len(tier)] + RealUnits(bids[at]))
  /\ UNCHANGED <<remaining, allocations, granted>>

PassOver ==
  /\ Considering
  /\ bids[at].price < clearingPrice
  /\ UNCHANGED <<remaining, marginalBids, marginalDemand, allocations, tier, granted>>

EndAllocation ==
  /\ pc = "allocate"
  /\ at > Len(bids)
  /\ at' = 1
  /\ pc' = IF marginalDemand > 0 /\ remaining > 0 THEN "split" ELSE "done"
  /\ UNCHANGED <<book, bids, remaining, clearingPrice, marginalBids, marginalDemand,
                 allocations, left, tier, granted>>

Capped(units, asked) == IF units > asked THEN asked ELSE units

MutantUnsplit(bid) == bid.units                             \* every marginal bid in full
MutantFirstServed(bid) == Capped(Capacity - granted, bid.units)  \* first come, first served
Share(bid) == Capped(((bid.units * remaining) % Word) \div marginalDemand, bid.units)

MutantSplitVirtual ==  \* does not skip the virtual bid
  /\ pc = "split"
  /\ at <= Len(marginalBids)
  /\ at' = at + 1
  /\ Allocate(marginalBids[at], Share(marginalBids[at]))
  /\ UNCHANGED <<book, bids, pc, remaining, clearingPrice, marginalBids, marginalDemand,
                 left, tier>>

SplitMarginal ==
  /\ pc = "split"
  /\ at <= Len(marginalBids)
  /\ at' = at + 1
  /\ IF IsVirtual(marginalBids[at])
     THEN UNCHANGED <<allocations, granted>>
     ELSE Allocate(marginalBids[at], Share(marginalBids[at]))
  /\ UNCHANGED <<book, bids, pc, remaining, clearingPrice, marginalBids, marginalDemand,
                 left, tier>>

EndSplit ==
  /\ pc = "split"
  /\ at > Len(marginalBids)
  /\ pc' = "done"
  /\ UNCHANGED <<book, bids, at, remaining, clearingPrice, marginalBids, marginalDemand,
                 allocations, left, tier, granted>>

Return == pc = "done" /\ UNCHANGED vars

Next ==
  \/ SortBids
  \/ FindClearingPrice
  \/ AllocateAbove
  \/ CollectMarginal
  \/ PassOver
  \/ EndAllocation
  \/ SplitMarginal
  \/ EndSplit
  \/ Return

Spec == Init /\ [][Next]_vars

-----------------------------------------------------------------------------
(***************************************************************************)
(* Type invariant.                                                         *)
(***************************************************************************)
TypeOK ==
  /\ book \in Books
  /\ bids \in Seq(Bid)
  /\ pc \in {"sort", "price", "allocate", "split", "done"}
  /\ at \in Nat \ {0}
  /\ remaining \in 0..Capacity
  /\ clearingPrice \in Nat
  /\ marginalBids \in Seq(Bid)
  /\ marginalDemand \in 0..(Word - 1)
  /\ allocations \in Seq([ingress : 0..MaxBids, units : 0..(Word - 1)])
  /\ left \in Seq(0..Capacity)
  /\ tier \in Seq(Nat) /\ tier # <<>>
  /\ granted \in Nat

(***************************************************************************)
(* No product and no sum of the code exceeds a machine word.               *)
(***************************************************************************)
NoWrap == Capacity * MaxUnits < Word /\ (MaxBids + 1) * MaxUnits < Word

(***************************************************************************)
(* The auction never hands out more than the capacity, at any point of     *)
(* the two loops: the bids above the clearing price fit (the floor at zero *)
(* of the second pass is never taken), and the rounded shares of the       *)
(* marginal bids fit in what those leave.                                  *)
(***************************************************************************)
CapacityRespected == granted <= Capacity

(***************************************************************************)
(* The price paid is never below the reservation price: the virtual bid    *)
(* stops the first pass, at the latest.                                    *)
(***************************************************************************)
PriceFloorHolds == pc \notin {"sort", "price"} => clearingPrice >= ReservationPrice

(***************************************************************************)
(* The virtual bid sets a price and is never itself allocated anything: a  *)
(* second pass that served it would publish a result for ingress port 99.  *)
(***************************************************************************)
VirtualBidNeverServed ==
  \A k \in DOMAIN allocations : ~IsVirtual(allocations[k])

(***************************************************************************)
(* The loops compute the outcome AuctionOutcome defines, whatever order    *)
(* the unstable sort leaves equal prices in: one record for each bid at or *)
(* above the clearing price, with its units, and none for the others.      *)
(***************************************************************************)
MatchesOutcome ==
  pc = "done" =>
    LET awards == Outcome!Awards(book, Capacity, ReservationPrice)
    IN  /\ clearingPrice = Outcome!ClearingPrice(book, Capacity, ReservationPrice)
        /\ Len(allocations) = Cardinality(DOMAIN awards)
        /\ Range(allocations) = {[ingress |-> b, units |-> awards[b]] : b \in DOMAIN awards}

(***************************************************************************)
(* What bid i was allocated, 0 without a record.                           *)
(***************************************************************************)
Served(i) ==
  LET records == {k \in DOMAIN allocations : allocations[k].ingress = i}
  IN  IF records = {} THEN 0 ELSE allocations[CHOOSE k \in records : TRUE].units

(***************************************************************************)
(* Nobody is served while someone who bid more goes short: a bid gets      *)
(* units only if every bid at a higher price got all it asked for.         *)
(***************************************************************************)
HigherPriceFirst ==
  pc = "done" =>
    \A i, j \in DOMAIN book :
      book[i].price > book[j].price /\ Served(j) > 0 => Served(i) = book[i].units

(***************************************************************************)
(* Fair split (the proportional share of the marginal bids): at one price, *)
(* who asks for more gets no less, and who asks for the same the same.     *)
(***************************************************************************)
FairWithinPrice ==
  pc = "done" =>
    \A i, j \in DOMAIN book :
      book[i].price = book[j].price /\ book[i].units <= book[j].units
        => Served(i) <= Served(j)

(***************************************************************************)
(* Rounding wastes less than one unit per marginal bid: more is left over  *)
(* only when every bid that meets the reservation price is served in full. *)
(***************************************************************************)
LittleIsWasted ==
  pc = "done" =>
    \/ Capacity - granted < Len(marginalBids)
    \/ \A i \in DOMAIN book :
         book[i].price >= ReservationPrice => Served(i) = book[i].units
=============================================================================
