---------------------- MODULE ReservationAuctionProofs ----------------------
(***************************************************************************)
(* Proofs about the reservation-price auction, for every capacity,         *)
(* reservation price, word size and bound on the bids.                     *)
(***************************************************************************)
EXTENDS ReservationAuction, SequenceTheorems, SumTheorems

(***************************************************************************)
(* Once sorted, bids is the submitted bids and the virtual one, by price.  *)
(***************************************************************************)
Order ==
  pc # "sort" =>
    /\ bids \in Bijection(1..(Len(book) + 1), Submitted)
    /\ Len(bids) = Len(book) + 1
    /\ SortedByPrice(bids)

(***************************************************************************)
(* The first pass has stopped, or is, at bid number Len(left); left is the *)
(* capacity minus the bids before each, and the virtual bid, which is as   *)
(* large as the capacity, is not among those passed.                       *)
(***************************************************************************)
Prefix ==
  /\ Len(left) >= 1
  /\ left[1] = Capacity
  /\ \A k \in 1..Len(left) : left[k] > 0
  /\ pc # "sort" =>
       /\ Len(left) <= Len(bids)
       /\ \A k \in 1..(Len(left) - 1) :
            left[k + 1] = left[k] - bids[k].units /\ ~IsVirtual(bids[k])

Search ==
  /\ pc = "sort" => at = 1 /\ Len(left) = 1 
  /\ pc \in {"sort", "price"} =>
       /\ at = Len(left)
       /\ remaining = left[at]
       /\ granted = 0
       /\ allocations = <<>>
       /\ marginalBids = <<>>
       /\ marginalDemand = 0
       /\ tier = <<0>>
  /\ pc \in {"allocate", "split", "done"} => clearingPrice = bids[Len(left)].price

(***************************************************************************)
(* The second pass repeats the first one's subtractions as long as the     *)
(* prices are above the clearing price, and none after that.               *)
(***************************************************************************)
Serving ==
  /\ pc \in {"allocate", "split", "done"} => remaining > 0
  /\ pc = "allocate" =>
       /\ granted = Capacity - remaining
       /\ at <= Len(bids) + 1
       /\ \E m \in 1..Len(left) :
            /\ remaining = left[m]
            /\ m = at \/ (m < at /\ bids[m].price <= clearingPrice)

(***************************************************************************)
(* tier sums the units of the real marginal bids, and so does              *)
(* marginalDemand when nothing wraps.                                      *)
(***************************************************************************)
Tiers ==
  /\ Len(tier) = Len(marginalBids) + 1
  /\ \A j \in 1..Len(marginalBids) : tier[j + 1] = tier[j] + RealUnits(marginalBids[j])
  /\ \A j \in 1..Len(tier) : tier[j] <= tier[Len(tier)]
  /\ \A j \in 1..Len(marginalBids) : IsVirtual(marginalBids[j]) \/ marginalBids[j].units <= MaxUnits
  /\ NoWrap => marginalDemand = tier[Len(tier)]
  /\ pc \in {"sort", "price", "allocate"} => tier[Len(tier)] <= (at - 1) * MaxUnits

(***************************************************************************)
(* What the marginal bids have been given so far is within their part of   *)
(* what was left for them.                                                 *)
(***************************************************************************)
Splitting ==
  /\ pc = "split" =>
       /\ marginalDemand > 0
       /\ at <= Len(marginalBids) + 1
       /\ NoWrap =>
            /\ granted >= Capacity - remaining
            /\ (granted - (Capacity - remaining)) * marginalDemand <= tier[at] * remaining
  /\ pc = "done" /\ NoWrap => granted <= Capacity

IInv == TypeOK /\ Order /\ Prefix /\ Search /\ Serving /\ Tiers /\ Splitting /\ VirtualBidNeverServed

-----------------------------------------------------------------------------
(***************************************************************************)
(* Arithmetic.                                                             *)
(***************************************************************************)
LEMMA DivBound ==
  ASSUME NEW a \in Nat, NEW m \in Nat \ {0}
  PROVE  a \div m \in Nat /\ (a \div m) * m <= a
OBVIOUS

LEMMA ModRange == ASSUME NEW a \in Nat, NEW w \in Nat \ {0} PROVE a % w \in 0..(w - 1)
OBVIOUS

LEMMA ModSmall == ASSUME NEW a \in Nat, NEW w \in Nat, a < w PROVE a % w = a
OBVIOUS

LEMMA MulMono ==
  ASSUME NEW a \in Nat, NEW b \in Nat, NEW c \in Nat, a <= b PROVE a * c <= b * c
OBVIOUS

LEMMA MulNat == ASSUME NEW a \in Nat, NEW b \in Nat PROVE a * b \in Nat
OBVIOUS

LEMMA MulCancel ==
  ASSUME NEW a \in Int, NEW b \in Int, NEW c \in Nat \ {0}, a * c <= b * c PROVE a <= b
OBVIOUS

LEMMA Distributes ==
  ASSUME NEW a \in Int, NEW b \in Int, NEW c \in Int PROVE (a + b) * c = a * c + b * c
OBVIOUS

(***************************************************************************)
(* The bids submitted to the sort: the virtual one and real ones within    *)
(* the bounds.                                                             *)
(***************************************************************************)
LEMMA SubmittedFacts ==
  ASSUME book \in Books
  PROVE  /\ Len(book) \in Nat
         /\ VirtualBid \in Submitted
         /\ \A b \in Submitted :
              /\ b \in Bid
              /\ IsVirtual(b) => b = VirtualBid
              /\ ~IsVirtual(b) => b.units <= MaxUnits
<1>1. PICK n \in 1..MaxBids : book \in [1..n -> Offer]
  BY DEF Books
<1>2. Len(book) = n /\ n \in Nat
  BY <1>1, SizeAssumption
<1>3. VirtualBid \in Bid /\ IsVirtual(VirtualBid)
  BY CapacityAssumption, PriceAssumption, SizeAssumption, WordAssumption
     DEF VirtualBid, Bid, IsVirtual, VirtualIngress
<1>4. ASSUME NEW i \in 1..n
      PROVE  RealBid(i) \in Bid /\ ~IsVirtual(RealBid(i)) /\ RealBid(i).units <= MaxUnits
  <2>1. book[i].units \in 1..MaxUnits /\ book[i].price \in 1..MaxPrice
    BY <1>1 DEF Offer
  <2> QED
    BY <2>1, <1>2, PriceAssumption, SizeAssumption, WordAssumption
       DEF RealBid, Bid, IsVirtual, VirtualIngress
<1> QED
  BY <1>2, <1>3, <1>4 DEF Submitted

LEMMA SortedFacts ==
  ASSUME TypeOK, Order, pc # "sort"
  PROVE  /\ Len(bids) \in Nat
         /\ \A k \in 1..Len(bids) :
              /\ bids[k] \in Bid
              /\ IsVirtual(bids[k]) => bids[k] = VirtualBid
              /\ ~IsVirtual(bids[k]) => bids[k].units <= MaxUnits
         /\ \A j, k \in 1..Len(bids) : j < k => bids[j].price >= bids[k].price
         /\ \E v \in 1..Len(bids) : bids[v] = VirtualBid
<1>1. Len(book) \in Nat /\ VirtualBid \in Submitted
  BY SubmittedFacts DEF TypeOK
<1>2. /\ bids \in [1..Len(bids) -> Submitted]
      /\ \A b \in Submitted : \E k \in 1..Len(bids) : bids[k] = b
  BY DEF Order, Bijection, Injection, Surjection
<1>3. Len(bids) \in Nat /\ DOMAIN bids = 1..Len(bids)
  BY LenProperties DEF TypeOK
<1>4. \A k \in 1..Len(bids) :
        /\ bids[k] \in Bid
        /\ IsVirtual(bids[k]) => bids[k] = VirtualBid
        /\ ~IsVirtual(bids[k]) => bids[k].units <= MaxUnits
  BY <1>2, SubmittedFacts DEF TypeOK
<1>5. \A j, k \in 1..Len(bids) : j < k => bids[j].price >= bids[k].price
  BY <1>3 DEF Order, SortedByPrice
<1> QED
  BY <1>1, <1>2, <1>3, <1>4, <1>5

(***************************************************************************)
(* Serving a real bid appends a record that is well typed and not the      *)
(* virtual bid's.                                                          *)
(***************************************************************************)
LEMMA AllocateFacts ==
  ASSUME TypeOK, VirtualBidNeverServed,
         NEW bid \in Bid, NEW units \in 0..(Word - 1), ~IsVirtual(bid),
         Allocate(bid, units)
  PROVE  /\ allocations' \in Seq([ingress : 0..MaxBids, units : 0..(Word - 1)])
         /\ granted' = granted + units /\ granted' \in Nat
         /\ VirtualBidNeverServed'
<1> DEFINE record == [ingress |-> bid.ingress, units |-> units]
<1>1. record \in [ingress : 0..MaxBids, units : 0..(Word - 1)] /\ allocations' = Append(allocations, record)
  BY DEF Bid, Allocate
<1> HIDE DEF record
<1>2. /\ DOMAIN allocations = 1..Len(allocations) /\ Len(allocations) \in Nat
      /\ DOMAIN allocations' = 1..(Len(allocations) + 1)
      /\ \A k \in 1..Len(allocations) : allocations'[k] = allocations[k]
      /\ allocations'[Len(allocations) + 1] = record
      /\ allocations' \in Seq([ingress : 0..MaxBids, units : 0..(Word - 1)])
  BY <1>1, AppendProperties, LenProperties DEF TypeOK
<1>3. record.ingress # VirtualIngress
  BY DEF record, IsVirtual
<1>4. VirtualBidNeverServed'
  BY <1>2, <1>3 DEF VirtualBidNeverServed, IsVirtual
<1>5. granted' = granted + units /\ granted \in Nat
  BY DEF Allocate, TypeOK
<1> QED
  BY <1>2, <1>4, <1>5, WordAssumption

-----------------------------------------------------------------------------
(***************************************************************************)
(* The invariant is inductive: the initial states, then one lemma for each *)
(* action.                                                                 *)
(***************************************************************************)
LEMMA InitInv == Init => IInv
<1> SUFFICES ASSUME Init PROVE IInv
  OBVIOUS
<1>1. TypeOK
  BY CapacityAssumption, WordAssumption DEF Init, TypeOK
<1>2. Order /\ Prefix /\ Search /\ Serving /\ Splitting /\ VirtualBidNeverServed
  BY CapacityAssumption DEF Init, Order, Prefix, Search, Serving, Splitting, VirtualBidNeverServed
<1>3. Tiers
  BY SizeAssumption, WordAssumption DEF Init, Tiers
<1> QED
  BY <1>1, <1>2, <1>3 DEF IInv

LEMMA SortBidsInv == IInv /\ SortBids => IInv'
<1> SUFFICES ASSUME IInv, SortBids PROVE IInv'
  OBVIOUS
<1> USE DEF IInv
<1>1. /\ bids' \in Bijection(1..(Len(book) + 1), Submitted)
      /\ SortedByPrice(bids')
      /\ Submitted' = Submitted
      /\ pc = "sort" /\ pc' = "price"
  BY DEF SortBids, Submitted, RealBid
<1>2. Len(book) \in Nat /\ \A b \in Submitted : b \in Bid
  BY SubmittedFacts DEF TypeOK
<1>3. bids' \in Seq(Submitted) /\ Len(bids') = Len(book) + 1
  BY <1>1, <1>2 DEF Bijection, Injection
<1>4. bids' \in Seq(Bid)
  BY <1>2, <1>3, SeqMonotonic
<1>5. TypeOK'
  BY <1>4 DEF SortBids, TypeOK
<1>6. Order'
  BY <1>1, <1>3 DEF SortBids, Order, SortedByPrice
<1>7. Prefix'
  <2>1. Len(left) = 1 /\ left' = left /\ Len(left) <= Len(bids')
    <3>1. Len(left) = 1
      BY <1>1 DEF Search
    <3>2. left' = left
      BY DEF SortBids
    <3> QED
      BY <3>1, <3>2, <1>2, <1>3
  <2>2. Len(left') - 1 = 0 /\ 1..0 = {}
    BY <2>1
  <2> QED
    BY <2>1, <2>2 DEF Prefix
<1>8. Search' /\ Serving' /\ Tiers' /\ Splitting' /\ VirtualBidNeverServed'
  BY <1>1 DEF SortBids, Search, Serving, Tiers, Splitting, VirtualBidNeverServed
<1> QED
  BY <1>5, <1>6, <1>7, <1>8

LEMMA FindClearingPriceInv == IInv /\ FindClearingPrice => IInv'
<1> SUFFICES ASSUME IInv, FindClearingPrice PROVE IInv'
  OBVIOUS
<1> USE DEF IInv
<1>1. /\ pc = "price" /\ at = Len(left) /\ remaining = left[at] /\ granted = 0
      /\ tier = <<0>> /\ marginalBids = <<>> /\ marginalDemand = 0 /\ allocations = <<>>
  BY DEF FindClearingPrice, Search
<1>2. at \in 1..Len(bids) /\ remaining > 0 /\ Len(left) \in Nat /\ left \in Seq(0..Capacity)
  BY <1>1 DEF TypeOK, Prefix
<1>3. /\ bids[at] \in Bid
      /\ bids[at] = VirtualBid \/ ~IsVirtual(bids[at])
      /\ Len(bids) \in Nat
      /\ Len(bids) = Len(book) + 1
      /\ \E v \in 1..Len(bids) : bids[v] = VirtualBid
  BY <1>1, <1>2, SortedFacts DEF Order
<1>7. bids[at].units \in Nat /\ bids[at].price \in Nat /\ remaining \in 0..Capacity
  <2>1. bids[at] \in Bid /\ remaining \in 0..Capacity
    BY <1>3 DEF TypeOK
  <2> QED
    BY <2>1, WordAssumption DEF Bid
<1>4. Order'
  BY <1>1 DEF FindClearingPrice, BeginAllocation, Order, Submitted, RealBid, SortedByPrice
<1>5. CASE bids[at].units >= remaining
  <2>1. pc' = "allocate" /\ at' = 1 /\ remaining' = Capacity /\ clearingPrice' = bids[at].price
        /\ UNCHANGED <<book, bids, marginalBids, marginalDemand, allocations, left, tier, granted>>
    BY <1>1, <1>2, <1>5 DEF FindClearingPrice, BeginAllocation
  <2>2. TypeOK'
    BY <2>1, <1>3, CapacityAssumption DEF TypeOK, Bid
  <2>3. Prefix' /\ Search' /\ VirtualBidNeverServed' /\ Splitting'
    BY <2>1, <1>1 DEF Prefix, Search, VirtualBidNeverServed, Splitting
  <2>4. Serving'
    BY <2>1, <1>1, <1>2, <1>3, CapacityAssumption DEF Serving, Prefix
  <2>5. Tiers'
    BY <2>1, <1>1, SizeAssumption DEF Tiers
  <2> QED
    BY <2>2, <2>3, <2>4, <2>5, <1>4
<1>6. CASE bids[at].units < remaining
  <2>1. /\ pc' = pc /\ at' = at + 1 /\ clearingPrice' = bids[at].price
        /\ remaining' = remaining - bids[at].units
        /\ left' = Append(left, remaining')
        /\ UNCHANGED <<book, bids, marginalBids, marginalDemand, allocations, tier, granted>>
    BY <1>1, <1>2, <1>7, <1>6 DEF FindClearingPrice
  <2>2. remaining' \in 1..Capacity /\ remaining \in 1..Capacity
    BY <2>1, <1>2, <1>7, <1>6, CapacityAssumption
  <2>3. /\ left' \in Seq(0..Capacity)
        /\ Len(left') = Len(left) + 1
        /\ left'[Len(left) + 1] = remaining'
        /\ \A k \in 1..Len(left) : left'[k] = left[k]
    BY <2>1, <2>2, <1>2
  <2>4. TypeOK'
    BY <2>1, <2>2, <2>3, <1>7, CapacityAssumption DEF TypeOK
  <2>5. ~IsVirtual(bids[at])
    BY <2>2, <1>3, <1>6, CapacityAssumption DEF VirtualBid
  <2>6. \A k \in 1..at : ~IsVirtual(bids[k])
    BY <2>5, <1>1, <1>2 DEF Prefix
  <2>7. at + 1 <= Len(bids)
    BY <2>6, <1>2, <1>3 DEF IsVirtual, VirtualBid
  <2>8. Prefix'
    <3>1. \A k \in 1..Len(left') : left'[k] > 0
      BY <2>2, <2>3, <1>2 DEF Prefix
    <3>2. \A k \in 1..(Len(left') - 1) :
             left'[k + 1] = left'[k] - bids[k].units /\ ~IsVirtual(bids[k])
      BY <2>1, <2>3, <2>6, <1>1, <1>2 DEF Prefix
    <3> QED
      BY <3>1, <3>2, <2>1, <2>3, <2>7, <1>1, <1>2 DEF Prefix
  <2>9. Search' /\ VirtualBidNeverServed' /\ Splitting' /\ Serving'
    BY <2>1, <2>3, <1>1, <1>2 DEF Search, VirtualBidNeverServed, Splitting, Serving
  <2>10. Tiers'
    BY <2>1, <1>1, <1>2, SizeAssumption DEF Tiers
  <2> QED
    BY <2>4, <2>8, <2>9, <2>10, <1>4
<1> QED
  BY <1>2, <1>3, <1>5, <1>6 DEF Bid, TypeOK

LEMMA AllocateAboveInv == IInv /\ AllocateAbove => IInv'
<1> SUFFICES ASSUME IInv, AllocateAbove PROVE IInv'
  OBVIOUS
<1> USE DEF IInv
<1>1. /\ pc = "allocate" /\ at <= Len(bids) /\ at' = at + 1 /\ bids[at].price > clearingPrice
      /\ UNCHANGED <<book, bids, pc, clearingPrice, left, marginalBids, marginalDemand, tier>>
  BY DEF AllocateAbove, Considering
<1>2. at \in 1..Len(bids) /\ Len(left) \in Nat /\ Len(left) <= Len(bids) /\ Len(bids) \in Nat
  BY <1>1, SortedFacts DEF TypeOK, Prefix
<1>3. \A j, k \in 1..Len(bids) : j < k => bids[j].price >= bids[k].price
  BY <1>1, SortedFacts
<1>4. \A k \in 1..Len(bids) : bids[k].price \in Nat /\ bids[k].units \in Nat
  <2>1. \A k \in 1..Len(bids) : bids[k] \in Bid
    BY <1>1, SortedFacts
  <2> QED
    BY <2>1, WordAssumption DEF Bid
<1>5. PICK m \in 1..Len(left) : remaining = left[m] /\ (m = at \/ (m < at /\ bids[m].price <= clearingPrice))
  BY <1>1 DEF Serving
<1>6. clearingPrice = bids[Len(left)].price /\ clearingPrice \in Nat
  BY <1>1 DEF Search, TypeOK
<1>7. m = at
  <2> SUFFICES ASSUME m < at, bids[m].price <= clearingPrice PROVE FALSE
    BY <1>5
  <2>1. bids[m].price >= bids[at].price /\ bids[m].price \in Nat /\ bids[at].price \in Nat
    BY <1>2, <1>3, <1>4, <1>5
  <2> QED
    BY <2>1, <1>1, <1>6
<1>8. at < Len(left)
  BY <1>1, <1>2, <1>5, <1>6, <1>7, <1>4
<1>9. left[at + 1] = left[at] - bids[at].units /\ ~IsVirtual(bids[at]) /\ left[at + 1] > 0
  BY <1>1, <1>2, <1>8 DEF Prefix
<1>10. /\ remaining' = left[at + 1] /\ remaining' \in 1..Capacity /\ bids[at].units \in Nat
       /\ remaining \in 0..Capacity
       /\ remaining' = remaining - bids[at].units
       /\ granted' = granted + bids[at].units
  <2>1. remaining \in 0..Capacity
    BY DEF TypeOK
  <2>2. remaining = left[at] /\ bids[at].units \in Nat /\ bids[at].units < remaining
    BY <2>1, <1>2, <1>4, <1>5, <1>7, <1>9
  <2>3. remaining' = remaining - bids[at].units
    BY <2>1, <2>2 DEF AllocateAbove
  <2> QED
    BY <2>1, <2>2, <2>3, <1>9, CapacityAssumption DEF AllocateAbove, Allocate
<1>11. /\ allocations' \in Seq([ingress : 0..MaxBids, units : 0..(Word - 1)])
       /\ granted' \in Nat
       /\ VirtualBidNeverServed'
  <2>1. bids[at] \in Bid /\ bids[at].units \in 0..(Word - 1)
    BY <1>1, <1>2, SortedFacts DEF Bid
  <2> QED
    BY <2>1, <1>9, AllocateFacts DEF AllocateAbove
<1>12. TypeOK'
  <2>1. remaining' \in 0..Capacity /\ at' \in Nat \ {0}
    BY <1>1, <1>2, <1>10, CapacityAssumption
  <2> QED
    BY <2>1, <1>11, <1>1 DEF TypeOK
<1>13. Order' /\ Prefix' /\ Search' /\ Splitting'
  BY <1>1 DEF Order, Prefix, Search, Splitting, Submitted, RealBid, SortedByPrice
<1>14. Serving'
  <2>1. at + 1 \in 1..Len(left') /\ remaining' = left'[at + 1] /\ remaining' > 0 /\ at' = at + 1
    BY <1>1, <1>2, <1>8, <1>10, CapacityAssumption
  <2>2. granted' = Capacity - remaining'
    <3>1. granted = Capacity - remaining
      BY <1>1 DEF Serving
    <3> QED
      BY <3>1, <1>10, CapacityAssumption
  <2> QED
    BY <2>1, <2>2, <1>1, <1>2 DEF Serving
<1>15. Tiers'
  <2>1. tier[Len(tier)] \in Nat
    BY DEF TypeOK
  <2>2. (at - 1) * MaxUnits <= at * MaxUnits /\ (at - 1) * MaxUnits \in Nat /\ at' - 1 = at
    BY <1>1, <1>2, SizeAssumption
  <2>3. tier[Len(tier)] <= at * MaxUnits
    BY <2>1, <2>2, <1>1, SizeAssumption DEF Tiers
  <2> QED
    BY <2>2, <2>3, <1>1 DEF Tiers
<1> QED
  BY <1>11, <1>12, <1>13, <1>14, <1>15

LEMMA CollectMarginalInv == IInv /\ CollectMarginal => IInv'
<1> SUFFICES ASSUME IInv, CollectMarginal PROVE IInv'
  OBVIOUS
<1> USE DEF IInv
<1> DEFINE units == RealUnits(bids[at])
<1>1. /\ pc = "allocate" /\ at <= Len(bids) /\ at' = at + 1 /\ bids[at].price = clearingPrice
      /\ marginalBids' = Append(marginalBids, bids[at])
      /\ marginalDemand' = (marginalDemand + units) % Word
      /\ tier' = Append(tier, tier[Len(tier)] + units)
      /\ UNCHANGED <<book, bids, pc, clearingPrice, left, remaining, allocations, granted>>
  BY DEF CollectMarginal, Considering
<1>2. /\ at \in 1..Len(bids) /\ Len(bids) \in Nat
      /\ bids[at] \in Bid /\ (~IsVirtual(bids[at]) => bids[at].units <= MaxUnits)
  BY <1>1, SortedFacts DEF TypeOK
<1>3. /\ units \in 0..MaxUnits /\ units = RealUnits(bids[at])
      /\ IsVirtual(bids[at]) \/ bids[at].units <= MaxUnits
      /\ clearingPrice \in Nat
  <2>1. clearingPrice \in Nat
    BY DEF TypeOK
  <2>2. bids[at].units \in Nat
    BY <1>2, WordAssumption DEF Bid
  <2> QED
    BY <2>1, <2>2, <1>2, SizeAssumption DEF RealUnits
<1> HIDE DEF units
<1>4. tier \in Seq(Nat) /\ marginalBids \in Seq(Bid) /\ Len(tier) \in Nat \ {0} /\ tier[Len(tier)] \in Nat
  BY EmptySeq DEF TypeOK
<1>5. marginalDemand' \in 0..(Word - 1) /\ marginalDemand \in Nat
  <2>1. marginalDemand \in 0..(Word - 1)
    BY DEF TypeOK
  <2>2. marginalDemand + units \in Nat /\ marginalDemand \in Nat /\ Word \in Nat \ {0}
    BY <2>1, <1>3, WordAssumption, SizeAssumption, CapacityAssumption
  <2> QED
    BY <2>2, <1>1, ModRange
<1>6. /\ marginalBids' \in Seq(Bid) /\ Len(marginalBids') = Len(marginalBids) + 1
      /\ \A j \in 1..Len(marginalBids) : marginalBids'[j] = marginalBids[j]
      /\ marginalBids'[Len(marginalBids) + 1] = bids[at]
      /\ Len(marginalBids) \in Nat
  BY <1>1, <1>2, <1>4
<1>7. /\ tier' \in Seq(Nat) /\ tier' # <<>> /\ Len(tier') = Len(tier) + 1
      /\ \A j \in 1..Len(tier) : tier'[j] = tier[j]
      /\ tier'[Len(tier) + 1] = tier[Len(tier)] + units
  <2>1. tier[Len(tier)] + units \in Nat
    BY <1>3, <1>4, SizeAssumption
  <2> QED
    BY <2>1, <1>1, <1>4, AppendProperties
<1>8. TypeOK'
  BY <1>1, <1>2, <1>5, <1>6, <1>7 DEF TypeOK
<1>9. Order' /\ Prefix' /\ Search' /\ Splitting' /\ VirtualBidNeverServed'
  BY <1>1 DEF Order, Prefix, Search, Splitting, VirtualBidNeverServed, Submitted, RealBid, SortedByPrice
<1>10. Serving'
  <2>1. PICK m \in 1..Len(left) : remaining = left[m] /\ (m = at \/ (m < at /\ bids[m].price <= clearingPrice))
    BY <1>1 DEF Serving
  <2>2. m < at + 1 /\ bids[m].price <= clearingPrice
    BY <2>1, <1>1, <1>2, <1>3
  <2>3. m \in 1..Len(left') /\ remaining' = left'[m] /\ m < at' /\ bids'[m].price <= clearingPrice'
    BY <2>1, <2>2, <1>1
  <2>4. remaining' > 0 /\ granted' = Capacity - remaining'
    BY <1>1 DEF Serving
  <2>5. at' <= Len(bids') + 1
    BY <1>1, <1>2
  <2> QED
    BY <2>3, <2>4, <2>5, <1>1 DEF Serving
<1>11. tier[Len(tier)] + units <= at * MaxUnits
  <2>1. tier[Len(tier)] <= (at - 1) * MaxUnits
    BY <1>1 DEF Tiers
  <2>2. (at - 1) * MaxUnits + MaxUnits = at * MaxUnits
    BY <1>2, SizeAssumption
  <2>3. (at - 1) * MaxUnits \in Nat
    BY <1>2, SizeAssumption
  <2> HIDE DEF Tiers
  <2> QED
    BY <2>1, <2>2, <2>3, <1>3, <1>4, SizeAssumption
<1>12. ASSUME NoWrap PROVE marginalDemand' = tier'[Len(tier')]
  <2>1. at <= MaxBids + 1
    <3>1. PICK n \in 1..MaxBids : book \in [1..n -> Offer]
      BY DEF TypeOK, Books
    <3>2. Len(book) = n
      BY <3>1, SizeAssumption
    <3> QED
      BY <3>2, <1>1, <1>2, SizeAssumption DEF Order
  <2>2. at * MaxUnits <= (MaxBids + 1) * MaxUnits
    BY <2>1, <1>2, SizeAssumption, MulMono
  <2>3. at * MaxUnits \in Nat /\ (MaxBids + 1) * MaxUnits \in Nat /\ (MaxBids + 1) * MaxUnits < Word
    BY <1>2, <1>12, SizeAssumption DEF NoWrap
  <2>4. tier[Len(tier)] + units < Word /\ tier[Len(tier)] + units \in Nat
    BY <2>2, <2>3, <1>3, <1>4, <1>11, WordAssumption
  <2>5. marginalDemand = tier[Len(tier)]
    BY <1>12 DEF Tiers
  <2> QED
    BY <2>4, <2>5, <1>1, <1>4, <1>7, ModSmall, WordAssumption
<1>13. Tiers'
  <2>1. Len(tier) = Len(marginalBids) + 1
    BY DEF Tiers
  <2>2. \A j \in 1..Len(marginalBids') : tier'[j + 1] = tier'[j] + RealUnits(marginalBids'[j])
    <3>1. \A j \in 1..Len(marginalBids) : tier[j + 1] = tier[j] + RealUnits(marginalBids[j])
      BY DEF Tiers
    <3>2. ASSUME NEW j \in 1..Len(marginalBids)
          PROVE  tier'[j + 1] = tier'[j] + RealUnits(marginalBids'[j])
      <4>1. j \in 1..Len(tier) /\ j + 1 \in 1..Len(tier)
        BY <2>1, <1>6
      <4> QED
        BY <4>1, <3>1, <1>6, <1>7
    <3>3. tier'[Len(tier) + 1] = tier'[Len(tier)] + RealUnits(marginalBids'[Len(tier)])
      BY <2>1, <1>3, <1>4, <1>6, <1>7
    <3>4. ASSUME NEW j \in 1..Len(marginalBids')
          PROVE  j \in 1..Len(marginalBids) \/ j = Len(tier)
      BY <2>1, <1>6
    <3> QED
      BY <3>2, <3>3, <3>4
  <2>3. \A j \in 1..Len(tier') : tier'[j] <= tier'[Len(tier')]
    <3>1. \A j \in 1..Len(tier) : tier[j] <= tier[Len(tier)] /\ tier[j] \in Nat
      BY <1>4 DEF Tiers
    <3>2. tier[Len(tier)] <= tier'[Len(tier')] /\ tier'[Len(tier')] \in Nat
      BY <1>3, <1>4, <1>7, SizeAssumption
    <3>3. ASSUME NEW j \in 1..Len(tier) PROVE tier'[j] <= tier'[Len(tier')]
      <4>1. tier'[j] = tier[j]
        BY <1>7
      <4> QED
        BY <4>1, <3>1, <3>2, <1>4
    <3>4. ASSUME NEW j \in 1..Len(tier') PROVE j \in 1..Len(tier) \/ j = Len(tier')
      BY <1>4, <1>7
    <3> QED
      BY <3>2, <3>3, <3>4
  <2>4. \A j \in 1..Len(marginalBids') : IsVirtual(marginalBids'[j]) \/ marginalBids'[j].units <= MaxUnits
    <3>1. \A j \in 1..Len(marginalBids) : IsVirtual(marginalBids[j]) \/ marginalBids[j].units <= MaxUnits
      BY DEF Tiers
    <3> QED
      BY <3>1, <1>3, <1>6
  <2>5. tier'[Len(tier')] <= (at' - 1) * MaxUnits
    BY <1>1, <1>2, <1>4, <1>7, <1>11
  <2> QED
    BY <2>1, <2>2, <2>3, <2>4, <2>5, <1>1, <1>6, <1>7, <1>12 DEF Tiers
<1> QED
  BY <1>8, <1>9, <1>10, <1>13

LEMMA PassOverInv == IInv /\ PassOver => IInv'
<1> SUFFICES ASSUME IInv, PassOver PROVE IInv'
  OBVIOUS
<1> USE DEF IInv
<1>1. /\ pc = "allocate" /\ at <= Len(bids) /\ at' = at + 1 /\ bids[at].price < clearingPrice
      /\ UNCHANGED <<book, bids, pc, clearingPrice, left, remaining, marginalBids,
                     marginalDemand, allocations, tier, granted>>
  BY DEF PassOver, Considering
<1>2. at \in 1..Len(bids) /\ Len(bids) \in Nat /\ bids[at] \in Bid
  BY <1>1, SortedFacts DEF TypeOK
<1>3. TypeOK' /\ Order' /\ Prefix' /\ Search' /\ Splitting' /\ VirtualBidNeverServed'
  BY <1>1, <1>2 DEF TypeOK, Order, Prefix, Search, Splitting, VirtualBidNeverServed, Submitted,
                    RealBid, SortedByPrice
<1>4. Serving'
  <2>1. PICK m \in 1..Len(left) : remaining = left[m] /\ (m = at \/ (m < at /\ bids[m].price <= clearingPrice))
    BY <1>1 DEF Serving
  <2>2. bids[at].price \in Nat /\ clearingPrice \in Nat
    BY <1>2 DEF Bid, TypeOK
  <2>3. m \in 1..Len(left') /\ remaining' = left'[m] /\ m < at' /\ bids'[m].price <= clearingPrice'
    BY <2>1, <2>2, <1>1, <1>2
  <2>4. remaining' > 0 /\ granted' = Capacity - remaining' /\ at' <= Len(bids') + 1
    BY <1>1, <1>2 DEF Serving
  <2> QED
    BY <2>3, <2>4, <1>1 DEF Serving
<1>5. Tiers'
  <2>1. tier[Len(tier)] \in Nat
    BY EmptySeq DEF TypeOK
  <2>2. (at - 1) * MaxUnits <= at * MaxUnits /\ (at - 1) * MaxUnits \in Nat /\ at' - 1 = at
    BY <1>1, <1>2, SizeAssumption
  <2>3. tier[Len(tier)] <= at * MaxUnits
    BY <2>1, <2>2, <1>1, SizeAssumption DEF Tiers
  <2> QED
    BY <2>2, <2>3, <1>1 DEF Tiers
<1> QED
  BY <1>3, <1>4, <1>5

LEMMA EndAllocationInv == IInv /\ EndAllocation => IInv'
<1> SUFFICES ASSUME IInv, EndAllocation PROVE IInv'
  OBVIOUS
<1> USE DEF IInv
<1>1. /\ pc = "allocate" /\ at' = 1
      /\ pc' = IF marginalDemand > 0 /\ remaining > 0 THEN "split" ELSE "done"
      /\ UNCHANGED <<book, bids, clearingPrice, left, remaining, marginalBids,
                     marginalDemand, allocations, tier, granted>>
  BY DEF EndAllocation
<1>2. TypeOK' /\ Order' /\ Prefix' /\ Search' /\ Serving' /\ Tiers' /\ VirtualBidNeverServed'
  BY <1>1 DEF TypeOK, Order, Prefix, Search, Serving, Tiers, VirtualBidNeverServed, Submitted,
              RealBid, SortedByPrice
<1>3. granted = Capacity - remaining /\ remaining \in 0..Capacity /\ granted \in Nat
  BY <1>1 DEF Serving, TypeOK
<1>4. 0 <= tier[1] * remaining /\ Len(marginalBids) \in Nat
      /\ (granted - (Capacity - remaining)) * marginalDemand = 0
  <2>1. tier[1] \in Nat /\ marginalDemand \in 0..(Word - 1) /\ Len(marginalBids) \in Nat
    BY EmptySeq DEF TypeOK
  <2> QED
    BY <2>1, <1>3, CapacityAssumption, WordAssumption
<1>5. Splitting'
  BY <1>1, <1>3, <1>4, CapacityAssumption DEF Splitting
<1> QED
  BY <1>2, <1>5

LEMMA SplitMarginalInv == IInv /\ SplitMarginal => IInv'
<1> SUFFICES ASSUME IInv, SplitMarginal PROVE IInv'
  OBVIOUS
<1> USE DEF IInv
<1> DEFINE bid == marginalBids[at]
           awarded == granted - (Capacity - remaining)
<1>1. /\ pc = "split" /\ at <= Len(marginalBids) /\ at' = at + 1
      /\ IF IsVirtual(bid) THEN UNCHANGED <<allocations, granted>> ELSE Allocate(bid, Share(bid))
      /\ UNCHANGED <<book, bids, pc, remaining, clearingPrice, marginalBids, marginalDemand, left, tier>>
  BY DEF SplitMarginal
<1>2. marginalBids \in Seq(Bid) /\ at \in Nat \ {0} /\ tier \in Seq(Nat)
      /\ granted \in Nat /\ remaining \in 0..Capacity /\ marginalDemand \in 0..(Word - 1)
  BY DEF TypeOK
<1>3. /\ at \in 1..Len(marginalBids) /\ Len(marginalBids) \in Nat
      /\ bid \in Bid /\ bid.units \in 0..(Word - 1) /\ bid.units \in Nat
      /\ marginalDemand \in Nat \ {0}
      /\ Capacity \in Nat /\ Word \in Nat \ {0} /\ remaining \in Nat
  <2>1. at \in 1..Len(marginalBids) /\ Len(marginalBids) \in Nat /\ bid \in Bid
    BY <1>1, <1>2
  <2>2. marginalDemand > 0
    BY <1>1 DEF Splitting
  <2>3. bid.units \in 0..(Word - 1)
    BY <2>1 DEF Bid
  <2> QED
    BY <2>1, <2>2, <2>3, <1>2, CapacityAssumption, WordAssumption
<1>4. /\ tier[at] \in Nat
      /\ tier[at + 1] = tier[at] + RealUnits(bid)
      /\ IsVirtual(bid) \/ bid.units <= MaxUnits
  BY <1>2, <1>3 DEF Tiers
<1> HIDE DEF bid
<1>5. /\ Share(bid) \in 0..(Word - 1)
      /\ Share(bid) <= ((bid.units * remaining) % Word) \div marginalDemand
  <2>1. bid.units * remaining \in Nat
    BY <1>2, <1>3
  <2>2. (bid.units * remaining) % Word \in Nat
    <3>1. PICK product \in Nat : product = bid.units * remaining
      BY <2>1
    <3>2. product % Word \in Nat
      BY <1>3, ModRange
    <3> QED
      BY <3>1, <3>2
  <2>3. ((bid.units * remaining) % Word) \div marginalDemand \in Nat
    BY <2>2, <1>3, DivBound
  <2> QED
    BY <2>3, <1>3 DEF Share, Capped
<1>6. /\ allocations' \in Seq([ingress : 0..MaxBids, units : 0..(Word - 1)])
      /\ granted' \in Nat
      /\ VirtualBidNeverServed'
      /\ granted' = IF IsVirtual(bid) THEN granted ELSE granted + Share(bid)
  <2>1. CASE IsVirtual(bid)
    BY <2>1, <1>1 DEF TypeOK, VirtualBidNeverServed
  <2>2. CASE ~IsVirtual(bid)
    BY <2>2, <1>1, <1>3, <1>5, AllocateFacts
  <2> QED
    BY <2>1, <2>2
<1>7. TypeOK'
  BY <1>1, <1>2, <1>6 DEF TypeOK
<1>8. Order' /\ Prefix' /\ Search' /\ Serving' /\ Tiers'
  BY <1>1 DEF Order, Prefix, Search, Serving, Tiers, Submitted, RealBid, SortedByPrice
<1>9. ASSUME NoWrap
      PROVE  /\ granted' >= Capacity - remaining
             /\ (granted' - (Capacity - remaining)) * marginalDemand <= tier[at + 1] * remaining
  <2>1. awarded \in Nat /\ awarded * marginalDemand <= tier[at] * remaining
    BY <1>1, <1>2, <1>3, <1>9 DEF Splitting
  <2>2. CASE IsVirtual(bid)
    <3>1. granted' = granted /\ tier[at + 1] = tier[at]
      BY <2>2, <1>4, <1>6 DEF RealUnits
    <3>2. awarded >= 0 /\ awarded * marginalDemand <= tier[at + 1] * remaining
      BY <2>1, <3>1
    <3> QED
      BY <3>1, <3>2, <1>2, <1>3
  <2>3. CASE ~IsVirtual(bid)
    <3>1. bid.units * remaining < Word /\ bid.units * remaining \in Nat
      <4>1. remaining * bid.units <= Capacity * bid.units
        BY <1>2, <1>3, MulMono
      <4>2. bid.units * Capacity <= MaxUnits * Capacity
        BY <2>3, <1>3, <1>4, SizeAssumption, MulMono
      <4>3. MaxUnits * Capacity < Word /\ MaxUnits * Capacity \in Nat
        BY <1>9, SizeAssumption, CapacityAssumption DEF NoWrap
      <4> QED
        BY <4>1, <4>2, <4>3, <1>2, <1>3
    <3>2. Share(bid) * marginalDemand <= bid.units * remaining
      <4>1. Share(bid) <= (bid.units * remaining) \div marginalDemand
        BY <3>1, <1>3, <1>5, ModSmall
      <4>2. /\ (bid.units * remaining) \div marginalDemand \in Nat
            /\ ((bid.units * remaining) \div marginalDemand) * marginalDemand <= bid.units * remaining
        BY <3>1, <1>3, DivBound
      <4>3. Share(bid) * marginalDemand <= ((bid.units * remaining) \div marginalDemand) * marginalDemand
        BY <4>1, <4>2, <1>3, <1>5, MulMono
      <4>4. PICK shared \in Nat : shared = Share(bid) * marginalDemand
        BY <1>3, <1>5, MulNat
      <4>5. PICK exact \in Nat : exact = ((bid.units * remaining) \div marginalDemand) * marginalDemand
        BY <4>2, <1>3, MulNat
      <4>6. PICK asked \in Nat : asked = bid.units * remaining
        BY <3>1
      <4>7. shared <= exact
        BY <4>3, <4>4, <4>5
      <4>8. exact <= asked
        BY <4>2, <4>5, <4>6
      <4>9. shared <= asked
        BY <4>7, <4>8
      <4> QED
        BY <4>4, <4>6, <4>9
    <3>3. (awarded + Share(bid)) * marginalDemand = awarded * marginalDemand + Share(bid) * marginalDemand
      BY <2>1, <1>3, <1>5, Distributes
    <3>4. tier[at + 1] * remaining = tier[at] * remaining + bid.units * remaining
      BY <2>3, <1>2, <1>3, <1>4, Distributes DEF RealUnits
    <3>5. granted' - (Capacity - remaining) = awarded + Share(bid)
      BY <2>3, <1>2, <1>3, <1>5, <1>6
    <3>6. (awarded + Share(bid)) * marginalDemand <= tier[at + 1] * remaining
      <4>1. /\ awarded * marginalDemand \in Nat /\ Share(bid) * marginalDemand \in Nat
            /\ tier[at] * remaining \in Nat /\ bid.units * remaining \in Nat
        <5> HIDE DEF awarded
        <5>1. Share(bid) \in Nat /\ awarded \in Nat
          BY <2>1, <1>3, <1>5
        <5> QED
          BY <5>1, <1>3, <1>4, MulNat
      <4> QED
        BY <4>1, <2>1, <3>2, <3>3, <3>4
    <3> QED
      BY <3>5, <3>6, <2>1, <2>3, <1>2, <1>3, <1>5, <1>6
  <2> QED
    BY <2>2, <2>3
<1>10. Splitting'
  BY <1>1, <1>3, <1>9 DEF Splitting
<1> QED
  BY <1>6, <1>7, <1>8, <1>10

LEMMA EndSplitInv == IInv /\ EndSplit => IInv'
<1> SUFFICES ASSUME IInv, EndSplit PROVE IInv'
  OBVIOUS
<1> USE DEF IInv
<1>1. /\ pc = "split" /\ at > Len(marginalBids) /\ pc' = "done"
      /\ UNCHANGED <<book, bids, at, remaining, clearingPrice, marginalBids, marginalDemand,
                     allocations, left, tier, granted>>
  BY DEF EndSplit
<1>2. TypeOK' /\ Order' /\ Prefix' /\ Search' /\ Serving' /\ Tiers' /\ VirtualBidNeverServed'
  BY <1>1 DEF TypeOK, Order, Prefix, Search, Serving, Tiers, VirtualBidNeverServed, Submitted,
              RealBid, SortedByPrice
<1>3. ASSUME NoWrap PROVE granted <= Capacity
  <2>1. /\ granted \in Nat /\ remaining \in 0..Capacity /\ Capacity \in Nat
        /\ at \in Nat /\ tier \in Seq(Nat) /\ marginalBids \in Seq(Bid)
    BY CapacityAssumption DEF TypeOK
  <2>2. /\ at = Len(tier) /\ marginalDemand = tier[at] /\ marginalDemand > 0
        /\ (granted - (Capacity - remaining)) * marginalDemand <= tier[at] * remaining
    BY <2>1, <1>1, <1>3 DEF Splitting, Tiers
  <2>3. marginalDemand \in Nat \ {0}
    BY <2>2, WordAssumption DEF TypeOK
  <2>4. (granted - (Capacity - remaining)) * marginalDemand <= remaining * marginalDemand
    BY <2>1, <2>2, <2>3
  <2>5. granted - (Capacity - remaining) <= remaining
    BY <2>1, <2>3, <2>4, MulCancel
  <2> QED
    BY <2>1, <2>5
<1>4. Splitting'
  BY <1>1, <1>3 DEF Splitting
<1> QED
  BY <1>2, <1>4

(***************************************************************************)
(* The strengthened invariant holds in every state the two passes reach.   *)
(***************************************************************************)
THEOREM Inductive == Spec => []IInv
<1>1. Init => IInv
  BY InitInv
<1>2. IInv /\ [Next]_vars => IInv'
  <2> SUFFICES ASSUME IInv, [Next]_vars PROVE IInv'
    OBVIOUS
  <2>1. CASE UNCHANGED vars
    BY <2>1 DEF vars, IInv, TypeOK, Order, Prefix, Search, Serving, Tiers, Splitting,
                VirtualBidNeverServed, Submitted, RealBid, SortedByPrice
  <2>2. CASE Return
    BY <2>1, <2>2 DEF Return
  <2> QED
    BY <2>1, <2>2, SortBidsInv, FindClearingPriceInv, AllocateAboveInv, CollectMarginalInv,
       PassOverInv, EndAllocationInv, SplitMarginalInv, EndSplitInv DEF Next
<1> QED
  BY <1>1, <1>2, PTL DEF Spec

-----------------------------------------------------------------------------
(***************************************************************************)
(* Every variable keeps its type.                                          *)
(***************************************************************************)
THEOREM TypeCorrect == Spec => []TypeOK
<1>1. IInv => TypeOK
  BY DEF IInv
<1> QED
  BY <1>1, Inductive, PTL

(***************************************************************************)
(* The virtual bid is never allocated capacity.                            *)
(***************************************************************************)
THEOREM VirtualUnserved == Spec => []VirtualBidNeverServed
<1>1. IInv => VirtualBidNeverServed
  BY DEF IInv
<1> QED
  BY <1>1, Inductive, PTL

(***************************************************************************)
(* The clearing price never falls below the reservation price.             *)
(***************************************************************************)
THEOREM PriceFloor == Spec => []PriceFloorHolds
<1>1. IInv => PriceFloorHolds
  <2> SUFFICES ASSUME IInv, pc \notin {"sort", "price"} PROVE clearingPrice >= ReservationPrice
    BY DEF PriceFloorHolds
  <2> USE DEF IInv
  <2>1. PICK v \in 1..Len(bids) : bids[v] = VirtualBid
    BY SortedFacts
  <2>2. /\ clearingPrice = bids[Len(left)].price
        /\ Len(left) \in 1..Len(bids)
        /\ \A k \in 1..(Len(left) - 1) : ~IsVirtual(bids[k])
        /\ Len(left) \in Nat /\ Len(bids) \in Nat
    BY SortedFacts DEF TypeOK, Search, Prefix
  <2>3. v >= Len(left)
    BY <2>1, <2>2 DEF IsVirtual, VirtualBid
  <2>4. bids[Len(left)].price >= bids[v].price
    <3>1. bids[Len(left)] \in Bid /\ \A j, k \in 1..Len(bids) : j < k => bids[j].price >= bids[k].price
      BY <2>2, SortedFacts
    <3>2. bids[Len(left)].price \in Nat
      BY <3>1 DEF Bid
    <3> QED
      BY <2>1, <2>2, <2>3, <3>1, <3>2
  <2> QED
    BY <2>1, <2>2, <2>4 DEF VirtualBid
<1> QED
  BY <1>1, Inductive, PTL

(***************************************************************************)
(* The auction never hands out more than the capacity, provided that the   *)
(* bids are small enough for the 64-bit products.                          *)
(***************************************************************************)
THEOREM CapacitySafe == ASSUME NoWrap PROVE Spec => []CapacityRespected
<1>1. IInv => CapacityRespected
  <2> SUFFICES ASSUME IInv PROVE granted <= Capacity
    BY DEF CapacityRespected
  <2> USE DEF IInv
  <2>1. /\ granted \in Nat /\ remaining \in 0..Capacity /\ Capacity \in Nat \ {0}
        /\ pc \in {"sort", "price", "allocate", "split", "done"}
        /\ at \in Nat \ {0} /\ tier \in Seq(Nat) /\ marginalBids \in Seq(Bid)
    BY CapacityAssumption DEF TypeOK
  <2>2. CASE pc \in {"sort", "price", "allocate", "done"}
    BY <2>1, <2>2 DEF Search, Serving, Splitting
  <2>3. CASE pc = "split"
    <3>1. /\ at \in 1..Len(tier) /\ tier[at] \in Nat /\ tier[at] <= marginalDemand
          /\ marginalDemand > 0
          /\ (granted - (Capacity - remaining)) * marginalDemand <= tier[at] * remaining
      BY <2>1, <2>3 DEF Splitting, Tiers
    <3>2. marginalDemand \in Nat \ {0}
      BY <3>1, WordAssumption DEF TypeOK
    <3>3. tier[at] * remaining <= marginalDemand * remaining
      BY <2>1, <3>1, <3>2, MulMono
    <3>4. (granted - (Capacity - remaining)) * marginalDemand <= remaining * marginalDemand
      <4>1. PICK given \in Int : given = granted - (Capacity - remaining)
        BY <2>1
      <4>2. given * marginalDemand \in Int /\ tier[at] * remaining \in Int
            /\ marginalDemand * remaining = remaining * marginalDemand
            /\ remaining * marginalDemand \in Int
        BY <2>1, <3>1, <3>2, <4>1
      <4> QED
        BY <3>1, <3>3, <4>1, <4>2
    <3>5. granted - (Capacity - remaining) <= remaining
      BY <2>1, <3>2, <3>4, MulCancel
    <3> QED
      BY <2>1, <3>5
  <2> QED
    BY <2>1, <2>2, <2>3
<1> QED
  BY <1>1, Inductive, PTL

-----------------------------------------------------------------------------
(***************************************************************************)
(* Whom the records are of.  The second pass has one for each bid above    *)
(* the clearing price among those before number at, and keeps the bids at  *)
(* the price; the last loop has one for each of these but the virtual bid. *)
(***************************************************************************)
Rec(b, units) == [ingress |-> b.ingress, units |-> units]
Seen(k) == {bids[j] : j \in 1..(k - 1)}
Level(S) == {b \in S : b.price = clearingPrice}
AboveRecords(S) == {Rec(b, b.units) : b \in {x \in S : x.price > clearingPrice}}
MarginalRecords(S) == {Rec(b, Share(b)) : b \in {x \in S : ~IsVirtual(x)}}
Shared(k) == {marginalBids[j] : j \in 1..(k - 1)}

Records ==
  /\ pc = "allocate" =>
       /\ Range(allocations) = AboveRecords(Seen(at))
       /\ Range(marginalBids) = Level(Seen(at))
  /\ pc \in {"split", "done"} => Range(marginalBids) = Level(Submitted)
  /\ pc = "split" => Range(allocations) = AboveRecords(Submitted) \cup MarginalRecords(Shared(at))
  /\ pc = "done" =>
       Range(allocations) = AboveRecords(Submitted)
          \cup (IF marginalDemand = 0 THEN {} ELSE MarginalRecords(Level(Submitted)))

(***************************************************************************)
(* No bid has two records, or is kept twice.                               *)
(***************************************************************************)
Once ==
  /\ \A k, l \in DOMAIN allocations : allocations[k].ingress = allocations[l].ingress => k = l
  /\ \A k, l \in DOMAIN marginalBids : marginalBids[k] = marginalBids[l] => k = l

LEMMA BookFacts ==
  ASSUME book \in Books
  PROVE  /\ Len(book) \in Nat /\ DOMAIN book = 1..Len(book)
         /\ \A i \in 1..Len(book) :
              /\ book[i].units \in Nat \ {0} /\ book[i].units <= MaxUnits /\ book[i].price \in Nat
              /\ RealBid(i) \in Submitted /\ ~IsVirtual(RealBid(i)) /\ RealBid(i).ingress = i
              /\ RealBid(i).units = book[i].units /\ RealBid(i).price = book[i].price
         /\ \A b \in Submitted :
              ~IsVirtual(b) => b.ingress \in 1..Len(book) /\ b = RealBid(b.ingress)
<1>1. PICK n \in 1..MaxBids : book \in [1..n -> Offer]
  BY DEF Books
<1>2. Len(book) = n /\ n \in Nat /\ DOMAIN book = 1..n
  BY <1>1, SizeAssumption
<1>3. ASSUME NEW i \in 1..n
      PROVE  /\ book[i].units \in Nat \ {0} /\ book[i].units <= MaxUnits /\ book[i].price \in Nat
             /\ RealBid(i) \in Submitted /\ ~IsVirtual(RealBid(i)) /\ RealBid(i).ingress = i
             /\ RealBid(i).units = book[i].units /\ RealBid(i).price = book[i].price
  <2>1. book[i].units \in 1..MaxUnits /\ book[i].price \in 1..MaxPrice
    BY <1>1 DEF Offer
  <2> QED
    BY <2>1, <1>2, PriceAssumption, SizeAssumption DEF RealBid, Submitted, IsVirtual, VirtualIngress
<1>4. ASSUME NEW b \in Submitted, ~IsVirtual(b)
      PROVE  b.ingress \in 1..n /\ b = RealBid(b.ingress)
  <2>1. b # VirtualBid
    BY <1>4 DEF IsVirtual, VirtualBid
  <2>2. PICK i \in 1..n : b = RealBid(i)
    BY <1>2, <2>1 DEF Submitted
  <2> QED
    BY <1>3, <2>2
<1> QED
  BY <1>2, <1>3, <1>4

(***************************************************************************)
(* A bid is told by its ingress port.                                      *)
(***************************************************************************)
LEMMA IngressTells ==
  ASSUME book \in Books, NEW b \in Submitted, NEW c \in Submitted, b.ingress = c.ingress
  PROVE  b = c
<1>1. CASE IsVirtual(b)
  <2>1. IsVirtual(c)
    BY <1>1 DEF IsVirtual
  <2> QED
    BY <1>1, <2>1, SubmittedFacts
<1>2. CASE ~IsVirtual(b)
  <2>1. ~IsVirtual(c)
    BY <1>2 DEF IsVirtual
  <2> QED
    BY <1>2, <2>1, BookFacts
<1> QED
  BY <1>1, <1>2

(***************************************************************************)
(* The pass goes through the submitted bids one by one.                    *)
(***************************************************************************)
LEMMA SeenFacts ==
  ASSUME TypeOK, Order, pc # "sort"
  PROVE  /\ Seen(1) = {} /\ Seen(Len(bids) + 1) = Submitted
         /\ Len(bids) \in Nat
         /\ \A k \in 1..Len(bids) :
              /\ bids[k] \in Submitted /\ bids[k] \notin Seen(k) /\ Seen(k) \subseteq Submitted
              /\ Seen(k + 1) = Seen(k) \cup {bids[k]}
<1>1. /\ bids \in [1..Len(bids) -> Submitted]
      /\ \A j, k \in 1..Len(bids) : bids[j] = bids[k] => j = k
      /\ \A b \in Submitted : \E k \in 1..Len(bids) : bids[k] = b
  BY DEF Order, Bijection, Injection, Surjection, IsInjective
<1>2. Len(bids) \in Nat
  BY LenProperties DEF TypeOK
<1>3. Seen(1) = {} /\ Seen(Len(bids) + 1) = Submitted
  <2>1. 1..(1 - 1) = {} /\ 1..((Len(bids) + 1) - 1) = 1..Len(bids)
    BY <1>2
  <2> QED
    BY <1>1, <2>1 DEF Seen
<1>4. ASSUME NEW k \in 1..Len(bids)
      PROVE  /\ bids[k] \in Submitted /\ bids[k] \notin Seen(k) /\ Seen(k) \subseteq Submitted
             /\ Seen(k + 1) = Seen(k) \cup {bids[k]}
  <2>1. 1..(k - 1) \subseteq 1..Len(bids) /\ k \notin 1..(k - 1)
    BY <1>2
  <2>2. 1..((k + 1) - 1) = 1..(k - 1) \cup {k}
    BY <1>2
  <2>3. Seen(k + 1) = {bids[j] : j \in 1..(k - 1) \cup {k}}
    BY <2>2 DEF Seen
  <2> QED
    BY <1>1, <2>1, <2>3 DEF Seen
<1> QED
  BY <1>2, <1>3, <1>4

LEMMA AppendedRange ==
  ASSUME NEW T, NEW s \in Seq(T), NEW x \in T
  PROVE  /\ Range(Append(s, x)) = Range(s) \cup {x}
         /\ DOMAIN Append(s, x) = 1..(Len(s) + 1) /\ DOMAIN s = 1..Len(s) /\ Len(s) \in Nat
         /\ Append(s, x)[Len(s) + 1] = x
         /\ \A k \in 1..Len(s) : Append(s, x)[k] = s[k]
<1>1. /\ Append(s, x) \in Seq(T) /\ Len(Append(s, x)) = Len(s) + 1
      /\ \A k \in 1..Len(s) : Append(s, x)[k] = s[k]
      /\ Append(s, x)[Len(s) + 1] = x
  BY AppendProperties
<1>2. DOMAIN s = 1..Len(s) /\ Len(s) \in Nat /\ DOMAIN Append(s, x) = 1..(Len(s) + 1)
  BY <1>1, LenProperties
<1>3. 1..(Len(s) + 1) = 1..Len(s) \cup {Len(s) + 1}
  BY <1>2
<1>4. Range(Append(s, x)) = {Append(s, x)[k] : k \in 1..Len(s) \cup {Len(s) + 1}}
  BY <1>2, <1>3 DEF Range
<1>5. Range(Append(s, x)) = Range(s) \cup {x}
  BY <1>1, <1>2, <1>4 DEF Range
<1> QED
  BY <1>1, <1>2, <1>5

LEMMA EmptyRange == Range(<<>>) = {} /\ DOMAIN <<>> = {}
<1>1. <<>> \in Seq({}) /\ Len(<<>>) = 0
  BY EmptySeq
<1>2. DOMAIN <<>> = 1..0
  BY <1>1, LenProperties
<1>3. DOMAIN <<>> = {}
  BY <1>2
<1> QED
  BY <1>3 DEF Range

(***************************************************************************)
(* What belongs to the bids alone stays as they are.                       *)
(***************************************************************************)
LEMMA SameBids ==
  ASSUME UNCHANGED <<book, bids, clearingPrice>>
  PROVE  /\ Submitted' = Submitted
         /\ \A k : Seen(k)' = Seen(k)
         /\ \A S : Level(S)' = Level(S) /\ AboveRecords(S)' = AboveRecords(S)
BY DEF Submitted, RealBid, Seen, Level, AboveRecords

(***************************************************************************)
(* A record is added for a bid that has none.                              *)
(***************************************************************************)
LEMMA OnceMore ==
  ASSUME TypeOK, Once, NEW b \in Bid, NEW units \in 0..(Word - 1), Allocate(b, units),
         \A r \in Range(allocations) : r.ingress # b.ingress, UNCHANGED marginalBids
  PROVE  Once' /\ Range(allocations') = Range(allocations) \cup {Rec(b, units)}
<1> DEFINE T == [ingress : 0..MaxBids, units : 0..(Word - 1)]
           s == allocations
<1>1. /\ s \in Seq(T) /\ Rec(b, units) \in T /\ allocations' = Append(s, Rec(b, units))
      /\ Rec(b, units).ingress = b.ingress
  BY DEF TypeOK, Bid, Allocate, Rec
<1> HIDE DEF T
<1>2. /\ Range(allocations') = Range(s) \cup {Rec(b, units)}
      /\ DOMAIN allocations' = 1..(Len(s) + 1) /\ DOMAIN s = 1..Len(s) /\ Len(s) \in Nat
      /\ allocations'[Len(s) + 1] = Rec(b, units)
      /\ \A k \in 1..Len(s) : allocations'[k] = s[k]
  BY <1>1, AppendedRange
<1>3. \A k \in 1..Len(s) : s[k].ingress # b.ingress
  BY <1>2 DEF Range
<1>4. ASSUME NEW k \in DOMAIN allocations', NEW l \in DOMAIN allocations',
             allocations'[k].ingress = allocations'[l].ingress
      PROVE  k = l
  <2>1. (k \in 1..Len(s) \/ k = Len(s) + 1) /\ (l \in 1..Len(s) \/ l = Len(s) + 1)
    BY <1>2
  <2>2. CASE k \in 1..Len(s) /\ l \in 1..Len(s)
    BY <1>2, <1>4, <2>2 DEF Once
  <2>3. CASE ~(k \in 1..Len(s) /\ l \in 1..Len(s))
    BY <1>1, <1>2, <1>3, <1>4, <2>1, <2>3
  <2> QED
    BY <2>2, <2>3
<1> QED
  BY <1>2, <1>4 DEF Once

LEMMA FindClearingPriceWho ==
  ASSUME IInv, Once, FindClearingPrice
  PROVE  Records' /\ Once'
<1>1. UNCHANGED <<allocations, marginalBids>> /\ allocations = <<>> /\ marginalBids = <<>>
  BY DEF FindClearingPrice, BeginAllocation, IInv, Search
<1>2. CASE pc' = "price"
  BY <1>1, <1>2 DEF Records, Once
<1>3. CASE pc' = "allocate"
  <2>1. at' = 1
    BY <1>3 DEF FindClearingPrice, BeginAllocation
  <2>2. Seen(1)' = {}
    <3>1. 1..(1 - 1) = {}
      OBVIOUS
    <3> QED
      BY <3>1 DEF Seen
  <2>3. Seen(at)' = {}
    BY <2>1, <2>2 DEF Seen
  <2>4. AboveRecords(Seen(at))' = {} /\ Level(Seen(at))' = {}
    BY <2>3 DEF AboveRecords, Level
  <2> QED
    BY <1>1, <1>3, <2>4, EmptyRange DEF Records, Once
<1> QED
  BY <1>2, <1>3 DEF FindClearingPrice, BeginAllocation

LEMMA AllocateAboveWho ==
  ASSUME IInv, Records, Once, AllocateAbove
  PROVE  Records' /\ Once'
<1> DEFINE b == bids[at]
<1>1. /\ pc = "allocate" /\ pc' = pc /\ at <= Len(bids) /\ at' = at + 1 /\ b.price > clearingPrice
      /\ Allocate(b, b.units) /\ UNCHANGED <<book, bids, clearingPrice, marginalBids>>
  BY DEF AllocateAbove, Considering
<1>2. /\ at \in 1..Len(bids) /\ b \in Submitted /\ b \notin Seen(at)
      /\ Seen(at) \subseteq Submitted /\ Seen(at + 1) = Seen(at) \cup {b}
  BY <1>1, SeenFacts DEF IInv, TypeOK
<1>3. b \in Bid /\ b.units \in 0..(Word - 1) /\ b.price \in Nat /\ clearingPrice \in Nat
  BY <1>2, SubmittedFacts DEF IInv, TypeOK, Bid
<1>4. Range(allocations) = AboveRecords(Seen(at)) /\ Range(marginalBids) = Level(Seen(at))
  BY <1>1 DEF Records
<1> HIDE DEF b
<1>5. ASSUME NEW r \in Range(allocations) PROVE r.ingress # b.ingress
  <2>1. PICK c \in Seen(at) : r = Rec(c, c.units)
    BY <1>4 DEF AboveRecords
  <2>2. r.ingress = c.ingress /\ c # b /\ c \in Submitted
    BY <1>2, <2>1 DEF Rec
  <2> QED
    BY <1>2, <2>2, IngressTells DEF IInv, TypeOK
<1>6. Once' /\ Range(allocations') = Range(allocations) \cup {Rec(b, b.units)}
  BY <1>1, <1>3, <1>5, OnceMore DEF IInv
<1>7. AboveRecords(Seen(at + 1)) = AboveRecords(Seen(at)) \cup {Rec(b, b.units)}
  BY <1>1, <1>2 DEF AboveRecords
<1>8. Level(Seen(at + 1)) = Level(Seen(at))
  BY <1>1, <1>2, <1>3 DEF Level
<1>9. /\ Range(allocations') = AboveRecords(Seen(at + 1))
      /\ Range(marginalBids') = Level(Seen(at + 1))
  BY <1>1, <1>4, <1>6, <1>7, <1>8
<1>10. AboveRecords(Seen(at))' = AboveRecords(Seen(at + 1)) /\ Level(Seen(at))' = Level(Seen(at + 1))
  BY <1>1 DEF Seen, AboveRecords, Level
<1>11. Range(allocations)' = Range(allocations') /\ Range(marginalBids)' = Range(marginalBids')
  OBVIOUS
<1> QED
  BY <1>1, <1>6, <1>9, <1>10, <1>11 DEF Records

LEMMA CollectMarginalWho ==
  ASSUME IInv, Records, Once, CollectMarginal
  PROVE  Records' /\ Once'
<1> DEFINE b == bids[at]
           s == marginalBids
<1>1. /\ pc = "allocate" /\ pc' = pc /\ at <= Len(bids) /\ at' = at + 1 /\ b.price = clearingPrice
      /\ marginalBids' = Append(s, b) /\ UNCHANGED <<book, bids, clearingPrice, allocations>>
  BY DEF CollectMarginal, Considering
<1>2. /\ at \in 1..Len(bids) /\ b \in Submitted /\ b \notin Seen(at)
      /\ Seen(at) \subseteq Submitted /\ Seen(at + 1) = Seen(at) \cup {b}
  BY <1>1, SeenFacts DEF IInv, TypeOK
<1>3. b \in Bid /\ s \in Seq(Bid) /\ b.price \in Nat
  BY <1>2, SubmittedFacts DEF IInv, TypeOK, Bid
<1>4. Range(allocations) = AboveRecords(Seen(at)) /\ Range(s) = Level(Seen(at))
  BY <1>1 DEF Records
<1> HIDE DEF b
<1>5. /\ Range(marginalBids') = Range(s) \cup {b}
      /\ DOMAIN marginalBids' = 1..(Len(s) + 1) /\ DOMAIN s = 1..Len(s) /\ Len(s) \in Nat
      /\ marginalBids'[Len(s) + 1] = b
      /\ \A k \in 1..Len(s) : marginalBids'[k] = s[k]
  BY <1>1, <1>3, AppendedRange
<1>6. \A k \in 1..Len(s) : s[k] # b
  <2>1. b \notin Range(s)
    BY <1>2, <1>4 DEF Level
  <2> QED
    BY <1>5, <2>1 DEF Range
<1>7. ASSUME NEW k \in DOMAIN marginalBids', NEW l \in DOMAIN marginalBids',
             marginalBids'[k] = marginalBids'[l]
      PROVE  k = l
  <2>1. (k \in 1..Len(s) \/ k = Len(s) + 1) /\ (l \in 1..Len(s) \/ l = Len(s) + 1)
    BY <1>5
  <2>2. CASE k \in 1..Len(s) /\ l \in 1..Len(s)
    BY <1>5, <1>7, <2>2 DEF Once
  <2>3. CASE ~(k \in 1..Len(s) /\ l \in 1..Len(s))
    BY <1>5, <1>6, <1>7, <2>1, <2>3
  <2> QED
    BY <2>2, <2>3
<1>8. Once'
  BY <1>1, <1>7 DEF Once
<1>9. AboveRecords(Seen(at + 1)) = AboveRecords(Seen(at))
  BY <1>1, <1>2, <1>3 DEF AboveRecords
<1>10. Level(Seen(at + 1)) = Level(Seen(at)) \cup {b}
  BY <1>1, <1>2 DEF Level
<1>11. /\ Range(allocations') = AboveRecords(Seen(at + 1))
       /\ Range(marginalBids') = Level(Seen(at + 1))
  BY <1>1, <1>4, <1>5, <1>9, <1>10
<1>12. AboveRecords(Seen(at))' = AboveRecords(Seen(at + 1)) /\ Level(Seen(at))' = Level(Seen(at + 1))
  BY <1>1 DEF Seen, AboveRecords, Level
<1> QED
  BY <1>1, <1>8, <1>11, <1>12 DEF Records

LEMMA PassOverWho ==
  ASSUME IInv, Records, Once, PassOver
  PROVE  Records' /\ Once'
<1> DEFINE b == bids[at]
<1>1. /\ pc = "allocate" /\ pc' = pc /\ at <= Len(bids) /\ at' = at + 1 /\ b.price < clearingPrice
      /\ UNCHANGED <<book, bids, clearingPrice, allocations, marginalBids>>
  BY DEF PassOver, Considering
<1>2. at \in 1..Len(bids) /\ b \in Submitted /\ Seen(at + 1) = Seen(at) \cup {b}
  BY <1>1, SeenFacts DEF IInv, TypeOK
<1>3. b.price \in Nat /\ clearingPrice \in Nat
  BY <1>2, SubmittedFacts DEF IInv, TypeOK, Bid
<1> HIDE DEF b
<1>4. AboveRecords(Seen(at + 1)) = AboveRecords(Seen(at)) /\ Level(Seen(at + 1)) = Level(Seen(at))
  BY <1>1, <1>2, <1>3 DEF AboveRecords, Level
<1>5. AboveRecords(Seen(at))' = AboveRecords(Seen(at + 1)) /\ Level(Seen(at))' = Level(Seen(at + 1))
  BY <1>1 DEF Seen, AboveRecords, Level
<1> QED
  BY <1>1, <1>4, <1>5 DEF Records, Once

LEMMA EndAllocationWho ==
  ASSUME IInv, Records, Once, EndAllocation
  PROVE  Records' /\ Once'
<1>1. /\ pc = "allocate" /\ at > Len(bids) /\ at' = 1
      /\ pc' = IF marginalDemand > 0 /\ remaining > 0 THEN "split" ELSE "done"
      /\ UNCHANGED <<book, bids, clearingPrice, allocations, marginalBids, marginalDemand, remaining>>
  BY DEF EndAllocation
<1>2. at = Len(bids) + 1 /\ remaining > 0 /\ Seen(Len(bids) + 1) = Submitted
  BY <1>1, SeenFacts DEF IInv, TypeOK, Serving
<1>3. Range(allocations) = AboveRecords(Submitted) /\ Range(marginalBids) = Level(Submitted)
  BY <1>1, <1>2 DEF Records
<1>4. /\ Range(allocations)' = Range(allocations) /\ Range(marginalBids)' = Range(marginalBids)
      /\ AboveRecords(Submitted)' = AboveRecords(Submitted)
      /\ Level(Submitted)' = Level(Submitted)
  BY <1>1 DEF AboveRecords, Level, Submitted, RealBid
<1>5. MarginalRecords(Shared(at))' = {}
  <2>1. 1..(at' - 1) = {}
    BY <1>1
  <2>2. Shared(at)' = {}
    BY <2>1 DEF Shared
  <2> QED
    BY <2>2 DEF MarginalRecords
<1>6. pc' = "done" => marginalDemand' = 0
  BY <1>1, <1>2, WordAssumption DEF IInv, TypeOK
<1>7. Once'
  BY <1>1 DEF Once
<1> QED
  BY <1>1, <1>3, <1>4, <1>5, <1>6, <1>7 DEF Records

(***************************************************************************)
(* What a share may be, whatever wraps.                                    *)
(***************************************************************************)
LEMMA ShareType ==
  ASSUME TypeOK, marginalDemand # 0, NEW b \in Bid
  PROVE  Share(b) \in 0..(Word - 1) /\ Share(b) <= b.units
<1>1. /\ b.units \in 0..(Word - 1) /\ remaining \in Nat /\ Word \in Nat \ {0}
      /\ marginalDemand \in Nat \ {0}
  BY CapacityAssumption, WordAssumption DEF TypeOK, Bid
<1>2. PICK product \in Nat : product = b.units * remaining
  BY <1>1, MulNat
<1>3. product % Word \in Nat
  BY <1>1, ModRange
<1>4. PICK share \in Nat : share = (product % Word) \div marginalDemand
  BY <1>1, <1>3, DivBound
<1>5. Share(b) = IF share > b.units THEN b.units ELSE share
  BY <1>2, <1>4 DEF Share, Capped
<1> QED
  BY <1>1, <1>5

LEMMA SplitMarginalWho ==
  ASSUME IInv, Records, Once, SplitMarginal
  PROVE  Records' /\ Once'
<1> DEFINE b == marginalBids[at]
<1>1. /\ pc = "split" /\ pc' = pc /\ at <= Len(marginalBids) /\ at' = at + 1
      /\ IF IsVirtual(b) THEN UNCHANGED allocations ELSE Allocate(b, Share(b))
      /\ UNCHANGED <<book, bids, clearingPrice, marginalBids, marginalDemand, remaining>>
  BY DEF SplitMarginal
<1>2. /\ marginalBids \in Seq(Bid) /\ at \in 1..Len(marginalBids) /\ Len(marginalBids) \in Nat
      /\ DOMAIN marginalBids = 1..Len(marginalBids) /\ b \in Bid /\ marginalDemand # 0
  <2>1. marginalBids \in Seq(Bid) /\ at \in Nat \ {0} /\ marginalDemand # 0
    BY <1>1, WordAssumption DEF IInv, TypeOK, Splitting
  <2> QED
    BY <1>1, <2>1, LenProperties
<1>3. /\ Range(marginalBids) = Level(Submitted)
      /\ Range(allocations) = AboveRecords(Submitted) \cup MarginalRecords(Shared(at))
  BY <1>1 DEF Records
<1>4. \A k \in 1..Len(marginalBids) : marginalBids[k] \in Submitted /\ marginalBids[k].price = clearingPrice
  <2>1. \A k \in 1..Len(marginalBids) : marginalBids[k] \in Range(marginalBids)
    BY <1>2 DEF Range
  <2> QED
    BY <1>3, <2>1 DEF Level
<1>5. Shared(at + 1) = Shared(at) \cup {b} /\ b \notin Shared(at) /\ Shared(at) \subseteq Submitted
  <2>1. 1..((at + 1) - 1) = 1..(at - 1) \cup {at} /\ 1..(at - 1) \subseteq 1..Len(marginalBids)
        /\ at \notin 1..(at - 1)
    BY <1>2
  <2>2. Shared(at + 1) = {marginalBids[j] : j \in 1..(at - 1) \cup {at}}
    BY <2>1 DEF Shared
  <2>3. Shared(at + 1) = Shared(at) \cup {b}
    BY <2>2 DEF Shared
  <2>4. b \notin Shared(at)
    BY <1>2, <2>1 DEF Shared, Once
  <2>5. Shared(at) \subseteq Submitted
    BY <1>4, <2>1 DEF Shared
  <2> QED
    BY <2>3, <2>4, <2>5
<1>6. b \in Submitted /\ b.price = clearingPrice /\ clearingPrice \in Nat
  BY <1>2, <1>4 DEF IInv, TypeOK
<1> HIDE DEF b
<1>7. /\ AboveRecords(Submitted)' = AboveRecords(Submitted)
      /\ Level(Submitted)' = Level(Submitted)
      /\ MarginalRecords(Shared(at))' = MarginalRecords(Shared(at + 1))
  BY <1>1 DEF AboveRecords, Level, Submitted, RealBid, MarginalRecords, Shared, Share
<1>8. CASE IsVirtual(b)
  <2>1. MarginalRecords(Shared(at + 1)) = MarginalRecords(Shared(at))
    BY <1>5, <1>8 DEF MarginalRecords
  <2>2. UNCHANGED <<allocations, marginalBids>>
    BY <1>1, <1>8
  <2>3. Once'
    BY <2>2 DEF Once
  <2> QED
    BY <1>1, <1>3, <1>7, <2>1, <2>2, <2>3 DEF Records
<1>9. CASE ~IsVirtual(b)
  <2>1. Share(b) \in 0..(Word - 1)
    BY <1>2, ShareType DEF IInv
  <2>2. ASSUME NEW r \in Range(allocations) PROVE r.ingress # b.ingress
    <3>1. CASE r \in AboveRecords(Submitted)
      <4>1. PICK c \in Submitted : r = Rec(c, c.units) /\ c.price > clearingPrice
        BY <3>1 DEF AboveRecords
      <4>2. r.ingress = c.ingress /\ c # b
        BY <1>6, <4>1 DEF Rec
      <4> QED
        BY <1>6, <4>2, IngressTells DEF IInv, TypeOK
    <3>2. CASE r \in MarginalRecords(Shared(at))
      <4>1. PICK c \in Shared(at) : r = Rec(c, Share(c))
        BY <3>2 DEF MarginalRecords
      <4>2. r.ingress = c.ingress /\ c # b /\ c \in Submitted
        BY <1>5, <4>1 DEF Rec
      <4> QED
        BY <1>6, <4>2, IngressTells DEF IInv, TypeOK
    <3> QED
      BY <1>3, <3>1, <3>2
  <2>3. Once' /\ Range(allocations') = Range(allocations) \cup {Rec(b, Share(b))}
    BY <1>1, <1>2, <1>9, <2>1, <2>2, OnceMore DEF IInv
  <2>4. MarginalRecords(Shared(at + 1)) = MarginalRecords(Shared(at)) \cup {Rec(b, Share(b))}
    BY <1>5, <1>9 DEF MarginalRecords
  <2>5. Range(allocations') = AboveRecords(Submitted) \cup MarginalRecords(Shared(at + 1))
    BY <1>3, <2>3, <2>4
  <2> QED
    BY <1>1, <1>3, <1>7, <2>3, <2>5 DEF Records
<1> QED
  BY <1>8, <1>9

LEMMA EndSplitWho ==
  ASSUME IInv, Records, Once, EndSplit
  PROVE  Records' /\ Once'
<1>1. /\ pc = "split" /\ pc' = "done" /\ at > Len(marginalBids)
      /\ UNCHANGED <<book, bids, clearingPrice, allocations, marginalBids, marginalDemand, remaining>>
  BY DEF EndSplit
<1>2. marginalBids \in Seq(Bid) /\ at = Len(marginalBids) + 1 /\ marginalDemand # 0
  <2>1. marginalBids \in Seq(Bid) /\ at \in Nat \ {0} /\ marginalDemand # 0 /\ at <= Len(marginalBids) + 1
    BY <1>1, WordAssumption DEF IInv, TypeOK, Splitting
  <2> QED
    BY <1>1, <2>1, LenProperties
<1>3. Shared(at) = Range(marginalBids)
  <2>1. DOMAIN marginalBids = 1..Len(marginalBids) /\ Len(marginalBids) \in Nat
    BY <1>2, LenProperties
  <2>2. 1..(at - 1) = DOMAIN marginalBids
    BY <1>2, <2>1
  <2> QED
    BY <2>2 DEF Shared, Range
<1>4. /\ Range(marginalBids) = Level(Submitted)
      /\ Range(allocations) = AboveRecords(Submitted) \cup MarginalRecords(Level(Submitted))
  BY <1>1, <1>3 DEF Records
<1>5. /\ AboveRecords(Submitted)' = AboveRecords(Submitted)
      /\ Level(Submitted)' = Level(Submitted)
      /\ MarginalRecords(Level(Submitted))' = MarginalRecords(Level(Submitted))
  BY <1>1 DEF AboveRecords, Level, Submitted, RealBid, MarginalRecords, Share
<1>6. Once'
  BY <1>1 DEF Once
<1> QED
  BY <1>1, <1>2, <1>4, <1>5, <1>6 DEF Records

LEMMA WhoInvariant == Spec => [](Records /\ Once)
<1>1. Init => Records /\ Once
  BY EmptyRange DEF Init, Records, Once
<1>2. IInv /\ Records /\ Once /\ [Next]_vars => (Records /\ Once)'
  <2> SUFFICES ASSUME IInv, Records, Once, [Next]_vars PROVE Records' /\ Once'
    OBVIOUS
  <2>1. CASE UNCHANGED vars
    BY <2>1 DEF vars, Records, Once, AboveRecords, Level, Submitted, RealBid, MarginalRecords, Share,
                Shared, Seen
  <2>2. CASE SortBids
    <3>1. pc' = "price" /\ UNCHANGED <<allocations, marginalBids>>
      BY <2>2 DEF SortBids
    <3> QED
      BY <3>1 DEF Records, Once
  <2>3. CASE Return
    BY <2>1, <2>3 DEF Return
  <2> QED
    BY <2>1, <2>2, <2>3, FindClearingPriceWho, AllocateAboveWho, CollectMarginalWho, PassOverWho,
       EndAllocationWho, SplitMarginalWho, EndSplitWho DEF Next
<1> QED
  BY <1>1, <1>2, Inductive, PTL DEF Spec

(***************************************************************************)
(* What each bid is allocated in the end.                                  *)
(***************************************************************************)
LEMMA ServedIs ==
  ASSUME IInv, Records, pc = "done", NEW i \in DOMAIN book
  PROVE  Served(i) = IF book[i].price > clearingPrice THEN book[i].units
                     ELSE IF book[i].price = clearingPrice /\ marginalDemand # 0
                          THEN Share(RealBid(i)) ELSE 0
<1> DEFINE b == RealBid(i)
           over == book[i].price > clearingPrice
           level == book[i].price = clearingPrice /\ marginalDemand # 0
           records == {k \in DOMAIN allocations : allocations[k].ingress = i}
           marginal == IF marginalDemand = 0 THEN {} ELSE MarginalRecords(Level(Submitted))
<1>1. /\ b \in Submitted /\ ~IsVirtual(b) /\ b.ingress = i
      /\ b.units = book[i].units /\ b.price = book[i].price
      /\ book[i].price \in Nat /\ clearingPrice \in Nat
  BY BookFacts DEF IInv, TypeOK
<1>2. Range(allocations) = AboveRecords(Submitted) \cup marginal
  BY DEF Records
<1> HIDE DEF b, marginal
<1>3. \A c \in Submitted : c.ingress = i => c = b
  BY <1>1, IngressTells DEF IInv, TypeOK
<1>4. ASSUME NEW r \in Range(allocations), r.ingress = i
      PROVE  \/ over /\ r.units = book[i].units
             \/ level /\ r.units = Share(b)
  <2>1. CASE r \in AboveRecords(Submitted)
    <3>1. PICK c \in Submitted : r = Rec(c, c.units) /\ c.price > clearingPrice
      BY <2>1 DEF AboveRecords
    <3>2. c = b
      BY <1>3, <1>4, <3>1 DEF Rec
    <3> QED
      BY <1>1, <3>1, <3>2 DEF Rec
  <2>2. CASE r \in marginal
    <3>1. PICK c \in Level(Submitted) : r = Rec(c, Share(c)) /\ marginalDemand # 0
      BY <2>2 DEF marginal, MarginalRecords
    <3>2. c = b /\ c.price = clearingPrice
      BY <1>3, <1>4, <3>1 DEF Rec, Level
    <3> QED
      BY <1>1, <3>1, <3>2 DEF Rec
  <2> QED
    BY <1>2, <2>1, <2>2
<1>5. over => Rec(b, b.units) \in Range(allocations) /\ Rec(b, b.units).ingress = i
  BY <1>1, <1>2 DEF AboveRecords, Rec
<1>6. level => Rec(b, Share(b)) \in Range(allocations) /\ Rec(b, Share(b)).ingress = i
  <2> SUFFICES ASSUME level PROVE Rec(b, Share(b)) \in marginal /\ Rec(b, Share(b)).ingress = i
    BY <1>2
  <2> QED
    BY <1>1 DEF marginal, MarginalRecords, Level, Rec
<1>7. over \/ level => records # {}
  BY <1>5, <1>6 DEF Range
<1>8. \A k \in records : allocations[k] \in Range(allocations) /\ allocations[k].ingress = i
  BY DEF Range
<1>9. CASE records = {}
  <2>1. Served(i) = 0 /\ ~over /\ ~level
    BY <1>7, <1>9 DEF Served
  <2> QED
    BY <2>1
<1>10. CASE records # {}
  <2>1. PICK k \in records : Served(i) = allocations[k].units
    BY <1>10 DEF Served
  <2>2. (over /\ Served(i) = book[i].units) \/ (level /\ Served(i) = Share(b))
    BY <1>4, <1>8, <2>1
  <2>3. ~(over /\ level)
    BY <1>1
  <2> QED
    BY <2>2, <2>3 DEF b
<1> QED
  BY <1>9, <1>10

(***************************************************************************)
(* Nobody is served while someone who bid more goes short, even when the   *)
(* products wrap.                                                          *)
(***************************************************************************)
THEOREM HigherPriceFirstHolds == Spec => []HigherPriceFirst
<1>1. IInv /\ Records => HigherPriceFirst
  <2> SUFFICES ASSUME IInv, Records, pc = "done", NEW i \in DOMAIN book, NEW j \in DOMAIN book,
                      book[i].price > book[j].price, Served(j) > 0
               PROVE  Served(i) = book[i].units
    BY DEF HigherPriceFirst
  <2>1. book[i].price \in Nat /\ book[j].price \in Nat /\ clearingPrice \in Nat
    BY BookFacts DEF IInv, TypeOK
  <2>2. book[j].price >= clearingPrice
    BY <2>1, ServedIs
  <2>3. book[i].price > clearingPrice
    BY <2>1, <2>2
  <2> QED
    BY <2>3, ServedIs
<1> QED
  BY <1>1, Inductive, WhoInvariant, PTL

(***************************************************************************)
(* Without a wrap, the product of a real bid's units and what is left is   *)
(* what the code computes.                                                 *)
(***************************************************************************)
LEMMA SmallProduct ==
  ASSUME NoWrap, NEW u \in Nat, u <= MaxUnits, NEW r \in Nat, r <= Capacity
  PROVE  u * r \in Nat /\ (u * r) % Word = u * r
<1>1. u * r <= MaxUnits * r /\ r * MaxUnits <= Capacity * MaxUnits
  BY SizeAssumption, CapacityAssumption, MulMono
<1>2. PICK product \in Nat : product = u * r
  BY MulNat
<1>3. PICK largest \in Nat : largest = MaxUnits * r
  BY SizeAssumption, MulNat
<1>4. largest = r * MaxUnits
  BY <1>3, SizeAssumption
<1>5. PICK limit \in Nat : limit = Capacity * MaxUnits /\ limit < Word
  BY CapacityAssumption, SizeAssumption, MulNat DEF NoWrap
<1>6. product < Word
  BY <1>1, <1>2, <1>3, <1>4, <1>5, WordAssumption
<1>7. product % Word = product
  BY <1>6, WordAssumption, ModSmall
<1> QED
  BY <1>2, <1>7

(***************************************************************************)
(* Without a wrap, a share is the product of the units divided by the      *)
(* demand, and who asks for more is not shared less.                       *)
(***************************************************************************)
LEMMA DivMono ==
  ASSUME NEW a \in Nat, NEW b \in Nat, NEW d \in Nat \ {0}, a <= b
  PROVE  a \div d <= b \div d /\ a \div d \in Nat /\ b \div d \in Nat
OBVIOUS

LEMMA ShareIs ==
  ASSUME IInv, NoWrap, marginalDemand # 0, NEW i \in DOMAIN book
  PROVE  /\ book[i].units * remaining \in Nat /\ book[i].units \in Nat \ {0}
         /\ Share(RealBid(i)) = Capped((book[i].units * remaining) \div marginalDemand, book[i].units)
<1>1. /\ book[i].units \in Nat \ {0} /\ book[i].units <= MaxUnits
      /\ RealBid(i).units = book[i].units /\ remaining \in 0..Capacity
  BY BookFacts DEF IInv, TypeOK
<1>2. remaining \in Nat /\ remaining <= Capacity
  BY <1>1, CapacityAssumption
<1>3. book[i].units * remaining \in Nat /\ (book[i].units * remaining) % Word = book[i].units * remaining
  BY <1>1, <1>2, SmallProduct
<1> QED
  BY <1>1, <1>3 DEF Share

(***************************************************************************)
(* At one price nobody who asks for no less is given less.                 *)
(***************************************************************************)
THEOREM FairWithinPriceHolds == ASSUME NoWrap PROVE Spec => []FairWithinPrice
<1>1. IInv /\ Records => FairWithinPrice
  <2> SUFFICES ASSUME IInv, Records, pc = "done", NEW i \in DOMAIN book, NEW j \in DOMAIN book,
                      book[i].price = book[j].price, book[i].units <= book[j].units
               PROVE  Served(i) <= Served(j)
    BY DEF FairWithinPrice
  <2>1. /\ book[i].units \in Nat /\ book[j].units \in Nat /\ remaining \in Nat
        /\ marginalDemand \in Nat
    BY BookFacts, CapacityAssumption, WordAssumption DEF IInv, TypeOK
  <2>2. ASSUME marginalDemand # 0 PROVE Share(RealBid(i)) <= Share(RealBid(j))
    <3> DEFINE x == book[i].units * remaining
               y == book[j].units * remaining
    <3>1. /\ x \in Nat /\ y \in Nat
          /\ Share(RealBid(i)) = Capped(x \div marginalDemand, book[i].units)
          /\ Share(RealBid(j)) = Capped(y \div marginalDemand, book[j].units)
      BY <2>2, ShareIs
    <3>2. x <= y
      BY <2>1, MulMono
    <3> HIDE DEF x, y
    <3>3. x \div marginalDemand <= y \div marginalDemand
          /\ x \div marginalDemand \in Nat /\ y \div marginalDemand \in Nat
      BY <2>1, <2>2, <3>1, <3>2, DivMono
    <3> QED
      BY <2>1, <3>1, <3>3 DEF Capped
  <2> QED
    BY <2>1, <2>2, ServedIs
<1> QED
  BY <1>1, Inductive, WhoInvariant, PTL

-----------------------------------------------------------------------------
(***************************************************************************)
(* How much the bids ask for.  The virtual bid asks for nothing here.      *)
(***************************************************************************)
Asks == [b \in Submitted |-> RealUnits(b)]
Load(S) == SumFunctionOnSet(Asks, S)
Higher(S) == {b \in S : b.price > clearingPrice}

(***************************************************************************)
(* left, remaining and tier in closed form: the capacity without the bids  *)
(* before, the capacity without the bids above the clearing price, and the *)
(* units of the real bids at the price.                                    *)
(***************************************************************************)
Sums ==
  /\ pc # "sort" => \A k \in 1..Len(left) : left[k] = Capacity - Load(Seen(k))
  /\ pc \notin {"sort", "price"} => bids[Len(left)].units >= left[Len(left)]
  /\ pc = "allocate" =>
       remaining = Capacity - Load(Higher(Seen(at))) /\ tier[Len(tier)] = Load(Level(Seen(at)))
  /\ pc \in {"split", "done"} =>
       remaining = Capacity - Load(Higher(Submitted)) /\ tier[Len(tier)] = Load(Level(Submitted))

LEMMA SubmittedFinite == ASSUME book \in Books PROVE IsFiniteSet(Submitted)
<1> DEFINE S == 1..Len(book)
           r == [i \in S |-> RealBid(i)]
<1>1. IsFiniteSet(S)
  BY BookFacts, FS_Interval
<1>2. Submitted = {r[i] : i \in S} \cup {VirtualBid}
  BY DEF Submitted
<1> HIDE DEF r, S
<1>3. IsFiniteSet({r[i] : i \in S})
  BY <1>1, FiniteImage
<1> QED
  BY <1>2, <1>3, FS_AddElement

LEMMA AsksFacts ==
  ASSUME book \in Books
  PROVE  \A b \in Submitted : Asks[b] = RealUnits(b) /\ Asks[b] \in Nat
<1>1. \A b \in Submitted : b \in Bid
  BY SubmittedFacts
<1> QED
  BY <1>1, WordAssumption DEF Asks, RealUnits, Bid

LEMMA LoadFacts ==
  ASSUME book \in Books, NEW S \in SUBSET Submitted
  PROVE  /\ Load(S) \in Nat /\ IsFiniteSet(S) /\ Load({}) = 0
         /\ \A b \in Submitted \ S : Load(S \cup {b}) = Load(S) + RealUnits(b)
<1>1. IsFiniteSet(S) /\ \A b \in Submitted : Asks[b] = RealUnits(b) /\ Asks[b] \in Nat
  BY SubmittedFinite, FS_Subset, AsksFacts
<1>2. Load(S) \in Nat /\ Load({}) = 0
  BY <1>1, SumNat, SumEmpty DEF Load
<1>3. ASSUME NEW b \in Submitted \ S PROVE Load(S \cup {b}) = Load(S) + RealUnits(b)
  <2>1. Load(S \cup {b}) = Asks[b] + Load(S)
    BY <1>1, SumAdd DEF Load
  <2> QED
    BY <1>1, <1>2, <2>1
<1> QED
  BY <1>1, <1>2, <1>3

LEMMA SameLoad ==
  ASSUME UNCHANGED book
  PROVE  Submitted' = Submitted /\ Asks' = Asks /\ \A S : Load(S)' = Load(S)
BY DEF Submitted, RealBid, Asks, Load

LEMMA FindClearingPriceSums ==
  ASSUME IInv, Sums, FindClearingPrice
  PROVE  Sums'
<1>1. /\ pc = "price" /\ at = Len(left) /\ remaining = left[at] /\ tier = <<0>>
      /\ UNCHANGED <<book, bids, tier>>
  BY DEF FindClearingPrice, IInv, Search
<1>2. /\ at \in 1..Len(bids) /\ remaining > 0 /\ Len(left) \in Nat /\ left \in Seq(0..Capacity)
      /\ remaining \in 0..Capacity /\ book \in Books
  BY <1>1 DEF IInv, TypeOK, Prefix
<1>3. /\ bids[at] \in Submitted /\ bids[at] \notin Seen(at) /\ Seen(at) \subseteq Submitted
      /\ Seen(at + 1) = Seen(at) \cup {bids[at]} /\ Seen(1) = {} /\ Len(bids) \in Nat
  BY <1>1, <1>2, SeenFacts DEF IInv
<1>4. bids[at] \in Bid /\ bids[at].units \in Nat
  <2>1. bids[at] \in Bid
    BY <1>2, <1>3, SubmittedFacts
  <2> QED
    BY <2>1, WordAssumption DEF Bid
<1>5. \A k : Seen(k)' = Seen(k) /\ Load(Seen(k))' = Load(Seen(k))
  BY <1>1, SameLoad DEF Seen, Load
<1>6. \A k \in 1..Len(left) : left[k] = Capacity - Load(Seen(k))
  BY <1>1 DEF Sums
<1>7. CASE bids[at].units >= remaining
  <2>1. pc' = "allocate" /\ at' = 1 /\ remaining' = Capacity /\ UNCHANGED left
    BY <1>1, <1>2, <1>7 DEF FindClearingPrice, BeginAllocation
  <2>2. Seen(at)' = {}
    BY <2>1, <1>3, <1>5 DEF Seen
  <2>3. Load(Higher(Seen(at)))' = 0 /\ Load(Level(Seen(at)))' = 0
    BY <2>2, SumEmpty DEF Higher, Level, Load
  <2>4. remaining' = Capacity - 0 /\ tier'[Len(tier')] = 0
    BY <1>1, <2>1, CapacityAssumption
  <2>5. \A k \in 1..Len(left') : left'[k] = Capacity - Load(Seen(k))'
    BY <1>5, <1>6, <2>1
  <2> QED
    BY <1>1, <1>7, <2>1, <2>3, <2>4, <2>5 DEF Sums
<1>8. CASE ~(bids[at].units >= remaining)
  <2>1. /\ pc' = "price" /\ remaining' = remaining - bids[at].units
        /\ left' = Append(left, remaining')
    BY <1>1, <1>2, <1>8 DEF FindClearingPrice
  <2>2. ~IsVirtual(bids[at])
    <3>1. IsVirtual(bids[at]) => bids[at] = VirtualBid
      BY <1>2, <1>3, SubmittedFacts
    <3>2. bids[at] # VirtualBid
      BY <1>2, <1>4, <1>8, CapacityAssumption DEF VirtualBid
    <3> QED
      BY <3>1, <3>2
  <2>3. Load(Seen(at + 1)) = Load(Seen(at)) + bids[at].units /\ Load(Seen(at)) \in Nat
    BY <1>2, <1>3, <2>2, LoadFacts DEF RealUnits
  <2>4. remaining' \in 0..Capacity
    BY <1>2, <1>4, <1>8, <2>1, CapacityAssumption
  <2>5. /\ Len(left') = Len(left) + 1 /\ left'[Len(left) + 1] = remaining'
        /\ \A k \in 1..Len(left) : left'[k] = left[k]
    BY <1>2, <2>1, <2>4, AppendProperties
  <2>6. remaining' = Capacity - Load(Seen(at + 1))
    BY <1>1, <1>2, <1>4, <1>6, <2>1, <2>3, CapacityAssumption
  <2>7. \A k \in 1..Len(left') : left'[k] = Capacity - Load(Seen(k))
    BY <1>1, <1>2, <1>6, <2>5, <2>6
  <2> QED
    BY <1>5, <2>1, <2>7 DEF Sums
<1> QED
  BY <1>7, <1>8

(***************************************************************************)
(* The sums below depend on the bids, the clearing price and at alone.     *)
(***************************************************************************)
LEMMA SameSums ==
  ASSUME Sums, UNCHANGED <<book, bids, clearingPrice, left>>
  PROVE  /\ \A k : Seen(k)' = Seen(k)
         /\ \A S : Load(Higher(S))' = Load(Higher(S)) /\ Load(Level(S))' = Load(Level(S))
         /\ Submitted' = Submitted
         /\ pc # "sort" => \A k \in 1..Len(left') : left'[k] = Capacity - Load(Seen(k))'
         /\ pc \notin {"sort", "price"} => bids'[Len(left')].units >= left'[Len(left')]
BY DEF Submitted, RealBid, Asks, Load, Seen, Higher, Level, Sums

(***************************************************************************)
(* The bid the second pass considers.                                      *)
(***************************************************************************)
LEMMA CurrentBid ==
  ASSUME IInv, pc = "allocate", at <= Len(bids)
  PROVE  /\ at \in 1..Len(bids) /\ Len(bids) \in Nat
         /\ IsVirtual(bids[at]) => bids[at] = VirtualBid
         /\ bids[at].units \in Nat /\ bids[at].price \in Nat /\ RealUnits(bids[at]) \in Nat
         /\ clearingPrice \in Nat /\ remaining \in 1..Capacity /\ Capacity \in Nat
         /\ tier \in Seq(Nat) /\ tier[Len(tier)] \in Nat
<1>1. /\ at \in Nat \ {0} /\ clearingPrice \in Nat /\ tier \in Seq(Nat) /\ tier # <<>>
      /\ remaining \in 0..Capacity /\ remaining > 0
  BY DEF IInv, TypeOK, Serving
<1>2. at \in 1..Len(bids) /\ Len(bids) \in Nat
  BY <1>1, SortedFacts DEF IInv
<1>3. bids[at] \in Bid /\ (IsVirtual(bids[at]) => bids[at] = VirtualBid)
  BY <1>2, SortedFacts DEF IInv
<1>4. bids[at].units \in Nat /\ bids[at].price \in Nat
  BY <1>3, WordAssumption DEF Bid
<1>5. tier[Len(tier)] \in Nat
  BY <1>1
<1> QED
  BY <1>1, <1>2, <1>3, <1>4, <1>5, CapacityAssumption DEF RealUnits

LEMMA ConsideringSums ==
  ASSUME IInv, Sums, Considering,
         remaining' = remaining - (IF bids[at].price > clearingPrice THEN RealUnits(bids[at]) ELSE 0),
         tier'[Len(tier')] = tier[Len(tier)]
                     + (IF bids[at].price = clearingPrice THEN RealUnits(bids[at]) ELSE 0)
  PROVE  Sums'
<1> DEFINE b == bids[at]
           S == Seen(at)
<1>1. /\ pc = "allocate" /\ pc' = pc /\ at <= Len(bids) /\ at' = at + 1
      /\ UNCHANGED <<book, bids, clearingPrice, left>>
  BY DEF Considering
<1>2. /\ at \in 1..Len(bids) /\ b \in Submitted /\ b \notin S
      /\ S \subseteq Submitted /\ Seen(at + 1) = S \cup {b} /\ book \in Books
      /\ remaining \in Nat
  BY <1>1, SeenFacts, CapacityAssumption DEF IInv, TypeOK
<1>3. b.price \in Nat /\ clearingPrice \in Nat /\ RealUnits(b) \in Nat /\ Capacity \in Nat
  BY <1>1, CurrentBid
<1>4. remaining = Capacity - Load(Higher(S)) /\ tier[Len(tier)] = Load(Level(S))
  BY <1>1 DEF Sums
<1> HIDE DEF b, S
<1>5. /\ Load(Higher(S)) \in Nat /\ Load(Level(S)) \in Nat
      /\ b \notin Higher(S) /\ b \notin Level(S)
      /\ Load(Higher(S) \cup {b}) = Load(Higher(S)) + RealUnits(b)
      /\ Load(Level(S) \cup {b}) = Load(Level(S)) + RealUnits(b)
  <2>1. Higher(S) \in SUBSET Submitted /\ Level(S) \in SUBSET Submitted
        /\ b \in Submitted \ Higher(S) /\ b \in Submitted \ Level(S)
    BY <1>2 DEF Higher, Level
  <2> QED
    BY <1>2, <2>1, LoadFacts
<1>6. /\ Load(Higher(Seen(at + 1))) = Load(Higher(S)) + (IF b.price > clearingPrice THEN RealUnits(b) ELSE 0)
      /\ Load(Level(Seen(at + 1))) = Load(Level(S)) + (IF b.price = clearingPrice THEN RealUnits(b) ELSE 0)
  <2>1. Higher(Seen(at + 1)) = Higher(S \cup {b}) /\ Level(Seen(at + 1)) = Level(S \cup {b})
    BY <1>2
  <2>2. CASE b.price > clearingPrice
    <3>1. Higher(S \cup {b}) = Higher(S) \cup {b} /\ Level(S \cup {b}) = Level(S)
      BY <1>3, <2>2 DEF Higher, Level
    <3>2. b.price # clearingPrice
      BY <1>3, <2>2
    <3>3. Load(Higher(Seen(at + 1))) = Load(Higher(S) \cup {b}) /\ Load(Level(Seen(at + 1))) = Load(Level(S))
      BY <2>1, <3>1
    <3> QED
      BY <1>3, <1>5, <2>2, <3>2, <3>3
  <2>3. CASE b.price = clearingPrice
    <3>1. Higher(S \cup {b}) = Higher(S) /\ Level(S \cup {b}) = Level(S) \cup {b}
      BY <1>3, <2>3 DEF Higher, Level
    <3>2. ~(b.price > clearingPrice)
      BY <1>3, <2>3
    <3>3. Load(Higher(Seen(at + 1))) = Load(Higher(S)) /\ Load(Level(Seen(at + 1))) = Load(Level(S) \cup {b})
      BY <2>1, <3>1
    <3> QED
      BY <1>3, <1>5, <2>3, <3>2, <3>3
  <2>4. CASE b.price < clearingPrice
    <3>1. Higher(S \cup {b}) = Higher(S) /\ Level(S \cup {b}) = Level(S)
      BY <1>3, <2>4 DEF Higher, Level
    <3>2. ~(b.price > clearingPrice) /\ b.price # clearingPrice
      BY <1>3, <2>4
    <3> QED
      BY <1>5, <2>1, <3>1, <3>2
  <2> QED
    BY <1>3, <2>2, <2>3, <2>4
<1>7. /\ remaining' = Capacity - Load(Higher(Seen(at + 1)))
      /\ tier'[Len(tier')] = Load(Level(Seen(at + 1)))
  BY <1>2, <1>3, <1>4, <1>5, <1>6 DEF b
<1>8. Seen(at)' = Seen(at + 1)
  BY <1>1, SameSums DEF Seen
<1>9. Load(Higher(Seen(at)))' = Load(Higher(Seen(at + 1))) /\ Load(Level(Seen(at)))' = Load(Level(Seen(at + 1)))
  BY <1>1, <1>8 DEF Load, Asks, Submitted, RealBid, Higher, Level
<1> QED
  BY <1>1, <1>7, <1>9, SameSums DEF Sums

LEMMA SumsInvariant == Spec => []Sums
<1>1. Init => Sums
  BY DEF Init, Sums
<1>2. IInv /\ IInv' /\ Sums /\ [Next]_vars => Sums'
  <2> SUFFICES ASSUME IInv, IInv', Sums, [Next]_vars PROVE Sums'
    OBVIOUS
  <2> USE DEF Considering
  <2>1. CASE UNCHANGED vars
    BY <2>1 DEF vars, Sums, Submitted, RealBid, Asks, Load, Seen, Higher, Level
  <2>2. CASE SortBids
    <3>1. pc' = "price" /\ left' = left /\ Len(left) = 1 /\ left[1] = Capacity
      BY <2>2 DEF SortBids, IInv, Search, Prefix
    <3>2. Seen(1)' = {}
      BY DEF Seen
    <3>3. Load(Seen(1))' = 0
      BY <3>2, SumEmpty DEF Load
    <3>4. \A k \in 1..Len(left') : left'[k] = Capacity - Load(Seen(k))'
      BY <3>1, <3>3, CapacityAssumption
    <3> QED
      BY <3>1, <3>4 DEF Sums
  <2>3. CASE AllocateAbove
    <3>1. /\ pc = "allocate" /\ pc' = pc /\ at <= Len(bids) /\ bids[at].price > clearingPrice
          /\ remaining' = IF bids[at].units >= remaining THEN 0 ELSE remaining - bids[at].units
          /\ UNCHANGED tier
      BY <2>3 DEF AllocateAbove
    <3>2. remaining' > 0
      BY <3>1 DEF IInv, Serving
    <3>3. /\ IsVirtual(bids[at]) => bids[at] = VirtualBid
          /\ bids[at].units \in Nat /\ bids[at].price \in Nat /\ clearingPrice \in Nat
          /\ remaining \in 1..Capacity /\ Capacity \in Nat /\ tier[Len(tier)] \in Nat
      BY <3>1, CurrentBid
    <3>4. bids[at].units < remaining /\ remaining' = remaining - bids[at].units
      BY <3>1, <3>2, <3>3
    <3>5. ~IsVirtual(bids[at])
      BY <3>3, <3>4 DEF VirtualBid
    <3>6. bids[at].price # clearingPrice /\ RealUnits(bids[at]) = bids[at].units
      BY <3>1, <3>3, <3>5 DEF RealUnits
    <3>7. /\ remaining' = remaining - (IF bids[at].price > clearingPrice THEN RealUnits(bids[at]) ELSE 0)
          /\ tier'[Len(tier')] = tier[Len(tier)]
                 + (IF bids[at].price = clearingPrice THEN RealUnits(bids[at]) ELSE 0)
      BY <3>1, <3>3, <3>4, <3>6
    <3> QED
      BY <2>3, <3>7, ConsideringSums DEF AllocateAbove
  <2>4. CASE CollectMarginal
    <3>1. /\ pc = "allocate" /\ at <= Len(bids) /\ bids[at].price = clearingPrice
          /\ UNCHANGED remaining /\ tier' = Append(tier, tier[Len(tier)] + RealUnits(bids[at]))
      BY <2>4 DEF CollectMarginal
    <3>2. /\ RealUnits(bids[at]) \in Nat /\ clearingPrice \in Nat /\ remaining \in 1..Capacity
          /\ Capacity \in Nat /\ tier \in Seq(Nat) /\ tier[Len(tier)] \in Nat
      BY <3>1, CurrentBid
    <3>3. tier'[Len(tier')] = tier[Len(tier)] + RealUnits(bids[at])
      BY <3>1, <3>2, AppendProperties
    <3>4. remaining' = remaining - (IF bids[at].price > clearingPrice THEN RealUnits(bids[at]) ELSE 0)
      BY <3>1, <3>2
    <3> QED
      BY <2>4, <3>1, <3>3, <3>4, ConsideringSums DEF CollectMarginal
  <2>5. CASE PassOver
    <3>1. /\ pc = "allocate" /\ at <= Len(bids) /\ bids[at].price < clearingPrice
          /\ UNCHANGED <<remaining, tier>>
      BY <2>5 DEF PassOver
    <3>2. /\ bids[at].price \in Nat /\ clearingPrice \in Nat /\ remaining \in 1..Capacity
          /\ Capacity \in Nat /\ tier[Len(tier)] \in Nat
      BY <3>1, CurrentBid
    <3>3. ~(bids[at].price > clearingPrice) /\ bids[at].price # clearingPrice
      BY <3>1, <3>2
    <3>4. /\ remaining' = remaining - (IF bids[at].price > clearingPrice THEN RealUnits(bids[at]) ELSE 0)
          /\ tier'[Len(tier')] = tier[Len(tier)]
                 + (IF bids[at].price = clearingPrice THEN RealUnits(bids[at]) ELSE 0)
      BY <3>1, <3>2, <3>3
    <3> QED
      BY <2>5, <3>4, ConsideringSums DEF PassOver
  <2>6. CASE EndAllocation
    <3>1. /\ pc = "allocate" /\ pc' \in {"split", "done"} /\ at = Len(bids) + 1
          /\ UNCHANGED <<book, bids, remaining, clearingPrice, left, tier>>
          /\ Seen(Len(bids) + 1) = Submitted
      <4>1. /\ pc = "allocate" /\ pc' \in {"split", "done"} /\ at > Len(bids)
            /\ UNCHANGED <<book, bids, remaining, clearingPrice, left, tier>>
        BY <2>6 DEF EndAllocation
      <4>2. Len(bids) \in Nat /\ at \in Nat /\ at <= Len(bids) + 1 /\ Seen(Len(bids) + 1) = Submitted
        BY <4>1, SeenFacts DEF IInv, TypeOK, Serving
      <4> QED
        BY <4>1, <4>2
    <3>2. remaining = Capacity - Load(Higher(Submitted)) /\ tier[Len(tier)] = Load(Level(Submitted))
      BY <3>1 DEF Sums
    <3>3. Load(Higher(Submitted))' = Load(Higher(Submitted)) /\ Load(Level(Submitted))' = Load(Level(Submitted))
      BY <3>1 DEF Load, Asks, Submitted, RealBid, Higher, Level
    <3> QED
      BY <3>1, <3>2, <3>3, SameSums DEF Sums
  <2>7. CASE SplitMarginal \/ EndSplit
    <3>1. /\ pc = "split" /\ pc' \in {"split", "done"}
          /\ UNCHANGED <<book, bids, remaining, clearingPrice, left, tier>>
      BY <2>7 DEF SplitMarginal, EndSplit
    <3>2. remaining = Capacity - Load(Higher(Submitted)) /\ tier[Len(tier)] = Load(Level(Submitted))
      BY <3>1 DEF Sums
    <3>3. Load(Higher(Submitted))' = Load(Higher(Submitted)) /\ Load(Level(Submitted))' = Load(Level(Submitted))
      BY <3>1 DEF Load, Asks, Submitted, RealBid, Higher, Level
    <3> QED
      BY <3>1, <3>2, <3>3, SameSums DEF Sums
  <2>8. CASE Return
    BY <2>1, <2>8 DEF Return
  <2> QED
    BY <2>1, <2>2, <2>3, <2>4, <2>5, <2>6, <2>7, <2>8, FindClearingPriceSums DEF Next
<1> QED
  BY <1>1, <1>2, Inductive, PTL DEF Spec

-----------------------------------------------------------------------------
(***************************************************************************)
(* What rounding down costs: a share lacks less than one unit.             *)
(***************************************************************************)
LEMMA DivNear ==
  ASSUME NEW a \in Nat, NEW d \in Nat \ {0}
  PROVE  (a \div d) * d + (d - 1) >= a
OBVIOUS

LEMMA ShareLoss ==
  ASSUME NEW u \in Nat, NEW r \in Nat, NEW d \in Nat \ {0}, r <= d
  PROVE  /\ (u * r) \div d \in Nat /\ (u * r) \div d <= u
         /\ ((u * r) \div d) * d + (d - 1) >= u * r
<1>1. PICK product \in Nat : product = u * r
  BY MulNat
<1>2. PICK q \in Nat : q = product \div d
  BY DivBound
<1>3. q * d <= product /\ q * d + (d - 1) >= product
  BY <1>2, DivBound, DivNear
<1>4. r * u <= d * u
  BY MulMono
<1>5. u * r = r * u /\ d * u = u * d /\ q * d \in Nat /\ u * d \in Nat
  BY MulNat
<1>6. q * d <= u * d
  BY <1>1, <1>3, <1>4, <1>5
<1>7. q <= u
  BY <1>6, MulCancel
<1> QED
  BY <1>1, <1>2, <1>3, <1>7

LEMMA ShareFull ==
  ASSUME NEW u \in Nat, NEW r \in Nat, NEW d \in Nat \ {0}, d <= r
  PROVE  (u * r) \div d \in Nat /\ (u * r) \div d >= u
<1>1. PICK product \in Nat : product = u * r
  BY MulNat
<1>2. PICK q \in Nat : q = product \div d
  BY <1>1, DivBound
<1>3. q * d + (d - 1) >= product
  BY <1>1, <1>2, DivNear
<1>4. d * u <= r * u /\ u * r = r * u
  BY MulMono
<1>5. PICK least \in Nat : least = d * u
  BY MulNat
<1>6. least <= product
  BY <1>1, <1>4, <1>5
<1>7. q * d + d > least
  BY <1>1, <1>2, <1>3, <1>5, <1>6
<1>8. (q + 1) * d = q * d + d /\ u * d = d * u
  BY <1>2, Distributes
<1>9. ~((q + 1) * d <= u * d)
  BY <1>5, <1>7, <1>8
<1>10. CASE q + 1 <= u
  BY <1>2, <1>9, <1>10, MulMono
<1> QED
  BY <1>1, <1>2, <1>10

LEMMA LossAdds ==
  ASSUME NEW g \in Int, NEW k \in Nat, NEW t \in Nat, NEW s \in Nat, NEW u \in Nat, NEW r \in Nat,
         NEW d \in Nat \ {0}, g * d + k * (d - 1) >= t * r, s * d + (d - 1) >= u * r
  PROVE  (g + s) * d + (k + 1) * (d - 1) >= (t + u) * r
<1>1. /\ (g + s) * d = g * d + s * d
      /\ (k + 1) * (d - 1) = k * (d - 1) + (d - 1)
      /\ (t + u) * r = t * r + u * r
  BY Distributes
<1>2. PICK gd \in Int : gd = g * d
  OBVIOUS
<1>3. PICK sd \in Int : sd = s * d
  OBVIOUS
<1>4. PICK kd \in Int : kd = k * (d - 1)
  OBVIOUS
<1>5. PICK tr \in Int : tr = t * r
  OBVIOUS
<1>6. PICK ur \in Int : ur = u * r
  OBVIOUS
<1> QED
  BY <1>1, <1>2, <1>3, <1>4, <1>5, <1>6

LEMMA LossInAll ==
  ASSUME NEW x \in Int, NEW r \in Nat, NEW n \in Nat \ {0}, NEW d \in Nat \ {0},
         (x + r) * d + n * (d - 1) >= d * r
  PROVE  x + n > 0
<1>1. (x + r) * d = x * d + r * d /\ n * (d - 1) = n * d - n /\ d * r = r * d
      /\ (x + n) * d = x * d + n * d
  BY Distributes
<1>2. PICK xd \in Int : xd = x * d
  OBVIOUS
<1>3. PICK rd \in Int : rd = r * d
  OBVIOUS
<1>4. PICK nd \in Int : nd = n * d
  OBVIOUS
<1>5. (x + n) * d >= n
  BY <1>1, <1>2, <1>3, <1>4
<1>6. CASE x + n <= 0
  <2>1. (x + n) * d <= 0 * d /\ 0 * d = 0
    <3>1. (0 - (x + n)) * d >= 0
      BY <1>6, MulNat
    <3> QED
      BY <1>1, <1>2, <1>4, <1>5, <3>1
  <2> QED
    BY <1>5, <2>1
<1> QED
  BY <1>6

(***************************************************************************)
(* As long as the marginal bids ask for all that is left, the records so   *)
(* far lack less than one unit for each.                                   *)
(***************************************************************************)
Wasting ==
  /\ tier[1] = 0
  /\ marginalDemand >= remaining =>
       /\ pc = "split" =>
            (granted - (Capacity - remaining)) * marginalDemand + (at - 1) * (marginalDemand - 1)
              >= tier[at] * remaining
       /\ pc = "done" => granted > Capacity - Len(marginalBids)

LEMMA SplitMarginalWasting ==
  ASSUME NoWrap, IInv, Wasting, SplitMarginal
  PROVE  Wasting'
<1> DEFINE bid == marginalBids[at]
           given == granted - (Capacity - remaining)
<1>1. /\ pc = "split" /\ pc' = pc /\ at <= Len(marginalBids) /\ at' = at + 1
      /\ IF IsVirtual(bid) THEN UNCHANGED granted ELSE granted' = granted + Share(bid)
      /\ UNCHANGED <<remaining, marginalDemand, tier>>
  BY DEF SplitMarginal, Allocate
<1>2. /\ marginalBids \in Seq(Bid) /\ at \in Nat \ {0} /\ tier \in Seq(Nat)
      /\ granted \in Nat /\ remaining \in Nat /\ remaining <= Capacity /\ Capacity \in Nat
      /\ marginalDemand \in Nat \ {0} /\ Word \in Nat \ {0}
  BY <1>1, CapacityAssumption, WordAssumption DEF IInv, TypeOK, Splitting
<1>3. /\ at \in 1..Len(marginalBids) /\ bid \in Bid /\ Len(marginalBids) \in Nat
  BY <1>1, <1>2
<1>4. /\ tier[at] \in Nat /\ tier[at + 1] = tier[at] + RealUnits(bid)
      /\ IsVirtual(bid) \/ bid.units <= MaxUnits
      /\ bid.units \in Nat
  <2>1. bid.units \in 0..(Word - 1)
    BY <1>3 DEF Bid
  <2>2. /\ tier[at] \in Nat /\ tier[at + 1] = tier[at] + RealUnits(bid)
        /\ IsVirtual(bid) \/ bid.units <= MaxUnits
    BY <1>2, <1>3 DEF IInv, Tiers
  <2> QED
    BY <1>2, <2>1, <2>2
<1>5. given \in Int
  BY <1>2
<1>6. SUFFICES ASSUME marginalDemand >= remaining
               PROVE  (granted' - (Capacity - remaining)) * marginalDemand + at * (marginalDemand - 1)
                        >= tier[at + 1] * remaining
  BY <1>1, <1>2 DEF Wasting
<1>7. given * marginalDemand + (at - 1) * (marginalDemand - 1) >= tier[at] * remaining
  BY <1>1, <1>6 DEF Wasting
<1> HIDE DEF bid
<1>8. CASE IsVirtual(bid)
  <2>1. tier[at + 1] = tier[at] /\ granted' - (Capacity - remaining) = given
    BY <1>1, <1>4, <1>8 DEF RealUnits
  <2> HIDE DEF given
  <2>2. at * (marginalDemand - 1) >= (at - 1) * (marginalDemand - 1)
    BY <1>2
  <2>3. PICK x \in Int : x = given * marginalDemand
    BY <1>2, <1>5
  <2>4. PICK y \in Int : y = at * (marginalDemand - 1)
    BY <1>2
  <2>5. PICK z \in Int : z = (at - 1) * (marginalDemand - 1)
    BY <1>2
  <2>6. PICK w \in Int : w = tier[at] * remaining
    BY <1>2, <1>4
  <2>7. x + y >= w
    BY <1>7, <2>2, <2>3, <2>4, <2>5, <2>6
  <2> QED
    BY <2>1, <2>3, <2>4, <2>6, <2>7
<1>9. CASE ~IsVirtual(bid)
  <2>1. Share(bid) = Capped((bid.units * remaining) \div marginalDemand, bid.units)
    BY <1>2, <1>4, <1>9, SmallProduct DEF Share
  <2>2. /\ (bid.units * remaining) \div marginalDemand \in Nat
        /\ (bid.units * remaining) \div marginalDemand <= bid.units
        /\ ((bid.units * remaining) \div marginalDemand) * marginalDemand + (marginalDemand - 1)
             >= bid.units * remaining
    BY <1>2, <1>4, <1>6, ShareLoss
  <2>3. Share(bid) = (bid.units * remaining) \div marginalDemand
    BY <1>4, <2>1, <2>2 DEF Capped
  <2>4. PICK share \in Nat : share = Share(bid)
    BY <2>2, <2>3
  <2>5. share * marginalDemand + (marginalDemand - 1) >= bid.units * remaining
    BY <2>2, <2>3, <2>4
  <2>6. PICK k \in Nat : k = at - 1
    BY <1>2
  <2>7. granted' - (Capacity - remaining) = given + share /\ tier[at + 1] = tier[at] + bid.units
        /\ at = k + 1
    BY <1>1, <1>2, <1>4, <1>9, <2>4, <2>6 DEF RealUnits
  <2> HIDE DEF given
  <2>8. (given + share) * marginalDemand + (k + 1) * (marginalDemand - 1)
          >= (tier[at] + bid.units) * remaining
    BY <1>2, <1>4, <1>5, <1>7, <2>5, <2>6, LossAdds
  <2> QED
    BY <2>7, <2>8
<1> QED
  BY <1>8, <1>9

LEMMA EndSplitWasting ==
  ASSUME NoWrap, IInv, Wasting, EndSplit
  PROVE  Wasting'
<1>1. /\ pc = "split" /\ pc' = "done" /\ at > Len(marginalBids)
      /\ UNCHANGED <<granted, remaining, marginalBids, marginalDemand, tier>>
  BY DEF EndSplit
<1>2. /\ marginalBids \in Seq(Bid) /\ tier \in Seq(Nat) /\ at = Len(marginalBids) + 1
      /\ granted \in Nat /\ remaining \in Nat /\ Capacity \in Nat
      /\ marginalDemand \in Nat \ {0} /\ Len(tier) = Len(marginalBids) + 1
      /\ marginalDemand = tier[Len(tier)]
  BY <1>1, CapacityAssumption, WordAssumption DEF IInv, TypeOK, Splitting, Tiers
<1>3. tier[1] = 0
  BY DEF Wasting
<1>4. PICK n \in Nat \ {0} : n = Len(marginalBids)
  <2>1. Len(marginalBids) \in Nat
    BY <1>2
  <2>2. Len(marginalBids) # 0
    BY <1>2, <1>3
  <2> QED
    BY <2>1, <2>2
<1>5. SUFFICES ASSUME marginalDemand >= remaining PROVE granted > Capacity - n
  BY <1>1, <1>3, <1>4 DEF Wasting
<1>6. PICK x \in Int : x = granted - Capacity
  BY <1>2
<1>7. granted - (Capacity - remaining) = x + remaining /\ at - 1 = n /\ tier[at] = marginalDemand
  BY <1>2, <1>4, <1>6
<1>8. (x + remaining) * marginalDemand + n * (marginalDemand - 1) >= marginalDemand * remaining
  BY <1>1, <1>5, <1>7 DEF Wasting
<1>9. x + n > 0
  BY <1>2, <1>8, LossInAll
<1> QED
  BY <1>2, <1>6, <1>9

LEMMA WastingInvariant == ASSUME NoWrap PROVE Spec => []Wasting
<1>1. Init => Wasting
  BY DEF Init, Wasting
<1>2. IInv /\ Wasting /\ [Next]_vars => Wasting'
  <2> SUFFICES ASSUME IInv, Wasting, [Next]_vars PROVE Wasting'
    OBVIOUS
  <2>1. CASE UNCHANGED vars
    BY <2>1 DEF vars, Wasting
  <2>2. CASE SortBids \/ FindClearingPrice \/ AllocateAbove \/ PassOver
    <3>1. pc' \notin {"split", "done"} /\ UNCHANGED tier
      BY <2>2 DEF SortBids, FindClearingPrice, BeginAllocation, AllocateAbove, PassOver, Considering
    <3> QED
      BY <3>1 DEF Wasting
  <2>3. CASE CollectMarginal
    <3>1. pc' = "allocate" /\ tier' = Append(tier, tier[Len(tier)] + RealUnits(bids[at]))
          /\ pc = "allocate" /\ at <= Len(bids)
      BY <2>3 DEF CollectMarginal, Considering
    <3>2. tier \in Seq(Nat) /\ tier[Len(tier)] + RealUnits(bids[at]) \in Nat /\ tier # <<>>
      <4>1. tier \in Seq(Nat) /\ tier[Len(tier)] \in Nat /\ RealUnits(bids[at]) \in Nat
        BY <3>1, CurrentBid
      <4> QED
        BY <4>1 DEF IInv, TypeOK
    <3>3. tier'[1] = tier[1]
      BY <3>1, <3>2, AppendProperties
    <3> QED
      BY <3>1, <3>3 DEF Wasting
  <2>4. CASE EndAllocation
    <3>1. /\ pc = "allocate" /\ at' = 1 /\ (pc' = "split" \/ (pc' = "done" /\ ~(marginalDemand > 0 /\ remaining > 0)))
          /\ UNCHANGED <<granted, remaining, marginalDemand, tier>>
      BY <2>4 DEF EndAllocation
    <3>2. /\ remaining > 0 /\ granted = Capacity - remaining /\ remaining \in 0..Capacity
          /\ marginalDemand \in Nat /\ Capacity \in Nat
      BY <3>1, CapacityAssumption, WordAssumption DEF IInv, TypeOK, Serving
    <3>3. tier[1] = 0
      BY DEF Wasting
    <3>4. CASE pc' = "split"
      <4>1. granted - (Capacity - remaining) = 0 /\ 1 - 1 = 0
        BY <3>2
      <4>2. 0 * marginalDemand + 0 * (marginalDemand - 1) >= 0 * remaining
        BY <3>2
      <4> QED
        BY <3>1, <3>3, <3>4, <4>1, <4>2 DEF Wasting
    <3>5. CASE pc' = "done"
      BY <3>1, <3>2, <3>3, <3>5 DEF Wasting
    <3> QED
      BY <3>1, <3>4, <3>5
  <2>5. CASE Return
    BY <2>1, <2>5 DEF Return
  <2> QED
    BY <2>1, <2>2, <2>3, <2>4, <2>5, SplitMarginalWasting, EndSplitWasting DEF Next
<1> QED
  BY <1>1, <1>2, Inductive, PTL DEF Spec

-----------------------------------------------------------------------------
(***************************************************************************)
(* The first pass stops once the bids passed, the last one included, ask   *)
(* for the capacity; none of them is below the clearing price.             *)
(***************************************************************************)
LEMMA Stopped ==
  ASSUME IInv, Sums, pc \notin {"sort", "price"}
  PROVE  LET S == Seen(Len(left))
             b == bids[Len(left)]
         IN  /\ S \subseteq Submitted /\ b \in Submitted /\ b \notin S
             /\ \A x \in S : ~IsVirtual(x) /\ x.price >= clearingPrice
             /\ b.price = clearingPrice /\ b.units \in Nat
             /\ Load(S) \in Nat /\ Load(S) < Capacity /\ Load(S) + b.units >= Capacity
             /\ \A x \in Submitted : x.price > clearingPrice => x \in S
<1> DEFINE n == Len(left)
           S == Seen(n)
           b == bids[n]
<1>1. /\ n \in 1..Len(bids) /\ Len(bids) \in Nat /\ left[n] > 0
      /\ \A k \in 1..(n - 1) : ~IsVirtual(bids[k])
      /\ clearingPrice = b.price /\ pc # "sort" /\ left \in Seq(0..Capacity) /\ book \in Books
  BY SortedFacts DEF IInv, TypeOK, Prefix, Search
<1>2. /\ b \in Submitted /\ b \notin S /\ S \subseteq Submitted
      /\ Seen(Len(bids) + 1) = Submitted
  BY <1>1, SeenFacts DEF IInv
<1>3. \A k \in 1..Len(bids) : bids[k].price \in Nat /\ bids[k].units \in Nat
  <2>1. \A k \in 1..Len(bids) : bids[k] \in Bid
    BY <1>1, SortedFacts DEF IInv
  <2> QED
    BY <2>1, WordAssumption DEF Bid
<1>4. \A j, k \in 1..Len(bids) : j < k => bids[j].price >= bids[k].price
  BY <1>1, SortedFacts DEF IInv
<1>5. ASSUME NEW x \in S PROVE ~IsVirtual(x) /\ x.price >= clearingPrice
  <2>1. PICK k \in 1..(n - 1) : x = bids[k]
    BY DEF Seen
  <2> QED
    BY <1>1, <1>4, <2>1
<1>6. ASSUME NEW x \in Submitted, x.price > clearingPrice PROVE x \in S
  <2>1. PICK k \in 1..Len(bids) : x = bids[k]
    BY <1>1, <1>2 DEF Seen
  <2>2. k < n
    BY <1>1, <1>3, <1>4, <1>6, <2>1
  <2> QED
    BY <1>1, <2>1, <2>2 DEF Seen
<1>7. left[n] = Capacity - Load(S) /\ b.units >= left[n]
  BY <1>1 DEF Sums
<1>8. Load(S) \in Nat /\ left[n] \in Nat
  BY <1>1, <1>2, LoadFacts, CapacityAssumption
<1> QED
  BY <1>1, <1>2, <1>3, <1>5, <1>6, <1>7, <1>8, CapacityAssumption

(***************************************************************************)
(* Above the reservation price the bids at the clearing price ask for all  *)
(* that those above it leave.                                              *)
(***************************************************************************)
LEMMA TierFills ==
  ASSUME IInv, Sums, pc \in {"split", "done"}, clearingPrice > ReservationPrice
  PROVE  tier[Len(tier)] >= remaining
<1> DEFINE S == Seen(Len(left))
           b == bids[Len(left)]
           H == Higher(Submitted)
           L == Level(Submitted)
<1>1. /\ S \subseteq Submitted /\ b \in Submitted /\ b \notin S
      /\ \A x \in S : ~IsVirtual(x) /\ x.price >= clearingPrice
      /\ b.price = clearingPrice /\ b.units \in Nat
      /\ Load(S) \in Nat /\ Load(S) + b.units >= Capacity
  BY Stopped
<1>2. /\ book \in Books /\ clearingPrice \in Nat /\ Capacity \in Nat /\ ReservationPrice \in Nat
      /\ \A x \in Submitted : x.price \in Nat
  BY SubmittedFacts, CapacityAssumption, PriceAssumption DEF IInv, TypeOK, Bid
<1>3. ~IsVirtual(b)
  BY <1>1, <1>2, SubmittedFacts DEF VirtualBid
<1> HIDE DEF S, b
<1>4. Load(S \cup {b}) = Load(S) + b.units
  BY <1>1, <1>2, <1>3, LoadFacts DEF RealUnits
<1>5. /\ H \cup L \in SUBSET Submitted /\ H \in SUBSET Submitted /\ L \in SUBSET Submitted
      /\ H \cap L = {} /\ S \cup {b} \in SUBSET (H \cup L)
  BY <1>1, <1>2 DEF Higher, Level
<1> HIDE DEF H, L
<1>6. /\ IsFiniteSet(H) /\ IsFiniteSet(L) /\ IsFiniteSet(H \cup L)
      /\ Load(H) \in Nat /\ Load(L) \in Nat /\ Load(H \cup L) \in Nat /\ Load(S \cup {b}) \in Nat
      /\ \A x \in Submitted : Asks[x] \in Nat
  <2>1. S \cup {b} \in SUBSET Submitted
    BY <1>1
  <2> QED
    BY <1>2, <1>5, <2>1, LoadFacts, AsksFacts
<1>7. Load(H \cup L) = Load(H) + Load(L)
  BY <1>5, <1>6, SumUnion DEF Load
<1>8. Load(S \cup {b}) <= Load(H \cup L)
  BY <1>5, <1>6, SumPart DEF Load
<1>9. remaining = Capacity - Load(H) /\ tier[Len(tier)] = Load(L)
  BY DEF Sums, H, L
<1> QED
  BY <1>1, <1>2, <1>4, <1>6, <1>7, <1>8, <1>9

(***************************************************************************)
(* A real bid at the price is part of the demand there.                    *)
(***************************************************************************)
LEMMA LevelDemand ==
  ASSUME NoWrap, IInv, Sums, pc \in {"split", "done"}, NEW i \in DOMAIN book,
         book[i].price = clearingPrice
  PROVE  marginalDemand # 0
<1>1. book \in Books /\ marginalDemand = tier[Len(tier)]
  BY DEF IInv, TypeOK, Tiers
<1>2. /\ book[i].units \in Nat \ {0}
      /\ RealBid(i) \in Submitted /\ ~IsVirtual(RealBid(i))
      /\ RealBid(i).units = book[i].units /\ RealBid(i).price = book[i].price
  BY <1>1, BookFacts
<1>3. RealBid(i) \in Level(Submitted) /\ Level(Submitted) \in SUBSET Submitted
  BY <1>2 DEF Level
<1>4. /\ IsFiniteSet(Level(Submitted)) /\ Load(Level(Submitted)) \in Nat
      /\ \A b \in Level(Submitted) : Asks[b] \in Nat
  BY <1>1, <1>3, LoadFacts, AsksFacts
<1>5. Asks[RealBid(i)] <= Load(Level(Submitted))
  BY <1>3, <1>4, SumHolds DEF Load
<1>6. Asks[RealBid(i)] = book[i].units
  BY <1>1, <1>2, AsksFacts DEF RealUnits
<1>7. Load(Level(Submitted)) = marginalDemand
  BY <1>1 DEF Sums
<1> QED
  BY <1>2, <1>4, <1>5, <1>6, <1>7

(***************************************************************************)
(* Rounding wastes less than one unit per marginal bid: more is left over  *)
(* only when every bid that meets the reservation price is served in full. *)
(***************************************************************************)
THEOREM LittleIsWastedHolds == ASSUME NoWrap PROVE Spec => []LittleIsWasted
<1>1. IInv /\ PriceFloorHolds /\ Records /\ Sums /\ Wasting => LittleIsWasted
  <2> SUFFICES ASSUME IInv, PriceFloorHolds, Records, Sums, Wasting, pc = "done",
                      ~(Capacity - granted < Len(marginalBids)),
                      NEW i \in DOMAIN book, book[i].price >= ReservationPrice
               PROVE  Served(i) = book[i].units
    BY DEF LittleIsWasted
  <2>1. /\ marginalDemand = tier[Len(tier)] /\ marginalDemand \in Nat /\ remaining \in Nat
        /\ granted \in Nat /\ Len(marginalBids) \in Nat /\ Capacity \in Nat
        /\ clearingPrice \in Nat /\ ReservationPrice \in Nat /\ book \in Books
    BY LenProperties, CapacityAssumption, WordAssumption, PriceAssumption DEF IInv, TypeOK, Tiers
  <2>2. ~(marginalDemand >= remaining)
    BY <2>1 DEF Wasting
  <2>3. clearingPrice = ReservationPrice
    <3>1. clearingPrice >= ReservationPrice
      BY DEF PriceFloorHolds
    <3>2. ~(clearingPrice > ReservationPrice)
      BY <2>1, <2>2, TierFills
    <3> QED
      BY <2>1, <3>1, <3>2
  <2>4. /\ book[i].price \in Nat /\ book[i].units \in Nat \ {0}
    BY <2>1, BookFacts
  <2>5. CASE book[i].price > clearingPrice
    BY <2>5, ServedIs
  <2>6. CASE book[i].price = clearingPrice
    <3>1. marginalDemand # 0
      BY <2>6, LevelDemand
    <3>2. Share(RealBid(i)) = Capped((book[i].units * remaining) \div marginalDemand, book[i].units)
      BY <3>1, ShareIs
    <3>3. marginalDemand \in Nat \ {0} /\ marginalDemand <= remaining
      BY <2>1, <2>2, <3>1
    <3>4. PICK q \in Nat : q = (book[i].units * remaining) \div marginalDemand /\ q >= book[i].units
      BY <2>1, <2>4, <3>3, ShareFull
    <3>5. Share(RealBid(i)) = book[i].units
      BY <2>4, <3>2, <3>4 DEF Capped
    <3>6. ~(book[i].price > clearingPrice)
      BY <2>4, <2>6
    <3> QED
      BY <2>6, <3>1, <3>5, <3>6, ServedIs
  <2> QED
    BY <2>1, <2>3, <2>4, <2>5, <2>6
<1> QED
  BY <1>1, Inductive, PriceFloor, WhoInvariant, SumsInvariant, WastingInvariant, PTL

-----------------------------------------------------------------------------
(***************************************************************************)
(* The operators AuctionOutcome takes from the community modules are those *)
(* of SumTheorems.                                                         *)
(***************************************************************************)
LEMMA SameSum ==
  ASSUME NEW f, NEW S
  PROVE  Outcome!SumFunctionOnSet(f, S) = SumFunctionOnSet(f, S)
BY DEF Outcome!SumFunctionOnSet, Outcome!FoldFunctionOnSet, Outcome!MapThenFoldSet,
       SumFunctionOnSet, FoldFunctionOnSet, MapThenFoldSet

LEMMA SameMax == ASSUME NEW S PROVE Outcome!Max(S) = Max(S)
BY DEF Outcome!Max, Max

LEMMA MinOfTwo ==
  ASSUME NEW a \in Nat, NEW b \in Nat
  PROVE  Outcome!Min({a, b}) = Capped(b, a)
<1>1. \A n \in {a, b} : (\A m \in {a, b} : n <= m) => n = Capped(b, a)
  BY DEF Capped
<1>2. Capped(b, a) \in {a, b} /\ \A m \in {a, b} : Capped(b, a) <= m
  BY DEF Capped
<1> QED
  BY <1>1, <1>2 DEF Outcome!Min

(***************************************************************************)
(* The units a set of bidders asks for, as the load of their bids: the     *)
(* virtual bid counts in neither.                                          *)
(***************************************************************************)
Bids(T) == {RealBid(i) : i \in T}

LEMMA UnitsIs ==
  ASSUME book \in Books, NEW T \in SUBSET (DOMAIN book),
         NEW R \in SUBSET Submitted, Bids(T) \subseteq R, \A b \in R \ Bids(T) : IsVirtual(b)
  PROVE  Outcome!Units(book, T) = Load(R)
<1> DEFINE g == [b \in T |-> book[b].units]
           r == [i \in T |-> RealBid(i)]
<1>1. /\ DOMAIN book = 1..Len(book) /\ Len(book) \in Nat
      /\ \A i \in T : /\ book[i].units \in Nat /\ RealBid(i) \in Submitted /\ ~IsVirtual(RealBid(i))
                      /\ RealBid(i).units = book[i].units /\ RealBid(i).ingress = i
  BY BookFacts
<1>2. IsFiniteSet(T)
  <2>1. IsFiniteSet(1..Len(book))
    BY <1>1, FS_Interval
  <2> QED
    BY <1>1, <2>1, FS_Subset
<1>3. \A i \in T : g[i] \in Int /\ Asks[r[i]] = g[i]
  BY <1>1, AsksFacts DEF RealUnits
<1>4. \A i, j \in T : r[i] = r[j] => i = j
  BY <1>1
<1>5. Outcome!Units(book, T) = SumFunctionOnSet(g, T)
  BY SameSum DEF Outcome!Units
<1>6. Bids(T) = {r[i] : i \in T}
  BY DEF Bids
<1> HIDE DEF g, r
<1>7. SumFunctionOnSet(Asks, {r[i] : i \in T}) = SumFunctionOnSet(g, T)
  BY <1>2, <1>3, <1>4, SumRenamed
<1>8. Load(Bids(T)) = Outcome!Units(book, T)
  BY <1>5, <1>6, <1>7 DEF Load
<1>9. Load(R) = Load(Bids(T))
  <2>1. IsFiniteSet(R) /\ Bids(T) \in SUBSET R
    BY LoadFacts
  <2>2. (\A b \in R : Asks[b] \in Int) /\ \A b \in R \ Bids(T) : Asks[b] = 0
    BY AsksFacts DEF RealUnits
  <2> QED
    BY <2>1, <2>2, SumZeros DEF Load
<1> QED
  BY <1>8, <1>9

(***************************************************************************)
(* The first pass finds the largest price at which the bids ask for the    *)
(* capacity.                                                               *)
(***************************************************************************)
LEMMA PriceMatches ==
  ASSUME IInv, PriceFloorHolds, Sums, pc \notin {"sort", "price"}
  PROVE  Outcome!ClearingPrice(book, Capacity, ReservationPrice) = clearingPrice
<1> DEFINE S == Seen(Len(left))
           b == bids[Len(left)]
           prices == {book[i].price : i \in DOMAIN book} \cup {ReservationPrice}
           Demand(p) == Outcome!DemandAt(book, Capacity, ReservationPrice, p)
           candidates == {p \in prices : Demand(p) >= Capacity}
           At(p) == Outcome!AtLeast(book, p)
           Met(p) == IF ReservationPrice >= p THEN Capacity ELSE 0
<1>1. /\ S \subseteq Submitted /\ b \in Submitted /\ b \notin S
      /\ \A x \in S : ~IsVirtual(x) /\ x.price >= clearingPrice
      /\ b.price = clearingPrice /\ b.units \in Nat
      /\ Load(S) \in Nat /\ Load(S) < Capacity /\ Load(S) + b.units >= Capacity
      /\ \A x \in Submitted : x.price > clearingPrice => x \in S
  BY Stopped
<1>2. /\ book \in Books /\ clearingPrice \in Nat /\ Capacity \in Nat /\ ReservationPrice \in Nat
      /\ clearingPrice >= ReservationPrice
      /\ \A x \in Submitted : x.price \in Nat
  BY SubmittedFacts, CapacityAssumption, PriceAssumption DEF IInv, TypeOK, Bid, PriceFloorHolds
<1>3. \A i \in DOMAIN book :
        /\ RealBid(i) \in Submitted /\ ~IsVirtual(RealBid(i)) /\ book[i].price \in Nat
        /\ RealBid(i).price = book[i].price
  BY <1>2, BookFacts
<1>4. \A x \in Submitted : ~IsVirtual(x) => x.ingress \in DOMAIN book /\ x = RealBid(x.ingress)
  BY <1>2, BookFacts
<1> HIDE DEF S, b
<1>5. ASSUME NEW p \in Nat
      PROVE  /\ At(p) \in SUBSET (DOMAIN book) /\ Bids(At(p)) \in SUBSET Submitted
             /\ Demand(p) = Load(Bids(At(p))) + Met(p)
             /\ Load(Bids(At(p))) \in Nat
             /\ \A x \in Submitted : x \in Bids(At(p)) <=> ~IsVirtual(x) /\ x.price >= p
  <2>1. At(p) \in SUBSET (DOMAIN book)
    BY DEF Outcome!AtLeast
  <2>2. Bids(At(p)) \in SUBSET Submitted
    BY <1>3, <2>1 DEF Bids
  <2>3. Outcome!Units(book, At(p)) = Load(Bids(At(p)))
    BY <1>2, <2>1, <2>2, UnitsIs
  <2>4. Demand(p) = Load(Bids(At(p))) + Met(p)
    BY <2>3 DEF Outcome!DemandAt
  <2>5. Load(Bids(At(p))) \in Nat
    BY <1>2, <2>2, LoadFacts
  <2>6. ASSUME NEW x \in Submitted PROVE x \in Bids(At(p)) <=> ~IsVirtual(x) /\ x.price >= p
    <3>1. ASSUME x \in Bids(At(p)) PROVE ~IsVirtual(x) /\ x.price >= p
      <4>1. PICK i \in At(p) : x = RealBid(i)
        BY <3>1 DEF Bids
      <4> QED
        BY <1>3, <2>1, <4>1 DEF Outcome!AtLeast
    <3>2. ASSUME ~IsVirtual(x), x.price >= p PROVE x \in Bids(At(p))
      <4>1. x.ingress \in DOMAIN book /\ x = RealBid(x.ingress)
        BY <1>4, <3>2
      <4>2. x.ingress \in At(p)
        BY <1>3, <3>2, <4>1 DEF Outcome!AtLeast
      <4> QED
        BY <4>1, <4>2 DEF Bids
    <3> QED
      BY <3>1, <3>2
  <2> QED
    BY <2>1, <2>2, <2>4, <2>5, <2>6
<1>6. clearingPrice \in prices
  <2>1. CASE IsVirtual(b)
    <3>1. b = VirtualBid
      BY <1>1, <1>2, <2>1, SubmittedFacts
    <3> QED
      BY <1>1, <3>1 DEF VirtualBid
  <2>2. CASE ~IsVirtual(b)
    <3>1. b.ingress \in DOMAIN book /\ b = RealBid(b.ingress)
      BY <1>1, <1>4, <2>2
    <3>2. book[b.ingress].price = clearingPrice
      BY <1>1, <1>3, <3>1
    <3> QED
      BY <3>1, <3>2
  <2> QED
    BY <2>1, <2>2
<1>7. Demand(clearingPrice) >= Capacity
  <2> DEFINE A == Bids(At(clearingPrice))
  <2>1. /\ Demand(clearingPrice) = Load(A) + Met(clearingPrice) /\ Load(A) \in Nat
        /\ A \in SUBSET Submitted
        /\ \A x \in Submitted : x \in A <=> ~IsVirtual(x) /\ x.price >= clearingPrice
    BY <1>2, <1>5
  <2> HIDE DEF A, Demand
  <2>2. CASE clearingPrice = ReservationPrice
    <3>1. Met(clearingPrice) = Capacity
      BY <1>2, <2>2
    <3> QED
      BY <1>2, <2>1, <3>1
  <2>3. CASE clearingPrice # ReservationPrice
    <3>1. Met(clearingPrice) = 0
      BY <1>2, <2>3
    <3>2. ~IsVirtual(b)
      <4>1. IsVirtual(b) => b = VirtualBid
        BY <1>1, <1>2, SubmittedFacts
      <4> QED
        BY <1>1, <2>3, <4>1 DEF VirtualBid
    <3>3. S \cup {b} \in SUBSET A
      BY <1>1, <1>2, <2>1, <3>2
    <3>4. Load(S \cup {b}) = Load(S) + b.units
      BY <1>1, <1>2, <3>2, LoadFacts DEF RealUnits
    <3>5. Load(S \cup {b}) <= Load(A)
      <4>1. IsFiniteSet(A) /\ \A x \in A : Asks[x] \in Nat
        BY <1>2, <2>1, LoadFacts, AsksFacts
      <4> QED
        BY <3>3, <4>1, SumPart DEF Load
    <3> QED
      BY <1>1, <1>2, <2>1, <3>1, <3>4, <3>5
  <2> QED
    BY <2>2, <2>3
<1>8. ASSUME NEW p \in candidates PROVE p <= clearingPrice
  <2>1. p \in Nat
    BY <1>2, <1>3
  <2> SUFFICES ASSUME p > clearingPrice PROVE FALSE
    BY <1>2, <2>1
  <2> DEFINE A == Bids(At(p))
  <2>2. /\ Demand(p) = Load(A) + Met(p) /\ Load(A) \in Nat
        /\ A \in SUBSET Submitted
        /\ \A x \in Submitted : x \in A <=> ~IsVirtual(x) /\ x.price >= p
    BY <2>1, <1>5
  <2>3. Met(p) = 0
    BY <1>2, <2>1
  <2>4. Demand(p) >= Capacity
    OBVIOUS
  <2> HIDE DEF A, Demand
  <2>5. A \in SUBSET S
    BY <1>1, <1>2, <2>1, <2>2
  <2>6. Load(A) <= Load(S)
    <3>1. IsFiniteSet(S) /\ \A x \in S : Asks[x] \in Nat
      BY <1>1, <1>2, LoadFacts, AsksFacts
    <3> QED
      BY <2>5, <3>1, SumPart DEF Load
  <2> QED
    BY <1>1, <1>2, <2>2, <2>3, <2>4, <2>6
<1>9. candidates \in SUBSET Int /\ clearingPrice \in candidates
  BY <1>2, <1>3, <1>6, <1>7
<1>10. Outcome!ClearingPrice(book, Capacity, ReservationPrice) = Max(candidates)
  BY SameMax DEF Outcome!ClearingPrice
<1> HIDE DEF candidates
<1>11. Max(candidates) = clearingPrice
  BY <1>8, <1>9, MaxIs
<1> QED
  BY <1>10, <1>11

(***************************************************************************)
(* The loops leave each bidder at or above the price the award             *)
(* AuctionOutcome defines.                                                 *)
(***************************************************************************)
LEMMA AwardMatches ==
  ASSUME NoWrap, IInv, PriceFloorHolds, Sums, pc = "done", NEW i \in DOMAIN book,
         book[i].price >= clearingPrice
  PROVE  /\ book[i].price = clearingPrice => marginalDemand # 0
         /\ Outcome!Award(book, Capacity, ReservationPrice, i)
              = IF book[i].price > clearingPrice THEN book[i].units ELSE Share(RealBid(i))
<1> DEFINE A == Outcome!Above(book, clearingPrice)
           M == Outcome!Marginal(book, clearingPrice)
           H == Higher(Submitted)
           L == Level(Submitted)
<1>1. /\ book \in Books /\ clearingPrice \in Nat /\ Capacity \in Nat
      /\ remaining \in Nat /\ marginalDemand = tier[Len(tier)] /\ marginalDemand \in Nat
  BY CapacityAssumption, WordAssumption DEF IInv, TypeOK, Tiers
<1>2. /\ \A j \in DOMAIN book :
           /\ RealBid(j) \in Submitted /\ ~IsVirtual(RealBid(j)) /\ book[j].price \in Nat
           /\ RealBid(j).price = book[j].price /\ RealBid(j).units = book[j].units
           /\ book[j].units \in Nat \ {0}
      /\ \A x \in Submitted : ~IsVirtual(x) => x.ingress \in DOMAIN book /\ x = RealBid(x.ingress)
  BY <1>1, BookFacts
<1>3. H \in SUBSET Submitted /\ L \in SUBSET Submitted
  BY DEF Higher, Level
<1>4. Outcome!Units(book, A) = Load(H)
  <2>1. A \in SUBSET (DOMAIN book)
    BY DEF Outcome!Above
  <2>2. Bids(A) \subseteq H
    BY <1>2 DEF Bids, Outcome!Above, Higher
  <2>3. ASSUME NEW x \in H \ Bids(A) PROVE IsVirtual(x)
    <3> SUFFICES ASSUME ~IsVirtual(x) PROVE FALSE
      OBVIOUS
    <3>1. x.ingress \in DOMAIN book /\ x = RealBid(x.ingress) /\ x.price > clearingPrice
      BY <1>2, <1>3 DEF Higher
    <3>2. x.ingress \in A
      BY <1>2, <3>1 DEF Outcome!Above
    <3> QED
      BY <3>1, <3>2 DEF Bids
  <2> QED
    BY <1>1, <1>3, <2>1, <2>2, <2>3, UnitsIs
<1>5. Outcome!Units(book, M) = Load(L)
  <2>1. M \in SUBSET (DOMAIN book)
    BY DEF Outcome!Marginal
  <2>2. Bids(M) \subseteq L
    BY <1>2 DEF Bids, Outcome!Marginal, Level
  <2>3. ASSUME NEW x \in L \ Bids(M) PROVE IsVirtual(x)
    <3> SUFFICES ASSUME ~IsVirtual(x) PROVE FALSE
      OBVIOUS
    <3>1. x.ingress \in DOMAIN book /\ x = RealBid(x.ingress) /\ x.price = clearingPrice
      BY <1>2, <1>3 DEF Level
    <3>2. x.ingress \in M
      BY <1>2, <3>1 DEF Outcome!Marginal
    <3> QED
      BY <3>1, <3>2 DEF Bids
  <2> QED
    BY <1>1, <1>3, <2>1, <2>2, <2>3, UnitsIs
<1>6. Load(H) \in Nat /\ remaining = Capacity - Load(H) /\ marginalDemand = Load(L)
  BY <1>1, <1>3, LoadFacts DEF Sums
<1>7. Outcome!ClearingPrice(book, Capacity, ReservationPrice) = clearingPrice
  BY PriceMatches
<1>8. CASE book[i].price > clearingPrice
  <2>1. book[i].price # clearingPrice
    BY <1>1, <1>2, <1>8
  <2> QED
    BY <1>7, <1>8, <2>1 DEF Outcome!Award
<1>9. CASE book[i].price = clearingPrice
  <2>1. marginalDemand # 0
    BY <1>9, LevelDemand
  <2>2. ~(book[i].price > clearingPrice)
    BY <1>1, <1>9
  <2>3. Outcome!Award(book, Capacity, ReservationPrice, i)
          = Outcome!Min({book[i].units, (book[i].units * remaining) \div marginalDemand})
    <3>1. Capacity - Outcome!Units(book, A) = remaining /\ Outcome!Units(book, M) = marginalDemand
      BY <1>4, <1>5, <1>6
    <3> QED
      BY <1>7, <1>9, <2>2, <3>1 DEF Outcome!Award
  <2>4. (book[i].units * remaining) \div marginalDemand \in Nat /\ book[i].units \in Nat
    <3>1. PICK product \in Nat : product = book[i].units * remaining
      BY <1>1, <1>2, MulNat
    <3>2. product \div marginalDemand \in Nat
      BY <1>1, <2>1, <3>1, DivBound
    <3> QED
      BY <1>2, <3>1, <3>2
  <2>5. Outcome!Award(book, Capacity, ReservationPrice, i) = Share(RealBid(i))
    BY <2>1, <2>3, <2>4, MinOfTwo, ShareIs
  <2> QED
    BY <2>1, <2>2, <2>5
<1> QED
  BY <1>1, <1>2, <1>8, <1>9

(***************************************************************************)
(* The loops compute the outcome AuctionOutcome defines, whatever order    *)
(* the unstable sort leaves equal prices in.                               *)
(***************************************************************************)
THEOREM MatchesOutcomeHolds == ASSUME NoWrap PROVE Spec => []MatchesOutcome
<1>1. IInv /\ PriceFloorHolds /\ Records /\ Once /\ Sums => MatchesOutcome
  <2> SUFFICES ASSUME IInv, PriceFloorHolds, Records, Once, Sums, pc = "done" PROVE MatchesOutcome
    BY DEF MatchesOutcome
  <2> DEFINE awards == Outcome!Awards(book, Capacity, ReservationPrice)
             At == Outcome!AtLeast(book, clearingPrice)
             Entry(i) == [ingress |-> i, units |-> awards[i]]
  <2>1. Outcome!ClearingPrice(book, Capacity, ReservationPrice) = clearingPrice
    BY PriceMatches
  <2>2. /\ book \in Books /\ clearingPrice \in Nat /\ ReservationPrice \in Nat
        /\ clearingPrice >= ReservationPrice /\ allocations \in Seq([ingress : 0..MaxBids, units : 0..(Word - 1)])
    BY PriceAssumption DEF IInv, TypeOK, PriceFloorHolds
  <2>3. /\ \A j \in DOMAIN book :
             /\ RealBid(j) \in Submitted /\ ~IsVirtual(RealBid(j)) /\ book[j].price \in Nat
             /\ RealBid(j).price = book[j].price /\ RealBid(j).units = book[j].units
             /\ RealBid(j).ingress = j
        /\ \A x \in Submitted : ~IsVirtual(x) => x.ingress \in DOMAIN book /\ x = RealBid(x.ingress)
    BY <2>2, BookFacts
  <2>4. DOMAIN awards = At /\ At \subseteq DOMAIN book
    BY <2>1 DEF Outcome!Awards, Outcome!Allocated, Outcome!AtLeast
  <2>5. ASSUME NEW i \in At
        PROVE  /\ i \in DOMAIN book /\ book[i].price >= clearingPrice
               /\ book[i].price = clearingPrice => marginalDemand # 0
               /\ awards[i] = IF book[i].price > clearingPrice THEN book[i].units ELSE Share(RealBid(i))
    <3>1. i \in DOMAIN book /\ book[i].price >= clearingPrice
      BY DEF Outcome!AtLeast
    <3>2. awards[i] = Outcome!Award(book, Capacity, ReservationPrice, i)
      BY <2>1 DEF Outcome!Awards, Outcome!Allocated
    <3> QED
      BY <3>1, <3>2, AwardMatches
  <2>6. \A i \in DOMAIN book : book[i].price >= clearingPrice => i \in At
    BY DEF Outcome!AtLeast
  <2> HIDE DEF awards, At
  <2>7. ASSUME NEW r \in Range(allocations) PROVE \E i \in At : r = Entry(i)
    <3>1. CASE r \in AboveRecords(Submitted)
      <4>1. PICK x \in Submitted : r = Rec(x, x.units) /\ x.price > clearingPrice
        BY <3>1 DEF AboveRecords
      <4>2. ~IsVirtual(x)
        <5>1. IsVirtual(x) => x = VirtualBid
          BY <2>2, SubmittedFacts
        <5> QED
          BY <2>2, <4>1, <5>1 DEF VirtualBid
      <4>3. /\ x.ingress \in DOMAIN book /\ x = RealBid(x.ingress)
            /\ x.price = book[x.ingress].price /\ x.units = book[x.ingress].units
            /\ book[x.ingress].price \in Nat
        BY <2>3, <4>2
      <4>4. x.ingress \in At
        BY <2>2, <2>6, <4>1, <4>3
      <4>5. awards[x.ingress] = x.units
        BY <2>5, <4>1, <4>3, <4>4
      <4> QED
        BY <4>1, <4>4, <4>5 DEF Rec
    <3>2. CASE r \in MarginalRecords(Level(Submitted)) /\ marginalDemand # 0
      <4>1. PICK x \in Level(Submitted) : r = Rec(x, Share(x)) /\ ~IsVirtual(x)
        BY <3>2 DEF MarginalRecords
      <4>2. x \in Submitted /\ x.price = clearingPrice
        BY <4>1 DEF Level
      <4>3. /\ x.ingress \in DOMAIN book /\ x = RealBid(x.ingress)
            /\ x.price = book[x.ingress].price
        BY <2>3, <4>1, <4>2
      <4>4. x.ingress \in At /\ ~(book[x.ingress].price > clearingPrice)
        BY <2>2, <2>6, <4>2, <4>3
      <4>5. awards[x.ingress] = Share(x)
        BY <2>5, <4>3, <4>4
      <4> QED
        BY <4>1, <4>4, <4>5 DEF Rec
    <3>3. marginalDemand = 0 \/ marginalDemand # 0
      OBVIOUS
    <3> QED
      BY <3>1, <3>2, <3>3 DEF Records
  <2>8. ASSUME NEW i \in At PROVE Entry(i) \in Range(allocations)
    <3>1. /\ i \in DOMAIN book /\ book[i].price >= clearingPrice
          /\ book[i].price = clearingPrice => marginalDemand # 0
          /\ awards[i] = IF book[i].price > clearingPrice THEN book[i].units ELSE Share(RealBid(i))
      BY <2>5
    <3>2. /\ RealBid(i) \in Submitted /\ ~IsVirtual(RealBid(i)) /\ book[i].price \in Nat
          /\ RealBid(i).price = book[i].price /\ RealBid(i).units = book[i].units /\ RealBid(i).ingress = i
      BY <2>3, <3>1
    <3>3. CASE book[i].price > clearingPrice
      <4>1. Entry(i) = Rec(RealBid(i), RealBid(i).units)
        BY <3>1, <3>2, <3>3 DEF Rec
      <4>2. Rec(RealBid(i), RealBid(i).units) \in AboveRecords(Submitted)
        BY <3>2, <3>3 DEF AboveRecords
      <4> QED
        BY <4>1, <4>2 DEF Records
    <3>4. CASE book[i].price = clearingPrice
      <4>1. ~(book[i].price > clearingPrice) /\ marginalDemand # 0
        BY <2>2, <3>1, <3>4
      <4>2. Entry(i) = Rec(RealBid(i), Share(RealBid(i)))
        BY <3>1, <3>2, <4>1 DEF Rec
      <4>3. Rec(RealBid(i), Share(RealBid(i))) \in MarginalRecords(Level(Submitted))
        BY <3>2, <3>4 DEF MarginalRecords, Level
      <4> QED
        BY <4>1, <4>2, <4>3 DEF Records
    <3> QED
      BY <2>2, <3>1, <3>2, <3>3, <3>4
  <2>9. Range(allocations) = {Entry(i) : i \in At}
    BY <2>7, <2>8
  <2>10. Len(allocations) = Cardinality(At)
    <3> DEFINE K == 1..Len(allocations)
               f == [k \in K |-> allocations[k].ingress]
    <3>1. Len(allocations) \in Nat /\ DOMAIN allocations = K
      BY <2>2, LenProperties
    <3>2. IsFiniteSet(K) /\ Cardinality(K) = Len(allocations)
      <4>1. PICK n \in Nat : n = Len(allocations)
        BY <3>1
      <4>2. IsFiniteSet(1..n) /\ Cardinality(1..n) = IF 1 > n THEN 0 ELSE n - 1 + 1
        BY FS_Interval
      <4>3. Cardinality(1..n) = n
        BY <4>2
      <4> QED
        BY <4>1, <4>2, <4>3
    <3>3. \A k \in K : allocations[k] \in Range(allocations)
      BY <3>1 DEF Range
    <3>4. \A k \in K : f[k] \in At
      <4> SUFFICES ASSUME NEW k \in K PROVE f[k] \in At
        OBVIOUS
      <4>1. PICK i \in At : allocations[k] = Entry(i)
        BY <2>7, <3>3
      <4> QED
        BY <4>1
    <3>5. \A i \in At : \E k \in K : f[k] = i
      <4> SUFFICES ASSUME NEW i \in At PROVE \E k \in K : f[k] = i
        OBVIOUS
      <4>1. PICK k \in K : allocations[k] = Entry(i)
        BY <2>8, <3>1 DEF Range
      <4> QED
        BY <4>1
    <3>6. \A k, l \in K : f[k] = f[l] => k = l
      BY <3>1 DEF Once
    <3>7. f \in Surjection(K, At) /\ f \in Injection(K, At)
      BY <3>4, <3>5, <3>6 DEF Surjection, Injection, IsInjective
    <3> HIDE DEF f, K
    <3>8. Cardinality(At) = Cardinality(K)
      BY <3>2, <3>7, FS_Surjection
    <3> QED
      BY <3>2, <3>8
  <2> QED
    BY <2>1, <2>4, <2>9, <2>10 DEF MatchesOutcome, awards
<1> QED
  BY <1>1, Inductive, PriceFloor, WhoInvariant, SumsInvariant, PTL
=============================================================================
