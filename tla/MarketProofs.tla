---------------------------- MODULE MarketProofs ----------------------------
(***************************************************************************)
(* Proofs about the agents in their market, for every set of customers,    *)
(* valuations and balances, any traffic, and every mixture of strategies.  *)
(***************************************************************************)
EXTENDS Market, SumTheorems, SequenceTheorems

-----------------------------------------------------------------------------
(***************************************************************************)
(* Arithmetic.                                                             *)
(***************************************************************************)
LEMMA MulMono ==
  ASSUME NEW a \in Int, NEW b \in Int, NEW k \in Nat, a <= b
  PROVE  a * k <= b * k /\ a * k \in Int /\ b * k \in Int
OBVIOUS

LEMMA MulNat == ASSUME NEW a \in Nat, NEW b \in Nat PROVE a * b \in Nat
OBVIOUS

LEMMA DivNat == ASSUME NEW a \in Nat, NEW d \in Nat \ {0} PROVE a \div d \in Nat
OBVIOUS

LEMMA DivMono ==
  ASSUME NEW a \in Nat, NEW b \in Nat, NEW d \in Nat \ {0}, a <= b
  PROVE  a \div d <= b \div d /\ a \div d \in Nat /\ b \div d \in Nat
OBVIOUS

-----------------------------------------------------------------------------
(***************************************************************************)
(* The outcome of an auction.  The operators AuctionOutcome takes from the *)
(* community modules are those of SumTheorems.                             *)
(***************************************************************************)
LEMMA SameSum ==
  ASSUME NEW f, NEW S
  PROVE  Outcome!SumFunctionOnSet(f, S) = SumFunctionOnSet(f, S)
BY DEF Outcome!SumFunctionOnSet, Outcome!FoldFunctionOnSet, Outcome!MapThenFoldSet,
       SumFunctionOnSet, FoldFunctionOnSet, MapThenFoldSet

LEMMA SameMax == ASSUME NEW S PROVE Outcome!Max(S) = Max(S)
BY DEF Outcome!Max, Max

IsBook(book) ==
  /\ IsFiniteSet(DOMAIN book)
  /\ \A b \in DOMAIN book : book[b].units \in Nat \ {0} /\ book[b].price \in Nat

LEMMA UnitsFacts ==
  ASSUME NEW book, IsBook(book), NEW S \in SUBSET (DOMAIN book)
  PROVE  /\ Outcome!Units(book, S) \in Nat
         /\ \A T \in SUBSET S : Outcome!Units(book, T) <= Outcome!Units(book, S)
         /\ \A b \in S : book[b].units <= Outcome!Units(book, S)
         /\ S = {} => Outcome!Units(book, S) = 0
<1> DEFINE f == [b \in S |-> book[b].units]
<1>1. IsFiniteSet(S) /\ \A b \in S : f[b] \in Nat
  BY FS_Subset DEF IsBook
<1>2. Outcome!Units(book, S) = SumFunctionOnSet(f, S)
  BY SameSum DEF Outcome!Units
<1>3. SumFunctionOnSet(f, S) \in Nat /\ \A b \in S : f[b] <= SumFunctionOnSet(f, S)
  <2> HIDE DEF f
  <2> QED
    BY <1>1, SumNat, SumHolds
<1>4. ASSUME NEW T \in SUBSET S PROVE Outcome!Units(book, T) <= Outcome!Units(book, S)
  <2> DEFINE g == [b \in T |-> book[b].units]
  <2>1. Outcome!Units(book, T) = SumFunctionOnSet(g, T)
    BY SameSum DEF Outcome!Units
  <2>2. IsFiniteSet(T) /\ \A b \in T : g[b] = f[b]
    BY <1>1, FS_Subset
  <2> HIDE DEF f, g
  <2>3. SumFunctionOnSet(g, T) = SumFunctionOnSet(f, T)
    BY <2>2, SumSame
  <2>4. SumFunctionOnSet(f, T) <= SumFunctionOnSet(f, S)
    BY <1>1, SumPart
  <2> QED
    BY <1>2, <2>1, <2>3, <2>4
<1>5. ASSUME S = {} PROVE Outcome!Units(book, S) = 0
  <2> HIDE DEF f
  <2>1. SumFunctionOnSet(f, {}) = 0
    BY SumEmpty
  <2>2. SumFunctionOnSet(f, S) = SumFunctionOnSet(f, {})
    BY <1>5
  <2> QED
    BY <1>2, <2>1, <2>2
<1> QED
  BY <1>2, <1>3, <1>4, <1>5

(***************************************************************************)
(* The bids at or above a price ask for less and less as it rises.         *)
(***************************************************************************)
Asked(book, price) == Outcome!Units(book, Outcome!AtLeast(book, price))

LEMMA AskedFacts ==
  ASSUME NEW book, IsBook(book), NEW p \in Nat
  PROVE  Asked(book, p) \in Nat /\ Outcome!AtLeast(book, p) \in SUBSET (DOMAIN book)
<1>1. Outcome!AtLeast(book, p) \in SUBSET (DOMAIN book)
  BY DEF Outcome!AtLeast
<1> QED
  BY <1>1, UnitsFacts DEF Asked

(***************************************************************************)
(* The clearing price: nothing below the reservation price, what the bids  *)
(* above it ask for is less than the capacity, and the bids at or above it *)
(* ask for the capacity, unless it is the reservation price.               *)
(***************************************************************************)
LEMMA ClearingFacts ==
  ASSUME NEW book, IsBook(book)
  PROVE  /\ Price(book) \in Nat /\ Price(book) >= ReservationPrice
         /\ Price(book) = ReservationPrice \/ \E b \in DOMAIN book : Price(book) = book[b].price
         /\ Price(book) = ReservationPrice \/ Asked(book, Price(book)) >= Capacity
         /\ \A p \in Nat : p > Price(book) => Asked(book, p) < Capacity
<1> DEFINE prices == {book[b].price : b \in DOMAIN book} \cup {ReservationPrice}
           Called(p) == Outcome!DemandAt(book, Capacity, ReservationPrice, p)
           candidates == {p \in prices : Called(p) >= Capacity}
           Met(p) == IF ReservationPrice >= p THEN Capacity ELSE 0
<1>1. Capacity \in Nat \ {0} /\ ReservationPrice \in Nat
  BY SupplyAssumption, ReserveAssumption
<1>2. prices \in SUBSET Nat /\ IsFiniteSet(prices)
  <2> DEFINE priced == [b \in DOMAIN book |-> book[b].price]
             bid == {priced[b] : b \in DOMAIN book}
  <2>1. bid = {book[b].price : b \in DOMAIN book}
    OBVIOUS
  <2>2. IsFiniteSet(bid)
    <3> HIDE DEF priced
    <3> QED
      BY FiniteImage DEF IsBook
  <2>3. IsFiniteSet(bid \cup {ReservationPrice})
    <3> HIDE DEF bid
    <3> QED
      BY <2>2, FS_AddElement
  <2> QED
    BY <1>1, <2>1, <2>3 DEF IsBook
<1>3. \A p \in Nat : Called(p) = Asked(book, p) + Met(p) /\ Asked(book, p) \in Nat
  BY AskedFacts DEF Outcome!DemandAt, Asked
<1> HIDE DEF Called
<1>4. ReservationPrice \in candidates
  BY <1>1, <1>3
<1>5. candidates \in SUBSET Int /\ IsFiniteSet(candidates)
  BY <1>2, FS_Subset
<1>6. Price(book) = Max(candidates)
  BY SameMax DEF Price, Outcome!ClearingPrice, Called
<1>7. /\ Price(book) \in prices /\ Price(book) \in Nat
      /\ Called(Price(book)) >= Capacity
      /\ \A p \in prices : Called(p) >= Capacity => p <= Price(book)
  <2> HIDE DEF candidates
  <2>1. Max(candidates) \in candidates /\ \A p \in candidates : p <= Max(candidates)
    BY <1>4, <1>5, MaxIsLargest
  <2> QED
    BY <1>2, <1>6, <2>1 DEF candidates
<1>8. Price(book) >= ReservationPrice
  BY <1>4, <1>7
<1>9. Price(book) = ReservationPrice \/ Asked(book, Price(book)) >= Capacity
  BY <1>1, <1>3, <1>7, <1>8
<1>10. ASSUME NEW p \in Nat, p > Price(book) PROVE Asked(book, p) < Capacity
  <2> DEFINE S == Outcome!AtLeast(book, p)
             T == {q \in Nat : \E b \in S : q = book[b].price}
  <2>1. S \in SUBSET (DOMAIN book)
    BY AskedFacts
  <2>2. CASE S = {}
    BY <1>1, <2>1, <2>2, UnitsFacts DEF Asked
  <2>3. CASE S # {}
    <3>1. PICK q \in T : \A k \in T : q <= k
      <4>1. T # {} /\ T \in SUBSET Nat
        BY <2>1, <2>3 DEF IsBook
      <4> HIDE DEF T
      <4> QED
        BY <4>1, LeastNatural
    <3>2. q \in prices /\ q \in Nat /\ q >= p
      BY <2>1 DEF Outcome!AtLeast
    <3>3. Outcome!AtLeast(book, q) = S
      <4>1. \A b \in S : book[b].price >= q
        BY <2>1, <3>1 DEF IsBook
      <4>2. \A b \in DOMAIN book : book[b].price \in Nat
        BY DEF IsBook
      <4> QED
        BY <2>1, <3>2, <4>1, <4>2 DEF Outcome!AtLeast
    <3>4. Asked(book, q) = Asked(book, p)
      BY <3>3 DEF Asked
    <3>5. ~(Called(q) >= Capacity) /\ Met(q) = 0
      BY <1>1, <1>7, <1>8, <1>10, <3>2
    <3> QED
      BY <1>1, <1>3, <3>2, <3>4, <3>5
  <2> QED
    BY <2>2, <2>3
<1> QED
  BY <1>7, <1>8, <1>9, <1>10

LEMMA MinOfTwo ==
  ASSUME NEW a \in Nat, NEW b \in Nat
  PROVE  Outcome!Min({a, b}) \in Nat /\ Outcome!Min({a, b}) <= a
<1>1. \E n \in {a, b} : \A m \in {a, b} : n <= m
  OBVIOUS
<1> QED
  BY <1>1 DEF Outcome!Min

(***************************************************************************)
(* What a bid wins: no more than it asks for, all of it above the price,   *)
(* and nothing below.                                                      *)
(***************************************************************************)
LEMMA WonFacts ==
  ASSUME NEW book, IsBook(book), NEW c
  PROVE  /\ Won(book, c) \in Nat
         /\ Won(book, c) > 0 => c \in DOMAIN book /\ book[c].price >= Price(book)
         /\ c \in DOMAIN book => Won(book, c) <= book[c].units
         /\ c \in DOMAIN book /\ book[c].price > Price(book) => Won(book, c) = book[c].units
<1> DEFINE price == Outcome!ClearingPrice(book, Capacity, ReservationPrice)
           over == Outcome!Above(book, price)
           tier == Outcome!Marginal(book, price)
<1>1. /\ price = Price(book) /\ price \in Nat
      /\ \A p \in Nat : p > price => Asked(book, p) < Capacity
  BY ClearingFacts DEF Price
<1>2. Capacity \in Nat
  BY SupplyAssumption
<1>3. Outcome!Allocated(book, Capacity, ReservationPrice) = {b \in DOMAIN book : book[b].price >= price}
  BY DEF Outcome!Allocated, Outcome!AtLeast
<1> HIDE DEF price
<1>4. CASE c \notin DOMAIN book \/ ~(book[c].price >= price)
  <2>1. Won(book, c) = 0
    BY <1>3, <1>4 DEF Won
  <2>2. c \in DOMAIN book => book[c].units \in Nat /\ book[c].price \in Nat
    BY DEF IsBook
  <2> QED
    BY <1>1, <1>4, <2>1, <2>2
<1>5. CASE c \in DOMAIN book /\ book[c].price >= price
  <2>1. Won(book, c) = Outcome!Award(book, Capacity, ReservationPrice, c)
    BY <1>3, <1>5 DEF Won
  <2>2. book[c].units \in Nat \ {0} /\ book[c].price \in Nat
    BY <1>5 DEF IsBook
  <2>3. CASE book[c].price > price
    <3>1. book[c].price # price
      BY <1>1, <2>2, <2>3
    <3>2. Won(book, c) = book[c].units
      BY <2>1, <2>3, <3>1 DEF Outcome!Award, price
    <3> QED
      BY <1>1, <1>5, <2>2, <3>2
  <2>4. CASE book[c].price = price
    <3>1. ~(book[c].price > price)
      BY <1>1, <2>4
    <3>2. over = Outcome!AtLeast(book, price + 1) /\ over \in SUBSET (DOMAIN book)
      BY <1>1 DEF Outcome!Above, Outcome!AtLeast, IsBook
    <3>3. Outcome!Units(book, over) \in Nat /\ Outcome!Units(book, over) < Capacity
      <4>1. Outcome!Units(book, over) = Asked(book, price + 1)
        BY <3>2 DEF Asked
      <4> QED
        BY <1>1, <4>1, AskedFacts
    <3>4. tier \in SUBSET (DOMAIN book) /\ c \in tier
      BY <1>5, <2>4 DEF Outcome!Marginal
    <3>5. Outcome!Units(book, tier) \in Nat \ {0}
      <4>1. Outcome!Units(book, tier) \in Nat /\ book[c].units <= Outcome!Units(book, tier)
        BY <3>4, UnitsFacts
      <4> QED
        BY <2>2, <4>1
    <3>6. PICK rest \in Nat : rest = Capacity - Outcome!Units(book, over)
      BY <1>2, <3>3
    <3>7. PICK sum \in Nat \ {0} : sum = Outcome!Units(book, tier)
      BY <3>5
    <3>8. PICK share \in Nat : share = (book[c].units * rest) \div sum
      BY <2>2, MulNat, DivNat
    <3>9. Won(book, c) = Outcome!Min({book[c].units, share})
      BY <2>1, <2>4, <3>1, <3>6, <3>7, <3>8 DEF Outcome!Award, price
    <3> QED
      BY <1>1, <1>5, <2>2, <2>4, <3>1, <3>9, MinOfTwo
  <2> QED
    BY <1>1, <1>5, <2>2, <2>3, <2>4
<1> QED
  BY <1>4, <1>5

(***************************************************************************)
(* What AuctionRunner assumes of the auction it calls (OutcomeAssumption)  *)
(* holds of this one: whatever the bids, it returns a price, and a number  *)
(* of units for some of the bidders.                                       *)
(***************************************************************************)
THEOREM OutcomeFits ==
  ASSUME NEW book, IsBook(book)
  PROVE  /\ Outcome!ClearingPrice(book, Capacity, ReservationPrice) \in Nat
         /\ \E S \in SUBSET DOMAIN book :
              Outcome!Awards(book, Capacity, ReservationPrice) \in [S -> Nat]
<1> DEFINE S == Outcome!Allocated(book, Capacity, ReservationPrice)
<1>1. Outcome!ClearingPrice(book, Capacity, ReservationPrice) \in Nat
  BY ClearingFacts DEF Price
<1>2. S \in SUBSET DOMAIN book
  BY DEF Outcome!Allocated, Outcome!AtLeast
<1>3. ASSUME NEW b \in S PROVE Outcome!Award(book, Capacity, ReservationPrice, b) \in Nat
  <2>1. Won(book, b) = Outcome!Award(book, Capacity, ReservationPrice, b)
    BY DEF Won
  <2> QED
    BY <2>1, WonFacts
<1>4. Outcome!Awards(book, Capacity, ReservationPrice)
        = [b \in S |-> Outcome!Award(book, Capacity, ReservationPrice, b)]
  BY DEF Outcome!Awards
<1>5. Outcome!Awards(book, Capacity, ReservationPrice) \in [S -> Nat]
  <2> HIDE DEF S
  <2> QED
    BY <1>3, <1>4
<1> QED
  BY <1>1, <1>2, <1>5

(***************************************************************************)
(* Rounded shares of what is left add up to no more than it.               *)
(***************************************************************************)
LEMMA SumScaled ==
  ASSUME NEW f, NEW S, IsFiniteSet(S), NEW k \in Nat, \A s \in S : f[s] \in Nat
  PROVE  SumFunctionOnSet([s \in S |-> k * f[s]], S) = k * SumFunctionOnSet(f, S)
<1> DEFINE h == [s \in S |-> k * f[s]]
<1>1. \A s \in S : f[s] \in Int /\ h[s] = k * f[s]
  OBVIOUS
<1> HIDE DEF h
<1>2. SumFunctionOnSet(h, S) = k * SumFunctionOnSet(f, S)
  BY <1>1, SumTimes
<1> QED
  BY <1>2 DEF h

LEMMA SharesFit ==
  ASSUME NEW units, NEW share, NEW S, IsFiniteSet(S), NEW left \in Nat, NEW sum \in Nat \ {0},
         \A b \in S : units[b] \in Nat /\ share[b] \in Nat /\ share[b] * sum <= units[b] * left,
         SumFunctionOnSet(units, S) = sum
  PROVE  SumFunctionOnSet(share, S) <= left
<1> DEFINE given == [b \in S |-> sum * share[b]]
           exact == [b \in S |-> left * units[b]]
<1>1. PICK total \in Nat : total = SumFunctionOnSet(share, S)
  BY SumNat
<1>2. \A b \in S : given[b] \in Int /\ exact[b] \in Int /\ given[b] <= exact[b]
  <2> SUFFICES ASSUME NEW b \in S PROVE given[b] \in Int /\ exact[b] \in Int /\ given[b] <= exact[b]
    OBVIOUS
  <2>1. PICK u \in Nat : u = units[b]
    OBVIOUS
  <2>2. PICK a \in Nat : a = share[b]
    OBVIOUS
  <2>3. a * sum <= u * left /\ given[b] = sum * a /\ exact[b] = left * u
    BY <2>1, <2>2
  <2>4. sum * a = a * sum /\ left * u = u * left /\ sum * a \in Int /\ left * u \in Int
    OBVIOUS
  <2> QED
    BY <2>3, <2>4
<1>3. SumFunctionOnSet(given, S) = sum * total
  BY <1>1, SumScaled
<1>4. SumFunctionOnSet(exact, S) = left * sum
  <2>1. \A k \in Nat : SumFunctionOnSet([b \in S |-> k * units[b]], S) = k * SumFunctionOnSet(units, S)
    BY SumScaled
  <2> QED
    BY <2>1
<1> HIDE DEF given, exact
<1>5. sum * total <= left * sum
  BY <1>2, <1>3, <1>4, SumAtMost
<1>6. CASE total >= left + 1
  <2>1. (left + 1) * sum <= total * sum
    BY <1>6, MulMono
  <2>2. (left + 1) * sum = left * sum + sum /\ total * sum = sum * total
    OBVIOUS
  <2>3. PICK x \in Int : x = left * sum
    OBVIOUS
  <2>4. PICK y \in Int : y = sum * total
    OBVIOUS
  <2>5. x + sum <= y /\ y <= x
    BY <1>5, <2>1, <2>2, <2>3, <2>4
  <2> QED
    BY <2>5
<1> QED
  BY <1>1, <1>6

(***************************************************************************)
(* The awards of an auction fit in the capacity, whatever the bids: those  *)
(* above the clearing price ask for less, and the rounded shares of those  *)
(* at it add up to no more than what is left.                              *)
(***************************************************************************)
THEOREM AwardsFitCapacity ==
  ASSUME NEW book, IsBook(book)
  PROVE  SumFunctionOnSet(Outcome!Awards(book, Capacity, ReservationPrice),
                          Outcome!Allocated(book, Capacity, ReservationPrice)) <= Capacity
<1> DEFINE price == Outcome!ClearingPrice(book, Capacity, ReservationPrice)
           over == Outcome!Above(book, price)
           level == Outcome!Marginal(book, price)
           S == Outcome!Allocated(book, Capacity, ReservationPrice)
           award == Outcome!Awards(book, Capacity, ReservationPrice)
           units == [b \in DOMAIN book |-> book[b].units]
<1>1. /\ price = Price(book) /\ price \in Nat
      /\ \A p \in Nat : p > price => Asked(book, p) < Capacity
  BY ClearingFacts DEF Price
<1>2. Capacity \in Nat
  BY SupplyAssumption
<1>3. S = {b \in DOMAIN book : book[b].price >= price}
  BY DEF Outcome!Allocated, Outcome!AtLeast
<1>4. \A b \in S : award[b] = Outcome!Award(book, Capacity, ReservationPrice, b) /\ award[b] \in Nat
  <2>1. ASSUME NEW b \in S
        PROVE  award[b] = Outcome!Award(book, Capacity, ReservationPrice, b) /\ award[b] \in Nat
    <3>1. award[b] = Outcome!Award(book, Capacity, ReservationPrice, b)
      BY DEF Outcome!Awards
    <3>2. Won(book, b) = Outcome!Award(book, Capacity, ReservationPrice, b)
      BY DEF Won
    <3> QED
      BY <3>1, <3>2, WonFacts
  <2> QED
    BY <2>1
<1> HIDE DEF price, award
<1>5. /\ over = {b \in DOMAIN book : book[b].price > price}
      /\ level = {b \in DOMAIN book : book[b].price = price}
  BY DEF Outcome!Above, Outcome!Marginal
<1>6. \A b \in DOMAIN book : book[b].units \in Nat \ {0} /\ book[b].price \in Nat
  BY DEF IsBook
<1>7. over \cup level = S /\ over \cap level = {} /\ over \in SUBSET (DOMAIN book)
      /\ level \in SUBSET (DOMAIN book)
  BY <1>1, <1>3, <1>5, <1>6
<1>8. IsFiniteSet(over) /\ IsFiniteSet(level)
  BY <1>7, FS_Subset DEF IsBook
<1>9. /\ Outcome!Units(book, over) = SumFunctionOnSet(units, over)
      /\ Outcome!Units(book, level) = SumFunctionOnSet(units, level)
  <2>1. ASSUME NEW T \in SUBSET (DOMAIN book), IsFiniteSet(T)
        PROVE  Outcome!Units(book, T) = SumFunctionOnSet(units, T)
    <3> DEFINE g == [b \in T |-> book[b].units]
    <3>1. Outcome!Units(book, T) = SumFunctionOnSet(g, T)
      BY SameSum DEF Outcome!Units
    <3>2. \A b \in T : g[b] = units[b]
      BY <2>1
    <3> HIDE DEF g, units
    <3> QED
      BY <2>1, <3>1, <3>2, SumSame
  <2> HIDE DEF over, level, units
  <2> QED
    BY <1>7, <1>8, <2>1
<1>10. Outcome!Units(book, over) \in Nat /\ Outcome!Units(book, over) < Capacity
  <2>1. over = Outcome!AtLeast(book, price + 1)
    BY <1>1, <1>5, <1>6 DEF Outcome!AtLeast
  <2>2. Outcome!Units(book, over) = Asked(book, price + 1)
    BY <2>1 DEF Asked
  <2> QED
    BY <1>1, <2>2, AskedFacts
<1>11. SumFunctionOnSet(award, over) = SumFunctionOnSet(units, over)
  <2>1. ASSUME NEW b \in over PROVE award[b] = units[b]
    <3>1. b \in S /\ b \in DOMAIN book /\ book[b].price > price
      BY <1>5, <1>7
    <3>2. Won(book, b) = award[b]
      BY <1>4, <3>1 DEF Won
    <3>3. Won(book, b) = book[b].units
      BY <1>1, <3>1, WonFacts
    <3> QED
      BY <3>1, <3>2, <3>3
  <2> HIDE DEF over, units
  <2> QED
    BY <1>8, <2>1, SumSame
<1>12. PICK left \in Nat : left = Capacity - Outcome!Units(book, over)
  BY <1>2, <1>10
<1>13. SumFunctionOnSet(award, level) <= left
  <2>1. CASE level = {}
    <3>1. SumFunctionOnSet(award, level) = SumFunctionOnSet(award, {})
      BY <2>1
    <3> QED
      BY <3>1, SumEmpty
  <2>2. CASE level # {}
    <3>1. Outcome!Units(book, level) \in Nat /\ \A b \in level : book[b].units <= Outcome!Units(book, level)
      BY <1>7, UnitsFacts
    <3>2. PICK sum \in Nat \ {0} : sum = Outcome!Units(book, level)
      BY <1>6, <1>7, <2>2, <3>1
    <3>3. ASSUME NEW b \in level
          PROVE  units[b] \in Nat /\ award[b] \in Nat /\ award[b] * sum <= units[b] * left
      <4>1. b \in S /\ b \in DOMAIN book /\ book[b].price = price /\ ~(book[b].price > price)
        BY <1>1, <1>5, <1>7
      <4>2. PICK u \in Nat : u = book[b].units
        BY <1>6, <4>1
      <4>3. PICK n \in Nat : n = u * left
        BY MulNat
      <4>4. PICK q \in Nat : q = n \div sum
        BY DivNat
      <4>5. award[b] = Outcome!Min({u, q})
        BY <1>4, <1>12, <3>2, <4>1, <4>2, <4>3, <4>4 DEF Outcome!Award, price
      <4>6. PICK a \in Nat : a = award[b]
        BY <1>4, <4>1
      <4>7. a <= q
        <5>1. {u, q} = {q, u}
          OBVIOUS
        <5>2. Outcome!Min({q, u}) <= q
          BY MinOfTwo
        <5> QED
          BY <4>5, <4>6, <5>1, <5>2
      <4>8. a * sum <= q * sum
        BY <4>7, MulMono
      <4>9. q * sum <= n
        BY <4>4
      <4>10. a * sum \in Int /\ q * sum \in Int
        OBVIOUS
      <4>11. a * sum <= n
        BY <4>8, <4>9, <4>10
      <4> QED
        BY <4>1, <4>2, <4>3, <4>6, <4>11
    <3>4. SumFunctionOnSet(units, level) = sum
      BY <1>9, <3>2
    <3> HIDE DEF level, units
    <3> QED
      BY <1>8, <3>3, <3>4, SharesFit
  <2> QED
    BY <2>1, <2>2
<1>14. SumFunctionOnSet(award, S) = SumFunctionOnSet(award, over) + SumFunctionOnSet(award, level)
  <2>1. SumFunctionOnSet(award, over \cup level)
          = SumFunctionOnSet(award, over) + SumFunctionOnSet(award, level)
    <3>1. \A b \in over \cup level : award[b] \in Int
      BY <1>4, <1>7
    <3> HIDE DEF over, level
    <3> QED
      BY <1>7, <1>8, <3>1, SumUnion
  <2> QED
    BY <1>7, <2>1
<1>15. SumFunctionOnSet(award, level) \in Int
  <2>1. \A b \in level : award[b] \in Int
    BY <1>4, <1>7
  <2> HIDE DEF level
  <2> QED
    BY <1>8, <2>1, SumInt
<1>16. SumFunctionOnSet(award, S) <= Capacity
  <2> HIDE DEF over, level, S
  <2> QED
    BY <1>2, <1>9, <1>10, <1>11, <1>12, <1>13, <1>14, <1>15
<1> QED
  BY <1>16 DEF award

-----------------------------------------------------------------------------
(***************************************************************************)
(* The strategies: what each is given, may remember and answers.           *)
(***************************************************************************)
Averages == [seen : BOOLEAN, num : Nat, den : Nat \ {0}]

IsMemory(m) ==
  /\ m = [ema |-> m.ema, prices |-> m.prices, turn |-> m.turn]
  /\ m.ema \in Averages

IsContext(ctx) ==
  /\ ctx.rx \in Nat /\ ctx.drop \in Nat
  /\ ctx.balance \in Nat /\ ctx.spent \in Nat
  /\ ctx.last \in Nat /\ ctx.won \in Nat
  /\ ctx.valuation \in Nat

IsPrice(price) == price \in Nat /\ price >= ReservationPrice

IsAnswer(a) ==
  /\ a.skip \in BOOLEAN
  /\ IsMemory(a.memory)
  /\ ~a.skip => a.units \in Nat \ {0} /\ IsPrice(a.price)

LEMMA NoMemoryFits == IsMemory(NoMemory)
BY DEF IsMemory, NoMemory, NoAverage, Averages

LEMMA BidFits ==
  ASSUME NEW units \in Nat \ {0}, NEW price, IsPrice(price), NEW m, IsMemory(m)
  PROVE  IsAnswer(Bid(units, price, m))
BY DEF IsAnswer, Bid

LEMMA UnlessFits ==
  ASSUME NEW silent \in BOOLEAN, NEW a, IsAnswer(a), NEW m, IsMemory(m)
  PROVE  IsAnswer(Unless(silent, a, m))
BY DEF IsAnswer, Unless, Skip

LEMMA FlooredFits ==
  ASSUME NEW price \in Int
  PROVE  /\ IsPrice(Floored(price)) /\ Floored(price) >= price
         /\ \A other \in Int : price <= other => Floored(price) <= Floored(other)
BY ReserveAssumption DEF IsPrice, Floored, Larger

LEMMA PercentFits ==
  ASSUME NEW demand \in Nat, NEW percent \in Nat
  PROVE  Percent(demand, percent) \in Nat \ {0}
<1>1. PICK units \in Nat : units = (demand * percent) \div 100
  BY MulNat, DivNat
<1> QED
  BY <1>1 DEF Percent, Larger

LEMMA RoundedFits ==
  ASSUME NEW n \in Nat, NEW d \in Nat \ {0}
  PROVE  /\ Rounded(n, d) \in Nat
         /\ \A m \in Nat : n <= m => Rounded(n, d) <= Rounded(m, d)
<1>1. 2 * n + d \in Nat /\ 2 * d \in Nat \ {0}
  OBVIOUS
<1>2. \A m \in Nat : 2 * m + d \in Nat /\ (n <= m => 2 * n + d <= 2 * m + d)
  OBVIOUS
<1> QED
  BY <1>1, <1>2, DivMono, DivNat DEF Rounded

LEMMA ShareFits ==
  ASSUME NEW ema \in Averages, NEW percent \in Nat
  PROVE  /\ Share(ema, percent) \in Nat
         /\ \A more \in Nat : percent <= more => Share(ema, percent) <= Share(ema, more)
<1>1. ema.num \in Nat /\ ema.den * 100 \in Nat \ {0}
  BY DEF Averages
<1>2. ASSUME NEW more \in Nat
      PROVE  /\ ema.num * more \in Nat
             /\ percent <= more => ema.num * percent <= ema.num * more
  <2>1. percent <= more => percent * ema.num <= more * ema.num
    BY <1>1, MulMono
  <2>2. percent * ema.num = ema.num * percent /\ more * ema.num = ema.num * more
    BY <1>1
  <2> QED
    BY <1>1, <2>1, <2>2, MulNat
<1>3. PICK d \in Nat \ {0} : d = ema.den * 100
  BY <1>1
<1>4. PICK n \in Nat : n = ema.num * percent
  BY <1>2
<1>5. ASSUME NEW more \in Nat, percent <= more PROVE n \div d <= (ema.num * more) \div d
  <2>1. PICK k \in Nat : k = ema.num * more /\ n <= k
    BY <1>2, <1>4, <1>5
  <2> QED
    BY <2>1, DivMono
<1> QED
  BY <1>3, <1>4, <1>5, DivNat DEF Share

LEMMA AverageFits ==
  ASSUME NEW ema \in Averages, NEW last \in Nat
  PROVE  NextAverage(ema, last) \in Averages
<1>1. ema = [seen |-> ema.seen, num |-> ema.num, den |-> ema.den] /\ ema.seen \in BOOLEAN
      /\ ema.num \in Nat /\ ema.den \in Nat \ {0}
  BY DEF Averages
<1>2. CASE ~ema.seen
  BY <1>2 DEF NextAverage, Averages
<1>3. CASE ema.seen /\ last > 0
  <2>1. Alpha[1] \in Nat /\ Alpha[2] \in Nat \ {0} /\ Alpha[2] - Alpha[1] \in Nat
    BY AlphaAssumption
  <2>2. PICK a \in Nat : a = Alpha[1] * last * ema.den
    BY <1>1, <2>1, MulNat
  <2>3. PICK b \in Nat : b = (Alpha[2] - Alpha[1]) * ema.num
    BY <1>1, <2>1, MulNat
  <2>4. PICK d \in Nat \ {0} : d = Alpha[2] * ema.den
    BY <1>1, <2>1
  <2>5. NextAverage(ema, last)
          = [ema EXCEPT !.num = Alpha[1] * last * ema.den + (Alpha[2] - Alpha[1]) * @, !.den = Alpha[2] * @]
    BY <1>3 DEF NextAverage
  <2>6. NextAverage(ema, last) = [seen |-> ema.seen, num |-> a + b, den |-> d]
    BY <1>1, <2>2, <2>3, <2>4, <2>5
  <2> QED
    BY <1>1, <2>6 DEF Averages
<1>4. CASE ema.seen /\ ~(last > 0)
  BY <1>4 DEF NextAverage
<1> QED
  BY <1>2, <1>3, <1>4

LEMMA DemandFits ==
  ASSUME NEW ctx, IsContext(ctx)
  PROVE  Demand(ctx) \in Nat /\ Silent(ctx) \in BOOLEAN
BY DEF IsContext, Demand, Silent

LEMMA ConservativeFits ==
  ASSUME NEW ctx, IsContext(ctx), NEW m, IsMemory(m)
  PROVE  IsAnswer(Conservative(ctx, m)) /\ Conservative(ctx, m).price = Floored(ctx.last)
<1>1. Percent(ctx.rx, 110) \in Nat \ {0} /\ IsPrice(Floored(ctx.last))
  <2>1. ctx.rx \in Nat /\ 110 \in Nat /\ ctx.last \in Int
    BY DEF IsContext
  <2>2. Percent(ctx.rx, 110) \in Nat \ {0}
    BY <2>1, PercentFits
  <2>3. IsPrice(Floored(ctx.last))
    BY <2>1, FlooredFits
  <2> QED
    BY <2>2, <2>3
<1> QED
  BY <1>1, BidFits DEF Conservative, Bid

LEMMA CorrectedFits ==
  ASSUME NEW ctx, IsContext(ctx), NEW m, IsMemory(m)
  PROVE  /\ IsAnswer(DemandCorrected(ctx, m))
         /\ ~DemandCorrected(ctx, m).skip => DemandCorrected(ctx, m).price = Floored(ctx.last)
<1>1. Percent(Demand(ctx), 105) \in Nat \ {0} /\ IsPrice(Floored(ctx.last))
  <2>1. Demand(ctx) \in Nat /\ 105 \in Nat /\ ctx.last \in Int
    BY DemandFits DEF IsContext
  <2>2. Percent(Demand(ctx), 105) \in Nat \ {0}
    BY <2>1, PercentFits
  <2>3. IsPrice(Floored(ctx.last))
    BY <2>1, FlooredFits
  <2> QED
    BY <2>2, <2>3
<1>2. IsAnswer(Bid(Percent(Demand(ctx), 105), Floored(ctx.last), m))
  BY <1>1, BidFits
<1> QED
  BY <1>2, UnlessFits DEF DemandCorrected, Unless, Skip, Bid

LEMMA InsensitiveFits ==
  ASSUME NEW ctx, IsContext(ctx), NEW m, IsMemory(m)
  PROVE  IsAnswer(PriceInsensitive(ctx, m))
<1>1. 1 * ReservationPrice <= Multiplier * ReservationPrice /\ ReservationPrice \in Nat
      /\ Multiplier \in Nat
  BY ReserveAssumption, ParamAssumption, MulMono
<1>2. IsPrice(ReservationPrice * Multiplier)
  BY <1>1, MulNat DEF IsPrice
<1>3. Percent(Demand(ctx), 105) \in Nat \ {0} /\ Silent(ctx) \in BOOLEAN
  <2>1. Demand(ctx) \in Nat /\ 105 \in Nat /\ Silent(ctx) \in BOOLEAN
    BY DemandFits
  <2> QED
    BY <2>1, PercentFits
<1>4. IsAnswer(Bid(Percent(Demand(ctx), 105), ReservationPrice * Multiplier, m))
  BY <1>2, <1>3, BidFits
<1> QED
  BY <1>3, <1>4, UnlessFits DEF PriceInsensitive

LEMMA ValuationFits ==
  ASSUME NEW ctx, IsContext(ctx), NEW m, IsMemory(m)
  PROVE  /\ IsAnswer(ValuationBased(ctx, m))
         /\ ~ValuationBased(ctx, m).skip => ValuationBased(ctx, m).price = Floored(ctx.valuation)
<1>1. (Larger(Demand(ctx), 1) * 105) \div 100 \in Nat \ {0}
  BY DemandFits DEF Larger
<1>2. IsPrice(Floored(ctx.valuation)) /\ Silent(ctx) \in BOOLEAN
  BY DemandFits, FlooredFits DEF IsContext
<1>3. IsAnswer(Bid((Larger(Demand(ctx), 1) * 105) \div 100, Floored(ctx.valuation), m))
  BY <1>1, <1>2, BidFits
<1> QED
  BY <1>2, <1>3, UnlessFits DEF ValuationBased, Unless, Skip, Bid

LEMMA Remembers ==
  ASSUME NEW m, IsMemory(m), NEW ema \in Averages, NEW prices, NEW f, NEW t
  PROVE  /\ IsMemory([m EXCEPT !.ema = ema])
         /\ IsMemory([m EXCEPT !.prices = prices])
         /\ IsMemory([m EXCEPT !.turn[f] = t])
BY DEF IsMemory

LEMMA ExploratoryFits ==
  ASSUME NEW ctx, IsContext(ctx), NEW m, IsMemory(m)
  PROVE  IsAnswer(Exploratory(ctx, m))
<1> DEFINE ema == NextAverage(m.ema, ctx.last)
           price == Share(ema, 100) + Epsilon
<1>1. ema \in Averages
  BY AverageFits DEF IsMemory, IsContext
<1> HIDE DEF ema
<1>2. price \in Nat
  BY <1>1, ShareFits, ParamAssumption
<1>3. /\ Percent(Demand(ctx), 105) \in Nat \ {0} /\ IsPrice(Floored(price))
      /\ IsMemory([m EXCEPT !.ema = ema]) /\ Silent(ctx) \in BOOLEAN
  <2>1. Demand(ctx) \in Nat /\ 105 \in Nat /\ Silent(ctx) \in BOOLEAN
    BY DemandFits
  <2>2. Percent(Demand(ctx), 105) \in Nat \ {0}
    BY <2>1, PercentFits
  <2>3. IsPrice(Floored(price))
    BY <1>2, FlooredFits
  <2>4. IsMemory([m EXCEPT !.ema = ema])
    BY <1>1, Remembers
  <2> QED
    BY <2>1, <2>2, <2>3, <2>4
<1>4. IsAnswer(Bid(Percent(Demand(ctx), 105), Floored(price), [m EXCEPT !.ema = ema]))
  BY <1>3, BidFits
<1>5. IsAnswer(Unless(Silent(ctx),
                      Bid(Percent(Demand(ctx), 105), Floored(price), [m EXCEPT !.ema = ema]), m))
  BY <1>3, <1>4, UnlessFits
<1> QED
  BY <1>5 DEF Exploratory, ema

(***************************************************************************)
(* The tier prices fall as the balance is spent: what is left meets a      *)
(* lower bound whenever it meets a higher one, and so does more of it.     *)
(***************************************************************************)
LEMMA LeftOverFacts ==
  ASSUME NEW ctx, IsContext(ctx)
  PROVE  /\ LeftOver(ctx, 75) => LeftOver(ctx, 50)
         /\ LeftOver(ctx, 50) => LeftOver(ctx, 25)
BY DEF IsContext, LeftOver, Remaining

LEMMA TierPriceIs ==
  ASSUME NEW ctx, IsContext(ctx), NEW ema \in Averages
  PROVE  TierPrice(ctx, ema) =
           IF LeftOver(ctx, 75) THEN Share(ema, 100) + Epsilon
           ELSE IF LeftOver(ctx, 50) THEN Share(ema, 75)
           ELSE IF LeftOver(ctx, 25) THEN Share(ema, 50) ELSE ReservationPrice
BY LeftOverFacts DEF TierPrice

LEMMA TierPriceFits ==
  ASSUME NEW ctx, IsContext(ctx), NEW ema \in Averages
  PROVE  TierPrice(ctx, ema) \in Nat
<1>1. Share(ema, 100) \in Nat /\ Share(ema, 75) \in Nat /\ Share(ema, 50) \in Nat
  BY ShareFits
<1> QED
  BY <1>1, TierPriceIs, ParamAssumption, ReserveAssumption

LEMMA BudgetFits ==
  ASSUME NEW ctx, IsContext(ctx), NEW m, IsMemory(m)
  PROVE  IsAnswer(BudgetAware(ctx, m))
<1> DEFINE ema == NextAverage(m.ema, ctx.last)
           price == TierPrice(ctx, ema)
<1>1. ema \in Averages
  BY AverageFits DEF IsMemory, IsContext
<1> HIDE DEF ema
<1>2. price \in Int
  BY <1>1, TierPriceFits
<1> HIDE DEF price
<1>3. /\ Percent(Demand(ctx), 105) \in Nat \ {0} /\ IsPrice(Floored(price))
      /\ IsMemory([m EXCEPT !.ema = ema]) /\ Silent(ctx) \in BOOLEAN
  <2>1. Demand(ctx) \in Nat /\ 105 \in Nat /\ Silent(ctx) \in BOOLEAN
    BY DemandFits
  <2>2. Percent(Demand(ctx), 105) \in Nat \ {0}
    BY <2>1, PercentFits
  <2>3. IsPrice(Floored(price))
    BY <1>2, FlooredFits
  <2>4. IsMemory([m EXCEPT !.ema = ema])
    BY <1>1, Remembers
  <2> QED
    BY <2>1, <2>2, <2>3, <2>4
<1>4. IsAnswer(Bid(Percent(Demand(ctx), 105), Floored(price), [m EXCEPT !.ema = ema]))
  BY <1>3, BidFits
<1>5. IsAnswer(Unless(Silent(ctx),
                      Bid(Percent(Demand(ctx), 105), Floored(price), [m EXCEPT !.ema = ema]), m))
  BY <1>3, <1>4, UnlessFits
<1>6. IsAnswer(Conservative(ctx, m))
  BY ConservativeFits
<1> QED
  BY <1>5, <1>6 DEF BudgetAware, ema, price

LEMMA ScaledFits ==
  ASSUME NEW ctx, IsContext(ctx), NEW tenths \in Nat
  PROVE  IsPrice(Scaled(tenths, ctx))
<1>1. CASE ctx.balance > 0
  <2>1. PICK left \in Nat : left = Larger(Remaining(ctx), 0)
    BY DEF IsContext, Remaining, Larger
  <2>2. PICK n \in Nat : n = tenths * left
    BY MulNat
  <2>3. PICK d \in Nat \ {0} : d = 10 * ctx.balance
    BY <1>1 DEF IsContext
  <2>4. Rounded(n, d) \in Int
    BY RoundedFits
  <2>5. Scaled(tenths, ctx) = Floored(Rounded(n, d))
    BY <1>1, <2>1, <2>2, <2>3 DEF Scaled
  <2> QED
    BY <2>4, <2>5, FlooredFits
<1>2. CASE ~(ctx.balance > 0)
  <2>1. Rounded(tenths, 10) \in Int
    BY RoundedFits
  <2>2. Scaled(tenths, ctx) = Floored(Rounded(tenths, 10))
    BY <1>2 DEF Scaled
  <2> QED
    BY <2>1, <2>2, FlooredFits
<1> QED
  BY <1>1, <1>2

(***************************************************************************)
(* The price of throughput_optimizer before it is scaled, and its share of *)
(* the demand, by what it takes the demand and the last price to be.       *)
(***************************************************************************)
Tenths(ctx, high, cheap) ==
  CASE high /\ cheap   -> 10 * ctx.valuation
    [] high /\ ~cheap  -> 10 * (IF ctx.last > 0 THEN ctx.last ELSE ReservationPrice)
    [] ~high /\ cheap  -> Larger(9 * ctx.last, 10 * ReservationPrice)
    [] ~high /\ ~cheap -> 10 * ReservationPrice

Portion(high, cheap) ==
  CASE high /\ cheap -> 120 [] high /\ ~cheap -> 105
    [] ~high /\ cheap -> 80 [] ~high /\ ~cheap -> 50

LEMMA TenthsFits ==
  ASSUME NEW ctx, IsContext(ctx), NEW high \in BOOLEAN, NEW cheap \in BOOLEAN
  PROVE  Tenths(ctx, high, cheap) \in Nat /\ Portion(high, cheap) \in Nat
<1>1. ctx.valuation \in Nat /\ ctx.last \in Nat /\ ReservationPrice \in Nat
  BY ReserveAssumption DEF IsContext
<1>2. CASE high /\ cheap
  BY <1>1, <1>2 DEF Tenths, Portion
<1>3. CASE high /\ ~cheap
  BY <1>1, <1>3 DEF Tenths, Portion
<1>4. CASE ~high /\ cheap
  BY <1>1, <1>4 DEF Tenths, Portion, Larger
<1>5. CASE ~high /\ ~cheap
  BY <1>1, <1>5 DEF Tenths, Portion
<1> QED
  BY <1>2, <1>3, <1>4, <1>5

IsHigh(ctx) == Demand(ctx) >= HighDemand

LEMMA OptimizerIs ==
  ASSUME NEW ctx, IsContext(ctx), NEW m
  PROVE  /\ Cheap(m.prices, ctx.last) \in BOOLEAN /\ IsHigh(ctx) \in BOOLEAN
         /\ ThroughputOptimizer(ctx, m) =
              Unless(Silent(ctx),
                     Bid(Percent(Demand(ctx), Portion(IsHigh(ctx), Cheap(m.prices, ctx.last))),
                         Scaled(Tenths(ctx, IsHigh(ctx), Cheap(m.prices, ctx.last)), ctx),
                         [m EXCEPT !.prices = Remember(@, ctx.last)]),
                     m)
<1>1. Cheap(m.prices, ctx.last) \in BOOLEAN
  BY DEF Cheap
<1>2. IsHigh(ctx) \in BOOLEAN
  BY DEF IsHigh
<1>3. ThroughputOptimizer(ctx, m) =
        Unless(Silent(ctx),
               Bid(Percent(Demand(ctx), Portion(IsHigh(ctx), Cheap(m.prices, ctx.last))),
                   Scaled(Tenths(ctx, IsHigh(ctx), Cheap(m.prices, ctx.last)), ctx),
                   [m EXCEPT !.prices = Remember(@, ctx.last)]),
               m)
  BY Zenon DEF ThroughputOptimizer, Tenths, Portion, IsHigh
<1> QED
  BY <1>1, <1>2, <1>3

LEMMA OptimizerFits ==
  ASSUME NEW ctx, IsContext(ctx), NEW m, IsMemory(m)
  PROVE  IsAnswer(ThroughputOptimizer(ctx, m))
<1> DEFINE high == IsHigh(ctx)
           cheap == Cheap(m.prices, ctx.last)
           units == Percent(Demand(ctx), Portion(high, cheap))
           price == Scaled(Tenths(ctx, high, cheap), ctx)
           after == [m EXCEPT !.prices = Remember(@, ctx.last)]
<1>1. high \in BOOLEAN /\ cheap \in BOOLEAN
      /\ ThroughputOptimizer(ctx, m) = Unless(Silent(ctx), Bid(units, price, after), m)
  BY OptimizerIs
<1>2. IsMemory(after)
  <2>1. after = [m EXCEPT !.prices = Remember(m.prices, ctx.last)]
    OBVIOUS
  <2>2. m.ema \in Averages
    BY DEF IsMemory
  <2> QED
    BY <2>1, <2>2, Remembers
<1> HIDE DEF high, cheap, after
<1>3. Tenths(ctx, high, cheap) \in Nat /\ Portion(high, cheap) \in Nat
  BY <1>1, TenthsFits
<1>4. Demand(ctx) \in Nat /\ Silent(ctx) \in BOOLEAN
  BY DemandFits
<1>5. units \in Nat \ {0}
  BY <1>3, <1>4, PercentFits
<1>6. IsPrice(price)
  BY <1>3, ScaledFits
<1> HIDE DEF units, price
<1>7. IsAnswer(Bid(units, price, after))
  BY <1>2, <1>5, <1>6, BidFits
<1> QED
  BY <1>1, <1>4, <1>7, UnlessFits

LEMMA LearningFits ==
  ASSUME NEW ctx, IsContext(ctx), NEW m, IsMemory(m), NEW action \in Actions
  PROVE  IsAnswer(QLearning(ctx, m, action))
<1> DEFINE price == Rounded(Floored(ctx.last) * ActionPercents[action], 100)
           after == [m EXCEPT !.turn[ctx.flow] = Turn(ctx, action)]
<1>1. ctx.last \in Int /\ Demand(ctx) \in Nat /\ Silent(ctx) \in BOOLEAN /\ 105 \in Nat
  BY DemandFits DEF IsContext
<1>2. price \in Int
  <2>1. PICK base \in Nat : base = Floored(ctx.last)
    BY <1>1, FlooredFits DEF IsPrice
  <2>2. ActionPercents[action] \in Nat
    BY DEF Actions, ActionPercents
  <2>3. PICK n \in Nat : n = Floored(ctx.last) * ActionPercents[action]
    BY <2>1, <2>2, MulNat
  <2>4. Rounded(n, 100) \in Nat
    BY RoundedFits
  <2> QED
    BY <2>3, <2>4
<1>3. IsMemory(after)
  <2>1. m.ema \in Averages
    BY DEF IsMemory
  <2> QED
    BY <2>1, Remembers
<1>4. QLearning(ctx, m, action)
        = Unless(Silent(ctx), Bid(Percent(Demand(ctx), 105), Floored(price), after), m)
  BY DEF QLearning
<1> HIDE DEF price, after
<1>5. Percent(Demand(ctx), 105) \in Nat \ {0}
  BY <1>1, PercentFits
<1>6. IsPrice(Floored(price))
  BY <1>2, FlooredFits
<1>7. IsAnswer(Bid(Percent(Demand(ctx), 105), Floored(price), after))
  BY <1>3, <1>5, <1>6, BidFits
<1> QED
  BY <1>1, <1>4, <1>7, UnlessFits

(***************************************************************************)
(* Whatever the strategy, an answer is a bid validateBid accepts; those    *)
(* that follow the last price bid it, and valuation_based its valuation,   *)
(* or the reservation price if that is higher.                             *)
(***************************************************************************)
LEMMA AnswerFits ==
  ASSUME NEW ctx, IsContext(ctx), NEW m, IsMemory(m), NEW action \in Actions,
         NEW name \in StrategyNames
  PROVE  /\ IsAnswer(ComputeBid(name, ctx, m, action))
         /\ name \in Followers /\ ~ComputeBid(name, ctx, m, action).skip
              => ComputeBid(name, ctx, m, action).price = Floored(ctx.last)
         /\ name = "valuation_based" /\ ~ComputeBid(name, ctx, m, action).skip
              => ComputeBid(name, ctx, m, action).price = Floored(ctx.valuation)
<1>1. CASE name = "conservative"
  BY <1>1, ConservativeFits DEF ComputeBid
<1>2. CASE name = "demand_corrected"
  BY <1>2, CorrectedFits DEF ComputeBid
<1>3. CASE name = "price_insensitive"
  BY <1>3, InsensitiveFits DEF ComputeBid, Followers
<1>4. CASE name = "budget_aware"
  BY <1>4, BudgetFits DEF ComputeBid, Followers
<1>5. CASE name = "exploratory"
  BY <1>5, ExploratoryFits DEF ComputeBid, Followers
<1>6. CASE name = "q_learning"
  BY <1>6, LearningFits DEF ComputeBid, Followers
<1>7. CASE name = "valuation_based"
  BY <1>7, ValuationFits DEF ComputeBid, Followers
<1>8. CASE name = "throughput_optimizer"
  BY <1>8, OptimizerFits DEF ComputeBid, Followers
<1> QED
  BY <1>1, <1>2, <1>3, <1>4, <1>5, <1>6, <1>7, <1>8 DEF StrategyNames

-----------------------------------------------------------------------------
(***************************************************************************)
(* The inductive invariant: what each variable holds, and what every bid   *)
(* in a book or on its way has in common with the strategy it is from.     *)
(***************************************************************************)
Counters ==
  /\ strategy \in Populations
  /\ spent \in [Customers -> Nat]
  /\ runs \in [Customers -> 0..MaxRuns]
  /\ auctions \in 0..MaxAuctions
  /\ faults \in 0..MaxFaults
  /\ led \in Nat

Booked(book) == DOMAIN book \subseteq Customers /\ \A c \in DOMAIN book : book[c] \in Bids

BooksKept ==
  /\ books = [p \in Flows |-> books[p]]
  /\ \A p \in Flows : Booked(books[p])

Recorded(r, number) ==
  /\ r.interval \in 1..number
  /\ r.port \in Flows
  /\ IsPrice(r.price)
  /\ DOMAIN r.units \subseteq Customers
  /\ \A c \in DOMAIN r.units : r.units[c] \in Nat

HistoryKept == \A r \in history : Recorded(r, auctions)

Stages ==
  [pc : {"idle", "flow", "post"}, todo : Seq(Flows), credits : [balance : Nat, spent : Nat],
   bid : Bids \cup {<<>>}]

AgentsKept ==
  /\ agent \in [Customers -> Stages]
  /\ \A c \in Customers : agent[c].pc = "post" => agent[c].bid \in Bids /\ agent[c].todo # <<>>

MemoryKept ==
  /\ memory = [c \in Customers |-> memory[c]]
  /\ \A c \in Customers : IsMemory(memory[c])

\* a bid a customer may make: the price of valuation_based is its valuation, and
\*   that of a follower is not above every other
Honest(c, bid) == strategy[c] = "valuation_based" => bid.price = Floored(Valuation[c])
Led(price) == price <= Larger(led, ReservationPrice)

BidsKept ==
  /\ \A p \in Flows : \A c \in DOMAIN books[p] : Honest(c, books[p][c]) /\ Led(books[p][c].price)
  /\ \A c \in Customers : agent[c].pc = "post"
       => Honest(c, agent[c].bid) /\ (strategy[c] \in Followers => Led(agent[c].bid.price))
  /\ \A r \in history : Led(r.price)

IInv == Counters /\ BooksKept /\ HistoryKept /\ AgentsKept /\ MemoryKept /\ BidsKept

LEMMA BidsAre ==
  /\ Bids = [units : Nat \ {0}, price : {p \in Nat : p >= ReservationPrice}]
  /\ \A b \in Bids : b.units \in Nat \ {0} /\ IsPrice(b.price)
  /\ \A units \in Nat \ {0} : \A price : IsPrice(price) => [units |-> units, price |-> price] \in Bids
<1>1. Nat \ (0..(ReservationPrice - 1)) = {p \in Nat : p >= ReservationPrice}
  BY ReserveAssumption
<1> QED
  BY <1>1 DEF Bids, IsPrice

LEMMA LargerIs ==
  ASSUME NEW a \in Int, NEW b \in Int
  PROVE  Larger(a, b) \in {a, b} /\ Larger(a, b) >= a /\ Larger(a, b) >= b
BY DEF Larger

LEMMA BookedIs ==
  ASSUME NEW book, Booked(book)
  PROVE  IsBook(book)
BY CustomerAssumption, BidsAre, FS_Subset DEF Booked, IsBook, IsPrice

-----------------------------------------------------------------------------
LEMMA InitInv == ASSUME Init PROVE IInv
<1> USE DEF Init
<1>1. Counters
  BY BoundAssumption DEF Counters
<1>2. BooksKept
  BY DEF BooksKept, Booked
<1>3. HistoryKept
  BY DEF HistoryKept
<1>4. AgentsKept
  BY DEF AgentsKept, Stages, Asleep, NoCredits
<1>5. MemoryKept
  BY NoMemoryFits DEF MemoryKept
<1>6. BidsKept
  BY DEF BidsKept, Asleep
<1> QED
  BY <1>1, <1>2, <1>3, <1>4, <1>5, <1>6 DEF IInv

(***************************************************************************)
(* An agent that turns to its next flow, or wakes, sleeps or restarts, has *)
(* no bid on its way.                                                      *)
(***************************************************************************)
LEMMA Turns ==
  ASSUME AgentsKept, NEW c \in Customers, NEW s \in Stages, s.pc # "post",
         agent' = [agent EXCEPT ![c] = s]
  PROVE  /\ AgentsKept'
         /\ \A d \in Customers : agent'[d].pc = "post" => agent[d].pc = "post" /\ agent'[d] = agent[d]
<1>1. agent' \in [Customers -> Stages] /\ agent'[c] = s
      /\ \A d \in Customers \ {c} : agent'[d] = agent[d]
  BY DEF AgentsKept
<1> QED
  BY <1>1 DEF AgentsKept

LEMMA NextFlowTurns ==
  ASSUME AgentsKept, NEW c \in Customers, agent[c].todo # <<>>, NextFlow(c)
  PROVE  /\ AgentsKept'
         /\ \A d \in Customers : agent'[d].pc = "post" => agent[d].pc = "post" /\ agent'[d] = agent[d]
<1> DEFINE s == [pc |-> "flow", todo |-> Tail(agent[c].todo), credits |-> agent[c].credits,
                 bid |-> <<>>]
<1>1. agent[c].todo \in Seq(Flows) /\ agent[c].credits \in [balance : Nat, spent : Nat]
  BY DEF AgentsKept, Stages
<1>2. Tail(agent[c].todo) \in Seq(Flows)
  BY <1>1, HeadTailProperties
<1>3. s \in Stages /\ s.pc # "post"
  BY <1>1, <1>2 DEF Stages
<1>4. agent' = [agent EXCEPT ![c] = s]
  BY DEF NextFlow
<1> HIDE DEF s
<1> QED
  BY <1>3, <1>4, Turns

(***************************************************************************)
(* Where no bid is made and the market does not change, BidsKept stays.    *)
(***************************************************************************)
LEMMA NothingNew ==
  ASSUME BidsKept, UNCHANGED <<strategy, books, history, led>>,
         \A d \in Customers : agent'[d].pc = "post" => agent[d].pc = "post" /\ agent'[d] = agent[d]
  PROVE  BidsKept'
BY DEF BidsKept, Honest, Led

LEMMA WakeInv ==
  ASSUME IInv, NEW c \in Customers, NEW credits \in [balance : Nat, spent : Nat],
         Wake(c, credits), faults' \in 0..MaxFaults
  PROVE  IInv'
<1> USE DEF IInv, Wake
<1> DEFINE s == [pc |-> "flow", todo |-> EgressPorts, credits |-> credits, bid |-> <<>>]
<1>1. s \in Stages /\ s.pc # "post"
  BY PortAssumption DEF Stages
<1>2. agent' = [agent EXCEPT ![c] = s]
  OBVIOUS
<1> HIDE DEF s
<1>3. /\ AgentsKept'
      /\ \A d \in Customers : agent'[d].pc = "post" => agent[d].pc = "post" /\ agent'[d] = agent[d]
  BY <1>1, <1>2, Turns
<1>4. BidsKept'
  BY <1>3, NothingNew
<1>5. Counters'
  BY BoundAssumption DEF Counters
<1>6. BooksKept' /\ HistoryKept' /\ MemoryKept'
  BY DEF BooksKept, HistoryKept, Recorded, MemoryKept
<1> QED
  BY <1>3, <1>4, <1>5, <1>6

(***************************************************************************)
(* What the agent reads before it bids.                                    *)
(***************************************************************************)
LEMMA ResultsAre ==
  ASSUME IInv, NEW c, NEW p, NEW r \in Results(c, p)
  PROVE  r.last \in Nat /\ r.won \in Nat /\ Led(Floored(r.last))
<1>0. led \in Nat /\ ReservationPrice \in Nat
  BY ReserveAssumption DEF IInv, Counters
<1>1. CASE r = NoResult
  <2>1. r.last = 0 /\ r.won = 0
    BY <1>1 DEF NoResult
  <2> QED
    BY <1>0, <2>1 DEF Led, Floored, Larger
<1>2. CASE r # NoResult
  <2>1. PICK h \in history : r = [last |-> h.price, won |-> Own(c, h)]
    BY <1>2 DEF Results
  <2>2. Recorded(h, auctions) /\ Led(h.price)
    BY DEF IInv, HistoryKept, BidsKept
  <2>3. h.price \in Nat /\ h.price >= ReservationPrice /\ Own(c, h) \in Nat
    BY <2>2 DEF Recorded, IsPrice, Own
  <2>4. Floored(h.price) = h.price
    BY <2>3 DEF Floored, Larger
  <2> QED
    BY <2>1, <2>2, <2>3, <2>4
<1> QED
  BY <1>1, <1>2

LEMMA FloorLed == ASSUME IInv PROVE Led(Floored(0))
BY ReserveAssumption DEF IInv, Counters, Led, Floored, Larger

LEMMA ContextFits ==
  ASSUME IInv, NEW c \in Customers, NEW t \in Traffic, NEW r, r.last \in Nat, r.won \in Nat
  PROVE  IsContext(Context(c, t, r))
<1>1. t.rx \in Nat /\ t.drop \in Nat
  BY TrafficAssumption
<1>2. agent[c].credits.balance \in Nat /\ agent[c].credits.spent \in Nat
  BY DEF IInv, AgentsKept, Stages
<1>3. Valuation[c] \in Nat
  BY CustomerAssumption
<1> QED
  BY <1>1, <1>2, <1>3 DEF IsContext, Context

LEMMA DecideInv ==
  ASSUME IInv, NEW c \in Customers, HasFlow(c), NEW t \in Traffic, NEW action \in Actions,
         NEW r, r.last \in Nat, r.won \in Nat, Led(Floored(r.last)),
         Decide(c, t, r, action), faults' \in 0..MaxFaults
  PROVE  IInv'
<1> DEFINE ctx == Context(c, t, r)
           a == ComputeBid(strategy[c], ctx, memory[c], action)
           bid == [units |-> a.units, price |-> a.price]
           s == [agent[c] EXCEPT !.pc = "post", !.bid = bid]
<1>1. strategy[c] \in StrategyNames
  BY CustomerAssumption DEF IInv, Counters
<1>2. IsMemory(memory[c])
  BY DEF IInv, MemoryKept
<1>3. IsContext(ctx)
  BY ContextFits
<1>4. ctx.last = r.last /\ ctx.valuation = Valuation[c]
  BY DEF Context
<1>5. /\ memory' = [memory EXCEPT ![c] = a.memory]
      /\ IF a.skip THEN NextFlow(c)
         ELSE agent' = [agent EXCEPT ![c].pc = "post", ![c].bid = bid]
      /\ UNCHANGED <<strategy, books, history, auctions, spent, runs, gained, led>>
  BY DEF Decide
<1> HIDE DEF ctx
<1>6. /\ IsAnswer(a)
      /\ strategy[c] \in Followers /\ ~a.skip => a.price = Floored(r.last)
      /\ strategy[c] = "valuation_based" /\ ~a.skip => a.price = Floored(Valuation[c])
  BY <1>1, <1>2, <1>3, <1>4, AnswerFits
<1> HIDE DEF a
<1>7. MemoryKept'
  BY <1>5, <1>6 DEF IInv, MemoryKept, IsAnswer
<1>8. Counters'
  BY <1>5 DEF IInv, Counters
<1>9. BooksKept' /\ HistoryKept'
  BY <1>5 DEF IInv, BooksKept, HistoryKept, Recorded
<1>10. CASE a.skip
  <2>1. NextFlow(c) /\ agent[c].todo # <<>> /\ AgentsKept /\ BidsKept
    BY <1>5, <1>10 DEF HasFlow, IInv
  <2>2. /\ AgentsKept'
        /\ \A d \in Customers : agent'[d].pc = "post" => agent[d].pc = "post" /\ agent'[d] = agent[d]
    BY <2>1, NextFlowTurns
  <2>3. BidsKept'
    BY <1>5, <2>1, <2>2, NothingNew
  <2> QED
    BY <1>7, <1>8, <1>9, <2>2, <2>3 DEF IInv
<1>11. CASE ~a.skip
  <2>1. bid \in Bids
    BY <1>6, <1>11, BidsAre DEF IsAnswer
  <2>2. bid.price = a.price
    OBVIOUS
  <2> HIDE DEF bid
  <2>3. agent \in [Customers -> Stages] /\ agent[c].todo # <<>> /\ agent[c].todo \in Seq(Flows)
        /\ agent[c] \in Stages
    BY DEF IInv, AgentsKept, HasFlow, Stages
  <2>4. agent' = [agent EXCEPT ![c] = s]
    BY <1>5, <1>11, <2>3
  <2>5. s \in Stages /\ s.pc = "post" /\ s.bid = bid /\ s.todo = agent[c].todo
    BY <2>1, <2>3, TrafficAssumption DEF Stages
  <2> HIDE DEF s
  <2>6. agent' \in [Customers -> Stages] /\ agent'[c] = s
        /\ \A d \in Customers \ {c} : agent'[d] = agent[d]
    BY <2>3, <2>4, <2>5
  <2>7. AgentsKept'
    BY <2>1, <2>3, <2>5, <2>6 DEF IInv, AgentsKept
  <2>8. Honest(c, bid) /\ (strategy[c] \in Followers => Led(bid.price))
    BY <1>6, <1>11, <2>2 DEF Honest
  <2>9. BidsKept'
    BY <1>5, <2>5, <2>6, <2>8 DEF IInv, BidsKept, Honest, Led
  <2> QED
    BY <1>7, <1>8, <1>9, <2>7, <2>9 DEF IInv
<1> QED
  BY <1>10, <1>11

LEMMA PlaceInv ==
  ASSUME IInv, NEW c \in Customers, NEW t \in Traffic, NEW action \in MayChoose(c),
         PlaceBid(c, t, action) \/ FetchResultFails(c, t, action)
  PROVE  IInv'
<1>1. action \in Actions
  BY ChoiceAssumption DEF MayChoose, Actions, ActionPercents
<1>2. HasFlow(c) /\ faults \in 0..MaxFaults
  BY DEF PlaceBid, FetchResultFails, IInv, Counters
<1>3. CASE PlaceBid(c, t, action)
  <2>1. PICK r \in Results(c, Flow(c)) : Decide(c, t, r, action)
    BY <1>3 DEF PlaceBid
  <2>2. r.last \in Nat /\ r.won \in Nat /\ Led(Floored(r.last))
    BY ResultsAre
  <2>3. faults' \in 0..MaxFaults
    BY <1>2, <1>3 DEF PlaceBid
  <2> QED
    BY <1>1, <1>2, <2>1, <2>2, <2>3, DecideInv
<1>4. CASE FetchResultFails(c, t, action)
  <2>1. Decide(c, t, NoResult, action)
    BY <1>4 DEF FetchResultFails
  <2>2. NoResult.last \in Nat /\ NoResult.won \in Nat /\ Led(Floored(NoResult.last))
    BY FloorLed DEF NoResult
  <2>3. faults' \in 0..MaxFaults
    BY <1>2, <1>4, BoundAssumption DEF FetchResultFails, Fault
  <2> QED
    BY <1>1, <1>2, <2>1, <2>2, <2>3, DecideInv
<1> QED
  BY <1>3, <1>4

LEMMA PostInv ==
  ASSUME IInv, NEW c \in Customers, PostBid(c)
  PROVE  IInv'
<1> DEFINE bid == agent[c].bid
           port == Flow(c)
           book == [d \in DOMAIN books[port] \cup {c} |-> IF d = c THEN bid ELSE books[port][d]]
<1>1. /\ agent[c].pc = "post" /\ agent[c].todo # <<>> /\ bid \in Bids
      /\ NextFlow(c)
      /\ books' = [books EXCEPT ![port] = book]
      /\ led' = IF strategy[c] \in Followers THEN led ELSE Larger(led, bid.price)
      /\ UNCHANGED <<strategy, history, auctions, spent, memory, runs, faults, gained, learned>>
  BY DEF PostBid, IInv, AgentsKept
<1>2. port \in Flows
  <2>1. agent[c].todo \in Seq(Flows)
    BY DEF IInv, AgentsKept, Stages
  <2> QED
    BY <1>1, <2>1, HeadTailProperties DEF Flow
<1>3. bid.price \in Nat /\ led \in Nat
  BY <1>1, BidsAre DEF IsPrice, IInv, Counters
<1> HIDE DEF bid, port
<1>4. led' \in Nat /\ led' >= led /\ (strategy[c] \notin Followers => led' >= bid.price)
  BY <1>1, <1>3, LargerIs
<1>5. /\ AgentsKept'
      /\ \A d \in Customers : agent'[d].pc = "post" => agent[d].pc = "post" /\ agent'[d] = agent[d]
  BY <1>1, NextFlowTurns DEF IInv
<1>6. books' = [p \in Flows |-> books'[p]] /\ books'[port] = book
      /\ \A p \in Flows \ {port} : books'[p] = books[p]
  <2>1. books = [p \in Flows |-> books[p]]
    BY DEF IInv, BooksKept
  <2> HIDE DEF book
  <2> QED
    BY <1>1, <1>2, <2>1
<1>7. Booked(books[port]) /\ Booked(book)
  BY <1>1, <1>2 DEF IInv, BooksKept, Booked
<1>8. BooksKept'
  BY <1>6, <1>7 DEF IInv, BooksKept, Booked
<1>9. \A price \in Nat : Led(price) => price <= Larger(led', ReservationPrice)
  BY <1>3, <1>4, ReserveAssumption DEF Led, Larger
<1>10. Honest(c, bid) /\ bid.price <= Larger(led', ReservationPrice)
  <2>1. Honest(c, bid) /\ (strategy[c] \in Followers => Led(bid.price))
    BY <1>1 DEF IInv, BidsKept, bid
  <2>2. bid.price <= led' => bid.price <= Larger(led', ReservationPrice)
    BY <1>3, <1>4, ReserveAssumption DEF Larger
  <2> QED
    BY <1>3, <1>4, <1>9, <2>1, <2>2
<1>11. BidsKept'
  <2>1. ASSUME NEW p \in Flows, NEW d \in DOMAIN books'[p]
        PROVE  /\ strategy'[d] = "valuation_based" => books'[p][d].price = Floored(Valuation[d])
               /\ books'[p][d].price <= Larger(led', ReservationPrice)
    <3>1. CASE p = port /\ d = c
      <4>1. books'[p][d] = bid
        BY <1>6, <3>1
      <4> QED
        BY <1>1, <1>10, <3>1, <4>1 DEF Honest, Led
    <3>2. CASE ~(p = port /\ d = c)
      <4>1. d \in DOMAIN books[p] /\ books'[p][d] = books[p][d]
        BY <1>6, <3>2
      <4>2. Honest(d, books[p][d]) /\ Led(books[p][d].price)
        BY <4>1 DEF IInv, BidsKept
      <4>3. books[p][d] \in Bids
        BY <4>1 DEF IInv, BooksKept, Booked
      <4>4. books[p][d].price \in Nat
        BY <4>3, BidsAre DEF IsPrice
      <4>5. books[p][d].price <= Larger(led', ReservationPrice)
        BY <1>9, <4>2, <4>4
      <4> QED
        BY <1>1, <4>1, <4>2, <4>5 DEF Honest, Led
    <3> QED
      BY <3>1, <3>2
  <2>2. ASSUME NEW d \in Customers, agent'[d].pc = "post"
        PROVE  /\ strategy'[d] = "valuation_based" => agent'[d].bid.price = Floored(Valuation[d])
               /\ strategy'[d] \in Followers
                    => agent'[d].bid.price <= Larger(led', ReservationPrice)
    <3>1. agent[d].pc = "post" /\ agent'[d] = agent[d]
      BY <1>5, <2>2
    <3>2. Honest(d, agent[d].bid) /\ (strategy[d] \in Followers => Led(agent[d].bid.price))
      BY <3>1 DEF IInv, BidsKept
    <3>3. agent[d].bid \in Bids
      BY <3>1 DEF IInv, AgentsKept
    <3>4. agent[d].bid.price \in Nat
      BY <3>3, BidsAre DEF IsPrice
    <3> QED
      BY <1>1, <1>9, <3>1, <3>2, <3>4 DEF Honest, Led
  <2>3. ASSUME NEW r \in history' PROVE r.price <= Larger(led', ReservationPrice)
    <3>1. r \in history /\ Led(r.price) /\ r.price \in Nat
      BY <1>1 DEF IInv, BidsKept, HistoryKept, Recorded, IsPrice
    <3> QED
      BY <1>9, <3>1 DEF Led
  <2> QED
    BY <2>1, <2>2, <2>3 DEF BidsKept, Honest, Led
<1>12. Counters'
  BY <1>1, <1>4 DEF IInv, Counters
<1>13. HistoryKept' /\ MemoryKept'
  BY <1>1 DEF IInv, HistoryKept, Recorded, MemoryKept
<1> QED
  BY <1>5, <1>8, <1>11, <1>12, <1>13 DEF IInv

(***************************************************************************)
(* The other steps of an agent leave the market alone, and no bid on its   *)
(* way.                                                                    *)
(***************************************************************************)
LEMMA QuietInv ==
  ASSUME IInv, NEW c \in Customers, UNCHANGED <<strategy, books, history, auctions, spent, runs, led>>,
         faults' \in 0..MaxFaults, MemoryKept', AgentsKept',
         \A d \in Customers : agent'[d].pc = "post" => agent[d].pc = "post" /\ agent'[d] = agent[d]
  PROVE  IInv'
<1>1. BidsKept'
  BY NothingNew DEF IInv
<1>2. Counters'
  BY DEF IInv, Counters
<1>3. BooksKept' /\ HistoryKept'
  BY DEF IInv, BooksKept, HistoryKept, Recorded
<1> QED
  BY <1>1, <1>2, <1>3 DEF IInv

LEMMA AsleepIs == Asleep \in Stages /\ Asleep.pc # "post"
BY DEF Asleep, NoCredits, Stages

LEMMA FaultIs == ASSUME IInv, Fault PROVE faults' \in 0..MaxFaults
BY BoundAssumption DEF IInv, Counters, Fault

LEMMA TurnInv ==
  ASSUME IInv, NEW c \in Customers,
         NoMetrics(c) \/ PostBidFails(c) \/ Sleep(c) \/ Restart(c)
  PROVE  IInv'
<1>1. AgentsKept /\ faults \in 0..MaxFaults /\ MemoryKept
  BY DEF IInv, Counters
<1>2. CASE NoMetrics(c)
  <2>1. agent[c].todo # <<>> /\ NextFlow(c)
    BY <1>2 DEF NoMetrics, HasFlow
  <2>2. /\ AgentsKept'
        /\ \A d \in Customers : agent'[d].pc = "post" => agent[d].pc = "post" /\ agent'[d] = agent[d]
    BY <1>1, <2>1, NextFlowTurns
  <2>3. UNCHANGED <<strategy, books, history, auctions, spent, memory, runs, faults, led>>
    BY <1>2 DEF NoMetrics
  <2>4. MemoryKept'
    BY <1>1, <2>3 DEF MemoryKept
  <2> QED
    BY <1>1, <2>2, <2>3, <2>4, QuietInv
<1>3. CASE PostBidFails(c)
  <2>1. agent[c].todo # <<>> /\ NextFlow(c)
    BY <1>1, <1>3 DEF PostBidFails, AgentsKept
  <2>2. /\ AgentsKept'
        /\ \A d \in Customers : agent'[d].pc = "post" => agent[d].pc = "post" /\ agent'[d] = agent[d]
    BY <1>1, <2>1, NextFlowTurns
  <2>3. UNCHANGED <<strategy, books, history, auctions, spent, memory, runs, led>>
    BY <1>3 DEF PostBidFails
  <2>4. MemoryKept'
    BY <1>1, <2>3 DEF MemoryKept
  <2>5. faults' \in 0..MaxFaults
    BY <1>3, FaultIs DEF PostBidFails
  <2> QED
    BY <2>2, <2>3, <2>4, <2>5, QuietInv
<1>4. CASE Sleep(c)
  <2>1. /\ AgentsKept'
        /\ \A d \in Customers : agent'[d].pc = "post" => agent[d].pc = "post" /\ agent'[d] = agent[d]
    BY <1>1, <1>4, AsleepIs, Turns DEF Sleep
  <2>2. UNCHANGED <<strategy, books, history, auctions, spent, memory, runs, faults, led>>
    BY <1>4 DEF Sleep
  <2>3. MemoryKept'
    BY <1>1, <2>2 DEF MemoryKept
  <2> QED
    BY <1>1, <2>1, <2>2, <2>3, QuietInv
<1>5. CASE Restart(c)
  <2>1. /\ AgentsKept'
        /\ \A d \in Customers : agent'[d].pc = "post" => agent[d].pc = "post" /\ agent'[d] = agent[d]
    BY <1>1, <1>5, AsleepIs, Turns DEF Restart
  <2>2. UNCHANGED <<strategy, books, history, auctions, spent, runs, led>>
    BY <1>5 DEF Restart
  <2>3. MemoryKept'
    BY <1>1, <1>5, NoMemoryFits DEF MemoryKept, Restart
  <2>4. faults' \in 0..MaxFaults
    BY <1>5, FaultIs DEF Restart
  <2> QED
    BY <2>1, <2>2, <2>3, <2>4, QuietInv
<1> QED
  BY <1>2, <1>3, <1>4, <1>5

LEMMA FetchInv ==
  ASSUME IInv, NEW c \in Customers, FetchCredits(c) \/ FetchCreditsFails(c)
  PROVE  IInv'
<1>1. CASE FetchCredits(c)
  <2>1. [balance |-> Balance[c], spent |-> spent[c]] \in [balance : Nat, spent : Nat]
    BY CustomerAssumption DEF IInv, Counters
  <2>2. faults' \in 0..MaxFaults
    BY <1>1 DEF FetchCredits, IInv, Counters
  <2>3. Wake(c, [balance |-> Balance[c], spent |-> spent[c]])
    BY <1>1 DEF FetchCredits
  <2> QED
    BY <2>1, <2>2, <2>3, WakeInv
<1>2. CASE FetchCreditsFails(c)
  <2>1. NoCredits \in [balance : Nat, spent : Nat]
    BY DEF NoCredits
  <2>2. faults' \in 0..MaxFaults
    BY <1>2, FaultIs DEF FetchCreditsFails
  <2>3. Wake(c, NoCredits)
    BY <1>2 DEF FetchCreditsFails
  <2> QED
    BY <2>1, <2>2, <2>3, WakeInv
<1> QED
  BY <1>1, <1>2

-----------------------------------------------------------------------------
LEMMA BookHas ==
  ASSUME IInv, NEW p \in Flows
  PROVE  /\ IsBook(books[p]) /\ DOMAIN books[p] \subseteq Customers
         /\ \A c \in DOMAIN books[p] : /\ IsPrice(books[p][c].price)
                                       /\ Honest(c, books[p][c]) /\ Led(books[p][c].price)
<1>1. Booked(books[p])
  BY DEF IInv, BooksKept
<1>2. \A c \in DOMAIN books[p] : Honest(c, books[p][c]) /\ Led(books[p][c].price)
  BY DEF IInv, BidsKept
<1> QED
  BY <1>1, <1>2, BookedIs, BidsAre DEF Booked

LEMMA AuctionInv ==
  ASSUME IInv, NEW p \in Flows, Auction(p)
  PROVE  IInv'
<1> DEFINE book == books[p]
           winners == {d \in Customers : Won(book, d) > 0}
           r == [interval |-> auctions', port |-> p, price |-> Price(book),
                 units |-> [c \in winners |-> Won(book, c)]]
<1>1. /\ auctions < MaxAuctions /\ auctions' = auctions + 1
      /\ spent' = [c \in Customers |-> spent[c] + Price(book) * Won(book, c)]
      /\ history' = history \cup {r}
      /\ books' = [books EXCEPT ![p] = <<>>]
      /\ UNCHANGED <<strategy, agent, memory, runs, faults, led, learned>>
  BY DEF Auction
<1>2. IsBook(book) /\ DOMAIN book \subseteq Customers
      /\ \A c \in DOMAIN book : IsPrice(book[c].price) /\ Led(book[c].price)
  BY BookHas
<1>3. books' = [q \in Flows |-> books'[q]] /\ books'[p] = <<>>
      /\ \A q \in Flows \ {p} : books'[q] = books[q]
  BY <1>1 DEF IInv, BooksKept
<1> HIDE DEF book
<1>4. IsPrice(Price(book)) /\ Price(book) \in Nat
  BY <1>2, ClearingFacts DEF IsPrice
<1>5. \A c \in Customers : Won(book, c) \in Nat
  BY <1>2, WonFacts
<1>6. Led(Price(book))
  <2>1. Price(book) = ReservationPrice \/ \E b \in DOMAIN book : Price(book) = book[b].price
    BY <1>2, ClearingFacts
  <2>2. Led(ReservationPrice)
    BY ReserveAssumption DEF IInv, Counters, Led, Larger
  <2> QED
    BY <1>2, <2>1, <2>2
<1>7. auctions \in 0..MaxAuctions /\ auctions' \in 0..MaxAuctions /\ auctions' \in 1..auctions'
  BY <1>1, BoundAssumption DEF IInv, Counters
<1>8. spent' \in [Customers -> Nat]
  <2>1. ASSUME NEW c \in Customers PROVE spent[c] + Price(book) * Won(book, c) \in Nat
    <3>1. PICK bill \in Nat : bill = Price(book) * Won(book, c)
      BY <1>4, <1>5, MulNat
    <3>2. spent[c] \in Nat
      BY DEF IInv, Counters
    <3> QED
      BY <3>1, <3>2
  <2> QED
    BY <1>1, <2>1
<1>9. Counters'
  BY <1>1, <1>7, <1>8 DEF IInv, Counters
<1>10. BooksKept'
  BY <1>3 DEF IInv, BooksKept, Booked
<1>11. HistoryKept'
  <2>1. Recorded(r, auctions')
    BY <1>1, <1>4, <1>5, <1>7 DEF Recorded
  <2>2. ASSUME NEW h \in history PROVE Recorded(h, auctions')
    BY <1>1, <1>7 DEF IInv, HistoryKept, Recorded
  <2> QED
    BY <1>1, <2>1, <2>2 DEF HistoryKept
<1>12. AgentsKept' /\ MemoryKept'
  BY <1>1 DEF IInv, AgentsKept, MemoryKept
<1>13. BidsKept'
  <2>1. r.price = Price(book)
    OBVIOUS
  <2> HIDE DEF r
  <2> QED
    BY <1>1, <1>3, <1>6, <2>1 DEF IInv, BidsKept, Honest, Led
<1> QED
  BY <1>9, <1>10, <1>11, <1>12, <1>13 DEF IInv

LEMMA ActInv ==
  ASSUME IInv, NEW c \in Customers, Act(c)
  PROVE  IInv'
<1>1. CASE FetchCredits(c) \/ FetchCreditsFails(c)
  BY <1>1, FetchInv
<1>2. CASE NoMetrics(c) \/ PostBidFails(c) \/ Sleep(c) \/ Restart(c)
  BY <1>2, TurnInv
<1>3. CASE \E t \in Traffic, a \in MayChoose(c) : PlaceBid(c, t, a) \/ FetchResultFails(c, t, a)
  BY <1>3, PlaceInv
<1>4. CASE PostBid(c)
  BY <1>4, PostInv
<1> QED
  BY <1>1, <1>2, <1>3, <1>4 DEF Act

LEMMA NextInv == IInv /\ [Next]_vars => IInv'
<1> SUFFICES ASSUME IInv, [Next]_vars PROVE IInv'
  OBVIOUS
<1>1. CASE \E c \in Customers : Act(c)
  BY <1>1, ActInv
<1>2. CASE \E p \in Flows : Auction(p)
  BY <1>2, AuctionInv
<1>3. CASE UNCHANGED vars
  BY <1>3 DEF vars, IInv, Counters, BooksKept, HistoryKept, Recorded, AgentsKept, MemoryKept,
              BidsKept, Honest, Led
<1> QED
  BY <1>1, <1>2, <1>3 DEF Next

LEMMA InvHolds == Spec => []IInv
<1>1. Init => IInv
  BY InitInv
<1> QED
  BY <1>1, NextInv, PTL DEF Spec

(***************************************************************************)
(* What an agent posts is what validateBid of the API accepts, and the     *)
(* books, the history and the accounts are those of customers: whatever    *)
(* the strategies read, remember and choose.                               *)
(***************************************************************************)
THEOREM TypeOKHolds == Spec => []TypeOK
<1>1. ASSUME IInv PROVE TypeOK
  <2>1. \A p \in Flows : DOMAIN books[p] \subseteq Customers /\ \A c \in DOMAIN books[p] : books[p][c] \in Bids
    BY <1>1 DEF IInv, BooksKept, Booked
  <2>2. \A r \in history : r.interval \in 1..auctions /\ r.port \in Flows
                           /\ r.price >= ReservationPrice /\ DOMAIN r.units \subseteq Customers
    BY <1>1 DEF IInv, HistoryKept, Recorded, IsPrice
  <2>3. \A c \in Customers :
          /\ agent[c].pc \in {"idle", "flow", "post"}
          /\ agent[c].pc = "post" => agent[c].bid \in Bids
    BY <1>1 DEF IInv, AgentsKept, Stages
  <2>4. /\ strategy \in Populations /\ spent \in [Customers -> Nat]
        /\ auctions \in 0..MaxAuctions /\ faults \in 0..MaxFaults
        /\ \A c \in Customers : runs[c] \in 0..MaxRuns
    BY <1>1 DEF IInv, Counters
  <2> QED
    BY <2>1, <2>2, <2>3, <2>4 DEF TypeOK
<1> QED
  BY <1>1, InvHolds, PTL

(***************************************************************************)
(* conservative and demand_corrected only follow: neither they nor an      *)
(* auction ever bring a price above the reservation price and what another *)
(* strategy has bid.                                                       *)
(***************************************************************************)
THEOREM FollowersNeverLeadHolds == Spec => []FollowersNeverLead
<1>1. ASSUME IInv PROVE FollowersNeverLead
  BY <1>1 DEF IInv, BidsKept, Led, FollowersNeverLead
<1> QED
  BY <1>1, InvHolds, PTL

(***************************************************************************)
(* An agent that bids a valuation no less than the reservation price never *)
(* pays more for a unit than it is worth to it.                            *)
(***************************************************************************)
LEMMA AuctionGains ==
  ASSUME IInv, NEW p \in Flows, Auction(p)
  PROVE  NeverAtALoss'
<1> DEFINE book == books[p]
<1>1. gained' = [c \in Customers |-> Utility(book, c)] /\ strategy' = strategy
  BY DEF Auction
<1> SUFFICES ASSUME NEW c \in Customers, strategy[c] = "valuation_based",
                    Valuation[c] >= ReservationPrice
             PROVE  Utility(book, c) >= 0
  BY <1>1 DEF NeverAtALoss
<1>2. IsBook(book) /\ \A d \in DOMAIN book : Honest(d, book[d])
  BY BookHas
<1> HIDE DEF book
<1>3. Price(book) \in Nat /\ Won(book, c) \in Nat /\ Valuation[c] \in Nat
  BY <1>2, ClearingFacts, WonFacts, CustomerAssumption
<1>4. Won(book, c) > 0 => Valuation[c] >= Price(book)
  <2>1. Won(book, c) > 0 => c \in DOMAIN book /\ book[c].price >= Price(book)
    BY <1>2, WonFacts
  <2>2. Floored(Valuation[c]) = Valuation[c]
    BY DEF Floored, Larger
  <2> QED
    BY <1>2, <2>1, <2>2 DEF Honest
<1>5. CASE Won(book, c) > 0
  <2>1. PICK margin \in Nat : margin = Valuation[c] - Price(book)
    BY <1>3, <1>4, <1>5
  <2>2. margin * Won(book, c) \in Nat
    BY <1>3, <2>1, MulNat
  <2> QED
    BY <2>1, <2>2 DEF Utility
<1>6. CASE Won(book, c) = 0
  BY <1>3, <1>6 DEF Utility
<1> QED
  BY <1>3, <1>5, <1>6

(***************************************************************************)
(* No auction is a loss to an agent that bids its valuation, as long as    *)
(* that is no less than the reservation price.                             *)
(***************************************************************************)
THEOREM NeverAtALossHolds == Spec => []NeverAtALoss
<1>1. Init => NeverAtALoss
  BY DEF Init, NeverAtALoss
<1>2. IInv /\ NeverAtALoss /\ [Next]_vars => NeverAtALoss'
  <2> SUFFICES ASSUME IInv, NeverAtALoss, [Next]_vars PROVE NeverAtALoss'
    OBVIOUS
  <2>1. CASE \E p \in Flows : Auction(p)
    BY <2>1, AuctionGains
  <2>2. CASE UNCHANGED <<gained, strategy>>
    BY <2>2 DEF NeverAtALoss
  <2>3. ASSUME NEW c \in Customers, Act(c) PROVE UNCHANGED <<gained, strategy>>
    <3>1. CASE FetchCredits(c) \/ FetchCreditsFails(c)
      BY <3>1 DEF FetchCredits, FetchCreditsFails, Wake
    <3>2. CASE NoMetrics(c) \/ PostBid(c) \/ PostBidFails(c) \/ Sleep(c) \/ Restart(c)
      BY <3>2 DEF NoMetrics, PostBid, PostBidFails, Sleep, Restart
    <3>3. ASSUME NEW t, NEW a, PlaceBid(c, t, a) PROVE UNCHANGED <<gained, strategy>>
      <4>1. PICK r \in Results(c, Flow(c)) : Decide(c, t, r, a)
        BY <3>3 DEF PlaceBid
      <4> QED
        BY <4>1 DEF Decide
    <3>4. ASSUME NEW t, NEW a, FetchResultFails(c, t, a) PROVE UNCHANGED <<gained, strategy>>
      BY <3>4 DEF FetchResultFails, Decide
    <3> QED
      BY <2>3, <3>1, <3>2, <3>3, <3>4 DEF Act
  <2>4. CASE UNCHANGED vars
    BY <2>2, <2>4 DEF vars
  <2> QED
    BY <2>1, <2>2, <2>3, <2>4 DEF Next
<1> QED
  BY <1>1, <1>2, InvHolds, PTL DEF Spec

-----------------------------------------------------------------------------
(***************************************************************************)
(* A bid that is raised: at no price is less asked for than before, so the *)
(* clearing price is not lower.                                            *)
(***************************************************************************)
LEMMA RaisedAsks ==
  ASSUME NEW book, IsBook(book), NEW c \in DOMAIN book, NEW price \in Nat,
         book[c] = [units |-> book[c].units, price |-> book[c].price],
         price > book[c].price
  PROVE  /\ IsBook(Repriced(book, c, price))
         /\ c \in DOMAIN Repriced(book, c, price)
         /\ Repriced(book, c, price)[c].price = price
         /\ Repriced(book, c, price)[c].units = book[c].units
         /\ Price(book) <= Price(Repriced(book, c, price))
<1> DEFINE raised == Repriced(book, c, price)
<1>1. /\ DOMAIN raised = DOMAIN book
      /\ \A b \in DOMAIN book : raised[b].units = book[b].units
      /\ \A b \in DOMAIN book : b # c => raised[b] = book[b]
      /\ raised[c].price = price
  BY DEF Repriced
<1> HIDE DEF raised
<1>2. IsBook(raised)
  BY <1>1 DEF IsBook
<1>3. ASSUME NEW q \in Nat PROVE Asked(book, q) <= Asked(raised, q)
  <2> DEFINE S == Outcome!AtLeast(book, q)
             T == Outcome!AtLeast(raised, q)
             f == [b \in S |-> book[b].units]
             g == [b \in S |-> raised[b].units]
  <2>1. S \in SUBSET (DOMAIN book) /\ T \in SUBSET (DOMAIN raised) /\ S \in SUBSET T
    BY <1>1 DEF Outcome!AtLeast, IsBook
  <2>2. f = g
    BY <1>1, <2>1
  <2>3. Outcome!Units(book, S) = Outcome!Units(raised, S)
    <3>1. Outcome!Units(book, S) = Outcome!SumFunctionOnSet(f, S)
      BY DEF Outcome!Units
    <3>2. Outcome!Units(raised, S) = Outcome!SumFunctionOnSet(g, S)
      BY DEF Outcome!Units
    <3> HIDE DEF S, f, g
    <3> QED
      BY <2>2, <3>1, <3>2
  <2>4. Outcome!Units(raised, S) <= Outcome!Units(raised, T)
    <3> HIDE DEF S, T
    <3> QED
      BY <1>2, <2>1, UnitsFacts
  <2> QED
    BY <2>3, <2>4 DEF Asked
<1>4. Price(book) <= Price(raised)
  <2>1. /\ Price(book) \in Nat
        /\ Price(book) = ReservationPrice \/ Asked(book, Price(book)) >= Capacity
    BY ClearingFacts
  <2>2. /\ Price(raised) \in Nat /\ Price(raised) >= ReservationPrice
        /\ \A q \in Nat : q > Price(raised) => Asked(raised, q) < Capacity
    BY <1>2, ClearingFacts
  <2>3. Asked(book, Price(book)) <= Asked(raised, Price(book))
        /\ Asked(book, Price(book)) \in Nat /\ Asked(raised, Price(book)) \in Nat
    BY <1>2, <1>3, <2>1, AskedFacts
  <2> QED
    BY <2>1, <2>2, <2>3, ReserveAssumption, SupplyAssumption
<1> QED
  BY <1>1, <1>2, <1>4 DEF raised

LEMMA RaisedGains ==
  ASSUME NEW book, IsBook(book), NEW c \in DOMAIN book, c \in Customers, NEW price \in Nat,
         book[c] = [units |-> book[c].units, price |-> book[c].price],
         book[c].price = Valuation[c], price > book[c].price
  PROVE  Utility(Repriced(book, c, price), c) <= Utility(book, c)
<1> DEFINE raised == Repriced(book, c, price)
<1>1. /\ IsBook(raised) /\ c \in DOMAIN raised
      /\ raised[c].price = price /\ raised[c].units = book[c].units
      /\ Price(book) <= Price(raised)
  BY RaisedAsks
<1> HIDE DEF raised
<1>2. PICK v \in Nat : v = Valuation[c] /\ v = book[c].price
  BY CustomerAssumption
<1>3. PICK old \in Nat : old = Price(book)
  BY ClearingFacts
<1>4. PICK new \in Nat : new = Price(raised)
  BY <1>1, ClearingFacts
<1>5. PICK won \in Nat : won = Won(book, c)
  BY WonFacts
<1>6. PICK gets \in Nat : gets = Won(raised, c)
  BY <1>1, WonFacts
<1>7. Utility(book, c) = (v - old) * won /\ Utility(raised, c) = (v - new) * gets
  BY <1>2, <1>3, <1>4, <1>5, <1>6 DEF Utility
<1>8. /\ old <= new
      /\ won > 0 => v >= old
      /\ v > old => won = book[c].units
      /\ price > new => gets = book[c].units
  <2>1. /\ Won(book, c) > 0 => book[c].price >= Price(book)
        /\ book[c].price > Price(book) => Won(book, c) = book[c].units
    BY WonFacts
  <2>2. raised[c].price > Price(raised) => Won(raised, c) = raised[c].units
    BY <1>1, WonFacts
  <2> QED
    BY <1>1, <1>2, <1>3, <1>4, <1>5, <1>6, <2>1, <2>2
<1>9. CASE new >= v
  <2>1. PICK lost \in Nat : lost = new - v
    BY <1>9
  <2>2. lost * gets \in Nat
    BY <2>1, MulNat
  <2>3. (v - new) * gets <= 0
    <3>1. 0 - lost <= 0 /\ 0 - lost \in Int /\ 0 \in Int /\ v - new = 0 - lost
      BY <2>1
    <3>2. (0 - lost) * gets <= 0 * gets
      BY <3>1, MulMono
    <3> QED
      BY <3>1, <3>2
  <2>4. (v - old) * won >= 0
    <3>1. CASE won > 0
      <4>1. PICK margin \in Nat : margin = v - old
        BY <1>8, <3>1
      <4>2. margin * won \in Nat
        BY <4>1, MulNat
      <4> QED
        BY <4>1, <4>2
    <3>2. CASE won = 0
      BY <3>2
    <3> QED
      BY <3>1, <3>2
  <2>5. PICK after \in Int : after = (v - new) * gets
    OBVIOUS
  <2>6. PICK before \in Int : before = (v - old) * won
    OBVIOUS
  <2>7. after <= before
    BY <2>3, <2>4, <2>5, <2>6
  <2> QED
    BY <1>7, <2>5, <2>6, <2>7 DEF raised
<1>10. CASE new < v
  <2>1. won = gets
    BY <1>1, <1>2, <1>8, <1>10
  <2>2. v - new <= v - old /\ v - new \in Int /\ v - old \in Int
    BY <1>8
  <2>3. (v - new) * gets <= (v - old) * gets
    BY <2>2, MulMono
  <2>4. PICK after : after = (v - new) * gets
    OBVIOUS
  <2>5. PICK before : before = (v - old) * gets
    OBVIOUS
  <2>6. before = (v - old) * won
    BY <2>1, <2>5
  <2>7. after <= before
    BY <2>3, <2>4, <2>5
  <2> QED
    BY <1>7, <2>4, <2>6, <2>7 DEF raised
<1> QED
  BY <1>9, <1>10 DEF raised

(***************************************************************************)
(* Raising its price above its valuation gains a truthful agent nothing:   *)
(* it pays as much for the same units, or wins units at a loss.            *)
(***************************************************************************)
THEOREM NoGainAboveHolds == Spec => []NoGainAbove
<1>1. ASSUME IInv PROVE NoGainAbove
  <2> SUFFICES ASSUME NEW p \in Flows, NEW c \in DOMAIN books[p],
                      NEW price \in ReservationPrice..Ceiling,
                      Truthful(c), price > books[p][c].price
               PROVE  Utility(Repriced(books[p], c, price), c) <= Utility(books[p], c)
    BY DEF NoGainAbove
  <2> DEFINE book == books[p]
  <2>1. /\ IsBook(book) /\ DOMAIN book \subseteq Customers
        /\ Honest(c, book[c])
    BY <1>1, BookHas
  <2>2. book[c] \in Bids
    BY <1>1 DEF IInv, BooksKept, Booked
  <2>3. book[c] = [units |-> book[c].units, price |-> book[c].price]
    BY <2>2 DEF Bids
  <2>4. book[c].price = Valuation[c]
    BY <2>1 DEF Honest, Truthful, Floored, Larger
  <2>5. price \in Nat
    BY ReserveAssumption
  <2> HIDE DEF book
  <2>6. price > book[c].price /\ c \in DOMAIN book /\ c \in Customers
    BY <2>1 DEF book
  <2>7. Utility(Repriced(book, c, price), c) <= Utility(book, c)
    BY <2>1, <2>3, <2>4, <2>5, <2>6, RaisedGains
  <2> QED
    BY <2>7 DEF book
<1> QED
  BY <1>1, InvHolds, PTL

-----------------------------------------------------------------------------
(***************************************************************************)
(* The price falls with the credits spent.                                 *)
(***************************************************************************)
LEMMA TierPriceFalls ==
  ASSUME NEW a, IsContext(a), NEW b, IsContext(b), NEW ema \in Averages,
         a.balance = b.balance, a.spent <= b.spent
  PROVE  Floored(TierPrice(b, ema)) <= Floored(TierPrice(a, ema))
<1>1. PICK high \in Nat : high = Share(ema, 100)
  BY ShareFits
<1>2. PICK middle \in Nat : middle = Share(ema, 75)
  BY ShareFits
<1>3. PICK low \in Nat : low = Share(ema, 50)
  BY ShareFits
<1>4. low <= middle /\ middle <= high
  BY <1>1, <1>2, <1>3, ShareFits
<1>5. /\ LeftOver(b, 75) => LeftOver(a, 75)
      /\ LeftOver(b, 50) => LeftOver(a, 50)
      /\ LeftOver(b, 25) => LeftOver(a, 25)
  BY DEF IsContext, LeftOver, Remaining
<1>6. /\ LeftOver(a, 75) => LeftOver(a, 50)
      /\ LeftOver(a, 50) => LeftOver(a, 25)
  BY LeftOverFacts
<1>7. /\ TierPrice(a, ema) = IF LeftOver(a, 75) THEN high + Epsilon
                             ELSE IF LeftOver(a, 50) THEN middle
                             ELSE IF LeftOver(a, 25) THEN low ELSE ReservationPrice
      /\ TierPrice(b, ema) = IF LeftOver(b, 75) THEN high + Epsilon
                             ELSE IF LeftOver(b, 50) THEN middle
                             ELSE IF LeftOver(b, 25) THEN low ELSE ReservationPrice
  BY <1>1, <1>2, <1>3, TierPriceIs
<1>8. Epsilon \in Nat /\ ReservationPrice \in Nat
  BY ParamAssumption, ReserveAssumption
<1> QED
  BY <1>4, <1>5, <1>6, <1>7, <1>8 DEF Floored, Larger

LEMMA ScaledFalls ==
  ASSUME NEW a, IsContext(a), NEW b, IsContext(b), NEW tenths \in Nat,
         a.balance = b.balance, a.balance > 0, a.spent <= b.spent
  PROVE  Scaled(tenths, b) <= Scaled(tenths, a)
<1>1. PICK more \in Nat : more = Larger(Remaining(a), 0)
  BY DEF IsContext, Remaining, Larger
<1>2. PICK less \in Nat : less = Larger(Remaining(b), 0)
  BY DEF IsContext, Remaining, Larger
<1>3. less <= more
  BY <1>1, <1>2 DEF IsContext, Remaining, Larger
<1>4. PICK d \in Nat \ {0} : d = 10 * a.balance
  BY DEF IsContext
<1>5. less * tenths <= more * tenths
  BY <1>3, MulMono
<1>6. PICK n \in Nat : n = tenths * less
  BY MulNat
<1>7. PICK m \in Nat : m = tenths * more
  BY MulNat
<1>8. n <= m
  <2>1. n = less * tenths /\ m = more * tenths
    BY <1>6, <1>7
  <2> QED
    BY <1>5, <2>1
<1>9. Rounded(n, d) \in Int /\ Rounded(m, d) \in Int /\ Rounded(n, d) <= Rounded(m, d)
  BY <1>8, RoundedFits
<1>10. Scaled(tenths, a) = Floored(Rounded(m, d)) /\ Scaled(tenths, b) = Floored(Rounded(n, d))
  BY <1>1, <1>2, <1>4, <1>6, <1>7 DEF Scaled
<1> QED
  BY <1>9, <1>10, FlooredFits

(***************************************************************************)
(* Two contexts that differ in the credits spent only.                     *)
(***************************************************************************)
LEMMA SpendersBidLess ==
  ASSUME NEW a, IsContext(a), NEW b, IsContext(b), NEW m, IsMemory(m),
         a.rx = b.rx, a.drop = b.drop, a.balance = b.balance, a.last = b.last,
         a.valuation = b.valuation, a.balance > 0, a.spent <= b.spent, ~Silent(a)
  PROVE  /\ BudgetAware(b, m).price <= BudgetAware(a, m).price
         /\ ThroughputOptimizer(b, m).price <= ThroughputOptimizer(a, m).price
<1>1. ~Silent(b) /\ Demand(b) = Demand(a) /\ b.balance # 0 /\ a.balance # 0
  BY DEF Silent, Demand, IsContext
<1>2. BudgetAware(b, m).price <= BudgetAware(a, m).price
  <2> DEFINE ema == NextAverage(m.ema, a.last)
  <2>1. ema \in Averages
    BY AverageFits DEF IsMemory, IsContext
  <2>2. /\ BudgetAware(a, m).price = Floored(TierPrice(a, ema))
        /\ BudgetAware(b, m).price = Floored(TierPrice(b, ema))
    BY <1>1 DEF BudgetAware, Unless, Bid
  <2> HIDE DEF ema
  <2> QED
    BY <2>1, <2>2, TierPriceFalls
<1>3. ThroughputOptimizer(b, m).price <= ThroughputOptimizer(a, m).price
  <2> DEFINE high == IsHigh(a)
             cheap == Cheap(m.prices, a.last)
  <2>1. IsHigh(b) = high /\ Cheap(m.prices, b.last) = cheap
    BY <1>1 DEF IsHigh
  <2>2. /\ high \in BOOLEAN /\ cheap \in BOOLEAN
        /\ ThroughputOptimizer(a, m).price = Scaled(Tenths(a, high, cheap), a)
    <3>1. high \in BOOLEAN /\ cheap \in BOOLEAN
      BY OptimizerIs
    <3>2. ThroughputOptimizer(a, m).price = Scaled(Tenths(a, high, cheap), a)
      BY <1>1, OptimizerIs DEF Unless, Bid
    <3> QED
      BY <3>1, <3>2
  <2>3. ThroughputOptimizer(b, m).price = Scaled(Tenths(b, high, cheap), b)
    BY <1>1, <2>1, OptimizerIs DEF Unless, Bid
  <2>4. Tenths(b, high, cheap) = Tenths(a, high, cheap)
    BY DEF Tenths
  <2> HIDE DEF high, cheap
  <2>5. Tenths(a, high, cheap) \in Nat
    BY <2>2, TenthsFits
  <2> QED
    BY <2>2, <2>3, <2>4, <2>5, ScaledFalls
<1> QED
  BY <1>2, <1>3

(***************************************************************************)
(* budget_aware and throughput_optimizer, with the same memory and the     *)
(* same readings: one more credit spent never raises the bid, of an        *)
(* overspent balance no more than of any other.                            *)
(***************************************************************************)
THEOREM SpendingLowersBidsHolds == Spec => []SpendingLowersBids
<1>1. ASSUME IInv PROVE SpendingLowersBids
  <2> SUFFICES ASSUME NEW c \in Customers, Balance[c] > 0,
                      strategy[c] \in {"budget_aware", "throughput_optimizer"},
                      NEW t \in Traffic, NEW r \in UNION {Results(c, p) : p \in Flows},
                      NEW n \in 0..2 * Balance[c]
               PROVE  LET ctx(s) == [flow |-> EgressPorts[1], rx |-> t.rx, drop |-> t.drop,
                                     balance |-> Balance[c], spent |-> s, last |-> r.last,
                                     won |-> r.won, valuation |-> Valuation[c]]
                          answer(s) == ComputeBid(strategy[c], ctx(s), memory[c], 1)
                      IN  ~Silent(ctx(n)) => answer(n + 1).price <= answer(n).price
    BY DEF SpendingLowersBids
  <2> DEFINE ctx(s) == [flow |-> EgressPorts[1], rx |-> t.rx, drop |-> t.drop,
                        balance |-> Balance[c], spent |-> s, last |-> r.last,
                        won |-> r.won, valuation |-> Valuation[c]]
             answer(s) == ComputeBid(strategy[c], ctx(s), memory[c], 1)
             m == memory[c]
  <2> SUFFICES ASSUME ~Silent(ctx(n))
               PROVE  answer(n + 1).price <= answer(n).price
    OBVIOUS
  <2>1. r.last \in Nat /\ r.won \in Nat
    <3>1. PICK p \in Flows : r \in Results(c, p)
      OBVIOUS
    <3> QED
      BY <1>1, <3>1, ResultsAre
  <2>2. t.rx \in Nat /\ t.drop \in Nat
    BY TrafficAssumption
  <2>3. Valuation[c] \in Nat /\ Balance[c] \in Nat
    BY CustomerAssumption
  <2>4. n \in Nat /\ n + 1 \in Nat /\ Balance[c] > 0
    BY <2>3
  <2>5. IsContext(ctx(n)) /\ IsContext(ctx(n + 1))
    BY <2>1, <2>2, <2>3, <2>4 DEF IsContext
  <2>6. IsMemory(m)
    BY <1>1 DEF IInv, MemoryKept
  <2>7. PICK a : a = ctx(n)
    OBVIOUS
  <2>8. PICK b : b = ctx(n + 1)
    OBVIOUS
  <2>9. /\ a.rx = b.rx /\ a.drop = b.drop /\ a.balance = b.balance /\ a.last = b.last
        /\ a.valuation = b.valuation /\ a.balance > 0 /\ a.spent <= b.spent
    BY <2>3, <2>4, <2>7, <2>8
  <2>10. IsContext(a) /\ IsContext(b) /\ ~Silent(a)
    BY <2>5, <2>7, <2>8
  <2>11. answer(n) = ComputeBid(strategy[c], a, m, 1) /\ answer(n + 1) = ComputeBid(strategy[c], b, m, 1)
    BY <2>7, <2>8
  <2> HIDE DEF ctx, answer, m
  <2>12. /\ BudgetAware(b, m).price <= BudgetAware(a, m).price
         /\ ThroughputOptimizer(b, m).price <= ThroughputOptimizer(a, m).price
    BY <2>6, <2>9, <2>10, SpendersBidLess
  <2>13. CASE strategy[c] = "budget_aware"
    BY <2>11, <2>12, <2>13 DEF ComputeBid
  <2>14. CASE strategy[c] = "throughput_optimizer"
    BY <2>11, <2>12, <2>14 DEF ComputeBid
  <2> QED
    BY <2>13, <2>14
<1> QED
  BY <1>1, InvHolds, PTL
=============================================================================
