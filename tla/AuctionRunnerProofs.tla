------------------------ MODULE AuctionRunnerProofs ------------------------
(***************************************************************************)
(* Proofs about the auction runner, for any customers, ports, offers,      *)
(* auction outcome and number of failures.                                 *)
(***************************************************************************)
EXTENDS AuctionRunner, SumTheorems, SequenceTheorems

InRound == pc \in {"list", "publish", "credits", "utility", "history", "clear"}

(***************************************************************************)
(* Inside runOnce a port is being handled, from "publish" on the bids read *)
(* are not empty, and outside nothing is due.                              *)
(***************************************************************************)
Rounds ==
  /\ InRound => todo # <<>>
  /\ Auctioning => DOMAIN batch # {} /\ unsent \subseteq DOMAIN AwardsOf(batch)
  /\ ~Auctioning => bill = Zero /\ gain = Zero

(***************************************************************************)
(* What is charged plus what the current round has still to charge is      *)
(* within what has been handed to Kafka.                                   *)
(***************************************************************************)
StillToBill(c) == pc = "publish" \/ (pc = "credits" /\ c \in unbilled)

Backed ==
  \A c \in Customers : spent[c] + (IF StillToBill(c) THEN bill[c] ELSE 0) <= value[c]

IInv == TypeOK /\ Rounds /\ Backed

-----------------------------------------------------------------------------
LEMMA EmptyBook == <<>> \in Books /\ DOMAIN <<>> = {}
<1>1. <<>> \in Seq(StoredBid) /\ Len(<<>>) = 0
  BY EmptySeq
<1>2. <<>> \in [1..0 -> StoredBid]
  BY <1>1, LenProperties
<1>3. 1..0 = {}
  OBVIOUS
<1>4. <<>> \in [{} -> StoredBid] /\ {} \in SUBSET Ingress
  BY <1>2, <1>3
<1> QED
  BY <1>4 DEF Books

LEMMA ZeroType == Zero \in [Customers -> Nat] /\ Zero \in [Customers -> Int]
  BY DEF Zero

(***************************************************************************)
(* What the auction of a book that is not empty gives.                     *)
(***************************************************************************)
LEMMA OutcomeType ==
  ASSUME batch \in Books, DOMAIN batch # {}
  PROVE  /\ PriceOf(batch) \in Nat
         /\ DOMAIN AwardsOf(batch) \subseteq DOMAIN batch
         /\ DOMAIN AwardsOf(batch) \subseteq Ingress
         /\ \A i \in DOMAIN AwardsOf(batch) :
              /\ AwardsOf(batch)[i] \in Nat
              /\ Owner[i] \in Customers
              /\ Amount(i) \in Nat
              /\ Utility(i) \in Int
<1>1. PriceOf(batch) \in Nat
  BY OutcomeAssumption
<1>2. PICK S \in SUBSET DOMAIN batch : AwardsOf(batch) \in [S -> Nat]
  BY OutcomeAssumption
<1>3. DOMAIN batch \subseteq Ingress
  BY DEF Books
<1>4. ASSUME NEW i \in S
      PROVE  AwardsOf(batch)[i] \in Nat /\ Owner[i] \in Customers /\ Valuation[Owner[i]] \in Nat
  BY <1>2, <1>3, OwnerAssumption, ValuationAssumption
<1>5. ASSUME NEW i \in S PROVE Amount(i) \in Nat /\ Utility(i) \in Int
  BY <1>1, <1>4 DEF Amount, Utility
<1> QED
  BY <1>1, <1>2, <1>3, <1>4, <1>5

LEMMA InitInv == Init => IInv
<1> SUFFICES ASSUME Init PROVE IInv
  OBVIOUS
<1>1. TypeOK
  <2>1. bidMap \in [PostPorts -> Books] /\ batch \in Books
    BY EmptyBook DEF Init
  <2>2. todo \in Seq(PostPorts)
    BY EmptySeq DEF Init
  <2>3. /\ bill \in [Customers -> Nat] /\ gain \in [Customers -> Int]
        /\ spent \in [Customers -> Nat] /\ earned \in [Customers -> Int]
        /\ value \in [Customers -> Nat] /\ won \in [Customers -> Nat]
    BY ZeroType DEF Init
  <2>4. charges \in [Ids -> Nat] /\ dropped \subseteq Ids
        /\ history \subseteq HistoryRecord
    BY DEF Init
  <2>5. /\ posted \in 0..MaxPosts /\ clock \in 0..MaxClock /\ interval \in 0..MaxClock
        /\ faults \in 0..MaxFaults
    BY BoundAssumption DEF Init
  <2> QED
    BY <2>1, <2>2, <2>3, <2>4, <2>5 DEF Init, TypeOK
<1>2. Rounds /\ Backed
  BY DEF Init, Rounds, Backed, InRound, Auctioning, StillToBill, Zero
<1> QED
  BY <1>1, <1>2 DEF IInv

-----------------------------------------------------------------------------
(***************************************************************************)
(* Returning from runOnce, or dying, leaves nothing due.                   *)
(***************************************************************************)
LEMMA DropLocalsInv ==
  ASSUME IInv, DropLocals, pc' \in {"start", "down"}, todo' \in Seq(PostPorts),
         TypeOK', spent' = spent,
         \A c \in Customers : value'[c] >= value[c]
  PROVE  IInv'
<1>1. Rounds'
  BY DEF Rounds, InRound, Auctioning, DropLocals, Zero
<1>2. Backed'
  <2> SUFFICES ASSUME NEW c \in Customers PROVE spent[c] + 0 <= value'[c]
    BY DEF Backed, StillToBill
  <2>1. spent[c] \in Nat /\ bill[c] \in Nat /\ value[c] \in Nat /\ value'[c] \in Nat
    BY DEF IInv, TypeOK
  <2>2. spent[c] + (IF StillToBill(c) THEN bill[c] ELSE 0) <= value[c] /\ value'[c] >= value[c]
    BY DEF IInv, Backed
  <2> QED
    BY <2>1, <2>2
<1> QED
  BY <1>1, <1>2 DEF IInv

(***************************************************************************)
(* A step that leaves the round, the bill and the accounts alone.          *)
(***************************************************************************)
LEMMA OutsideInv ==
  ASSUME IInv, UNCHANGED <<batch, unsent, bill, gain, unbilled, spent, value>>,
         TypeOK', ~Auctioning, ~Auctioning', InRound' => todo' # <<>>
  PROVE  IInv'
<1>1. Rounds'
  BY DEF IInv, Rounds, Zero
<1>2. Backed'
  BY DEF IInv, Backed, StillToBill, Auctioning
<1> QED
  BY <1>1, <1>2 DEF IInv

LEMMA PostBidInv ==
  ASSUME IInv, NEW port \in PostPorts, NEW ingress \in Ingress, NEW offer \in Offers,
         PostBid(port, ingress, offer)
  PROVE  IInv'
<1> DEFINE bid == [id |-> posted', units |-> offer.units, price |-> offer.price]
           book == [i \in DOMAIN bidMap[port] \cup {ingress} |->
                      IF i = ingress THEN bid ELSE bidMap[port][i]]
<1>1. bidMap' = [bidMap EXCEPT ![port] = book] /\ posted' = posted + 1 /\ posted < MaxPosts
  BY DEF PostBid
<1>2. posted' \in Ids /\ posted' \in 0..MaxPosts
  BY <1>1, BoundAssumption DEF IInv, TypeOK, Ids
<1>3. bid \in StoredBid
  BY <1>2 DEF StoredBid
<1>4. bidMap[port] \in Books
  BY DEF IInv, TypeOK
<1>5. book \in Books
  <2>1. PICK S \in SUBSET Ingress : bidMap[port] \in [S -> StoredBid]
    BY <1>4 DEF Books
  <2>2. S \cup {ingress} \in SUBSET Ingress /\ book \in [S \cup {ingress} -> StoredBid]
    BY <2>1, <1>3
  <2> QED
    BY <2>2 DEF Books
<1>6. bidMap' \in [PostPorts -> Books]
  BY <1>1, <1>5 DEF IInv, TypeOK
<1>7. UNCHANGED <<timing, pc, todo, rounds, stores, faults, ghosts>>
  BY DEF PostBid
<1>8. TypeOK'
  BY <1>2, <1>6, <1>7 DEF IInv, TypeOK, timing, rounds, stores, ghosts
<1>9. Rounds' /\ Backed'
  BY <1>7 DEF IInv, Rounds, Backed, InRound, Auctioning, StillToBill, timing, rounds, stores, ghosts, Zero
<1> QED
  BY <1>8, <1>9 DEF IInv

LEMMA ClockInv == IInv /\ (Elapse \/ Fire \/ Restart) => IInv'
<1> SUFFICES ASSUME IInv, Elapse \/ Fire \/ Restart PROVE IInv'
  OBVIOUS
<1>1. /\ UNCHANGED <<bidMap, posted, todo, rounds, stores, faults, ghosts>>
      /\ pc' = pc \/ (pc = "down" /\ pc' = "idle")
  BY DEF Elapse, Fire, Restart, rounds, stores, ghosts
<1>2. clock' \in 0..MaxClock /\ fired' \in BOOLEAN /\ tick' \in BOOLEAN
  <2>1. clock' \in 0..MaxClock
    BY BoundAssumption DEF IInv, TypeOK, Elapse, Fire, Restart
  <2>2. fired' \in BOOLEAN
    BY DEF IInv, TypeOK, Elapse, Fire, Restart
  <2>3. tick' = tick \/ tick' = (pc # "down")
    BY DEF Elapse, Fire, Restart
  <2>4. (pc # "down") \in BOOLEAN /\ tick \in BOOLEAN
    BY DEF IInv, TypeOK
  <2> QED
    BY <2>1, <2>2, <2>3, <2>4
<1>3. TypeOK'
  BY <1>1, <1>2 DEF IInv, TypeOK, rounds, stores, ghosts
<1>4. Rounds' /\ Backed'
  BY <1>1 DEF IInv, Rounds, Backed, InRound, Auctioning, StillToBill, rounds, stores, ghosts, Zero
<1> QED
  BY <1>3, <1>4 DEF IInv

LEMMA TakeTickInv == IInv /\ TakeTick => IInv'
<1> SUFFICES ASSUME IInv, TakeTick PROVE IInv'
  OBVIOUS
<1>1. todo' \in Seq(PostPorts)
  BY PortAssumption DEF TakeTick
<1>2. TypeOK'
  BY <1>1 DEF IInv, TypeOK, TakeTick, rounds, stores, ghosts
<1> QED
  BY <1>2, OutsideInv DEF TakeTick, Auctioning, InRound, rounds, stores, ghosts

LEMMA StartAuctionInv == IInv /\ StartAuction => IInv'
<1> SUFFICES ASSUME IInv, StartAuction PROVE IInv'
  OBVIOUS
<1>1. TypeOK'
  BY DEF IInv, TypeOK, StartAuction, timing, stores, ghosts
<1> QED
  BY <1>1, OutsideInv DEF StartAuction, Auctioning, InRound, stores, ghosts

(***************************************************************************)
(* What returning from runOnce leaves well typed.                          *)
(***************************************************************************)
LEMMA ReturnType ==
  ASSUME IInv, Return, InRound
  PROVE  /\ todo' \in Seq(PostPorts) /\ pc' = "start"
         /\ interval' \in 0..MaxClock
         /\ batch' \in Books /\ unsent' \subseteq DOMAIN batch'
         /\ bill' \in [Customers -> Nat] /\ gain' \in [Customers -> Int]
         /\ unbilled' \subseteq Customers /\ unpaid' \subseteq Customers
<1>1. todo # <<>> /\ todo \in Seq(PostPorts)
  BY DEF IInv, Rounds, TypeOK
<1>2. todo' \in Seq(PostPorts)
  BY <1>1, HeadTailProperties DEF Return
<1> QED
  BY <1>2, EmptyBook, ZeroType, BoundAssumption DEF Return, DropLocals

LEMMA ReadInv ==
  ASSUME IInv, NEW book \in Books, Read(book), faults' \in 0..MaxFaults
  PROVE  IInv'
<1>1. pc = "list" /\ UNCHANGED <<bidMap, posted, timing, stores, ghosts>>
  BY DEF Read
<1>2. CASE DOMAIN book = {}
  <2>1. Return
    BY <1>2 DEF Read
  <2>2. TypeOK'
    BY <1>1, <2>1, ReturnType DEF IInv, TypeOK, InRound, timing, stores, ghosts
  <2>3. \A c \in Customers : value'[c] >= value[c]
    BY <1>1 DEF IInv, TypeOK, ghosts
  <2> QED
    BY <1>1, <2>1, <2>2, <2>3, DropLocalsInv, ReturnType DEF Return, InRound, stores
<1>3. CASE DOMAIN book # {}
  <2>1. pc' = "publish" /\ batch' = book /\ unsent' = DOMAIN AwardsOf(book)
        /\ UNCHANGED <<todo, interval, bill, gain, unbilled, unpaid>>
    BY <1>3 DEF Read
  <2>2. unsent' \subseteq DOMAIN batch'
    BY <2>1, <1>3, OutcomeAssumption
  <2>3. TypeOK'
    BY <1>1, <2>1, <2>2 DEF IInv, TypeOK, timing, stores, ghosts
  <2>4. Rounds'
    BY <1>1, <1>3, <2>1 DEF IInv, Rounds, InRound, Auctioning
  <2>5. Backed'
    <3> SUFFICES ASSUME NEW c \in Customers PROVE spent[c] + bill[c] <= value[c]
      BY <1>1, <2>1 DEF Backed, StillToBill, stores, ghosts
    <3>1. bill[c] = 0 /\ spent[c] \in Nat /\ value[c] \in Nat
      BY <1>1 DEF IInv, TypeOK, Rounds, Auctioning, Zero
    <3>2. spent[c] + 0 <= value[c]
      BY <1>1 DEF IInv, Backed, StillToBill
    <3> QED
      BY <3>1, <3>2
  <2> QED
    BY <2>3, <2>4, <2>5 DEF IInv
<1> QED
  BY <1>2, <1>3

LEMMA ListInv == IInv /\ (ListBids \/ ListPartly) => IInv'
<1> SUFFICES ASSUME IInv, ListBids \/ ListPartly PROVE IInv'
  OBVIOUS
<1>1. Port \in PostPorts
  <2>1. todo \in Seq(PostPorts) /\ todo # <<>>
    BY DEF IInv, TypeOK, Rounds, InRound, ListBids, ListPartly, Read
  <2> QED
    BY <2>1 DEF Port
<1>2. bidMap[Port] \in Books /\ faults \in 0..MaxFaults
  BY <1>1 DEF IInv, TypeOK
<1>3. CASE ListBids
  BY <1>2, <1>3, ReadInv DEF ListBids
<1>4. CASE ListPartly
  <2>1. PICK S \in SUBSET DOMAIN bidMap[Port] : Read([i \in S |-> bidMap[Port][i]])
    BY <1>4 DEF ListPartly
  <2>2. [i \in S |-> bidMap[Port][i]] \in Books
    BY <1>2 DEF Books
  <2>3. faults' \in 0..MaxFaults
    BY <1>2, <1>4, BoundAssumption DEF ListPartly, Fault
  <2> QED
    BY <2>1, <2>2, <2>3, ReadInv
<1> QED
  BY <1>3, <1>4

LEMMA PublishInv == ASSUME IInv, NEW i \in Ingress, Publish(i) PROVE IInv'
<1>1. /\ pc = "publish" /\ i \in unsent
      /\ unsent' = unsent \ {i}
      /\ bill' = [bill EXCEPT ![Owner[i]] = @ + Amount(i)]
      /\ gain' = [gain EXCEPT ![Owner[i]] = @ + Utility(i)]
      /\ value' = [value EXCEPT ![Owner[i]] = @ + Amount(i)]
      /\ won' = [won EXCEPT ![Owner[i]] = @ + AwardsOf(batch)[i]]
      /\ UNCHANGED <<bidMap, posted, timing, pc, todo, interval, batch, unbilled, unpaid,
                     stores, faults, charges, dropped>>
  BY DEF Publish, NextAllocation
<1>2. /\ Owner[i] \in Customers /\ AwardsOf(batch)[i] \in Nat /\ Amount(i) \in Nat
      /\ Utility(i) \in Int
  BY <1>1, OutcomeType DEF IInv, TypeOK, Rounds, Auctioning
<1>3. /\ bill \in [Customers -> Nat] /\ gain \in [Customers -> Int]
      /\ value \in [Customers -> Nat] /\ won \in [Customers -> Nat] /\ spent \in [Customers -> Nat]
  BY DEF IInv, TypeOK
<1>4. /\ bill' \in [Customers -> Nat] /\ gain' \in [Customers -> Int]
      /\ value' \in [Customers -> Nat] /\ won' \in [Customers -> Nat]
  BY <1>1, <1>2, <1>3
<1>5. TypeOK'
  BY <1>1, <1>4 DEF IInv, TypeOK, timing, stores
<1>6. Rounds'
  BY <1>1 DEF IInv, Rounds, InRound, Auctioning
<1>7. Backed'
  <2> SUFFICES ASSUME NEW c \in Customers PROVE spent[c] + bill'[c] <= value'[c]
    BY <1>1 DEF Backed, StillToBill, stores
  <2>1. spent[c] + bill[c] <= value[c]
    BY <1>1 DEF IInv, Backed, StillToBill
  <2>2. CASE c = Owner[i]
    BY <2>1, <2>2, <1>1, <1>2, <1>3
  <2>3. CASE c # Owner[i]
    BY <2>1, <2>3, <1>1, <1>3
  <2> QED
    BY <2>2, <2>3
<1> QED
  BY <1>5, <1>6, <1>7 DEF IInv

LEMMA PublishFailsInv == ASSUME IInv, NEW i \in Ingress, PublishFails(i) PROVE IInv'
<1>1. /\ pc = "publish" /\ i \in unsent /\ Return
      /\ \/ value' = [value EXCEPT ![Owner[i]] = @ + Amount(i)]
         \/ value' = [value EXCEPT ![Owner[i]] = @]
      /\ UNCHANGED <<bidMap, posted, timing, stores, won, charges, dropped>>
  BY DEF PublishFails, NextAllocation
<1>2. Owner[i] \in Customers /\ Amount(i) \in Nat
  BY <1>1, OutcomeType DEF IInv, TypeOK, Rounds, Auctioning
<1>3. value \in [Customers -> Nat] /\ faults' \in 0..MaxFaults
  BY BoundAssumption DEF IInv, TypeOK, PublishFails, Fault
<1>4. value' \in [Customers -> Nat] /\ \A c \in Customers : value'[c] >= value[c]
  <2>1. CASE value' = [value EXCEPT ![Owner[i]] = @ + Amount(i)]
    BY <2>1, <1>2, <1>3
  <2>2. CASE value' = [value EXCEPT ![Owner[i]] = @]
    <3>1. value' = value
      BY <2>2, <1>3
    <3> QED
      BY <3>1, <1>3
  <2> QED
    BY <1>1, <2>1, <2>2
<1>5. TypeOK'
  BY <1>1, <1>3, <1>4, ReturnType DEF IInv, TypeOK, InRound, timing, stores
<1> QED
  BY <1>1, <1>4, <1>5, DropLocalsInv, ReturnType DEF Return, InRound, stores

LEMMA PublishDoneInv == IInv /\ PublishDone => IInv'
<1> SUFFICES ASSUME IInv, PublishDone PROVE IInv'
  OBVIOUS
<1>1. /\ pc = "publish" /\ pc' = "credits"
      /\ unbilled' = Winners /\ unpaid' = Winners
      /\ charges' = [k \in Ids |-> charges[k] + (IF k \in IdsOf(batch) THEN 1 ELSE 0)]
      /\ UNCHANGED <<bidMap, posted, timing, todo, interval, batch, unsent, bill, gain,
                     stores, faults, value, won, dropped>>
  BY DEF PublishDone
<1>2. Winners \subseteq Customers
  BY <1>1, OutcomeType DEF Winners, IInv, TypeOK, Rounds, Auctioning
<1>3. charges' \in [Ids -> Nat]
  BY <1>1 DEF IInv, TypeOK
<1>4. TypeOK'
  BY <1>1, <1>2, <1>3 DEF IInv, TypeOK, timing, stores
<1>5. Rounds'
  BY <1>1 DEF IInv, Rounds, InRound, Auctioning
<1>6. Backed'
  <2> SUFFICES ASSUME NEW c \in Customers
               PROVE  /\ spent[c] + bill[c] <= value[c]
                      /\ spent[c] + 0 <= value[c]
    BY <1>1 DEF Backed, StillToBill, stores
  <2>1. spent[c] + bill[c] <= value[c]
    BY <1>1 DEF IInv, Backed, StillToBill
  <2>2. spent[c] \in Nat /\ bill[c] \in Nat /\ value[c] \in Nat
    BY DEF IInv, TypeOK
  <2> QED
    BY <2>1, <2>2
<1> QED
  BY <1>4, <1>5, <1>6 DEF IInv

(***************************************************************************)
(* A customer billed on top of a total no larger than what it had spent,   *)
(* which is how a failed Get is taken, is not billed more than was due.    *)
(***************************************************************************)
LEMMA BillCustomerInv ==
  ASSUME IInv, NEW c \in Customers, NEW total \in Nat, total <= spent[c],
         BillCustomer(c, total), faults' \in 0..MaxFaults
  PROVE  IInv'
<1>1. /\ pc = "credits" /\ c \in unbilled
      /\ unbilled' = unbilled \ {c}
      /\ spent' = [spent EXCEPT ![c] = total + bill[c]]
      /\ UNCHANGED <<bidMap, posted, timing, pc, todo, interval, batch, unsent, bill, gain, unpaid,
                     earned, history, ghosts>>
  BY DEF BillCustomer
<1>2. spent \in [Customers -> Nat] /\ bill \in [Customers -> Nat] /\ value \in [Customers -> Nat]
  BY DEF IInv, TypeOK
<1>3. spent' \in [Customers -> Nat]
  BY <1>1, <1>2
<1>4. TypeOK'
  BY <1>1, <1>3 DEF IInv, TypeOK, timing, ghosts
<1>5. Rounds'
  BY <1>1 DEF IInv, Rounds, InRound, Auctioning
<1>6. Backed'
  <2> SUFFICES ASSUME NEW d \in Customers
               PROVE  spent'[d] + (IF d \in unbilled \ {c} THEN bill[d] ELSE 0) <= value[d]
    BY <1>1 DEF Backed, StillToBill, ghosts
  <2>1. spent[d] + (IF d \in unbilled THEN bill[d] ELSE 0) <= value[d]
    BY <1>1 DEF IInv, Backed, StillToBill
  <2>2. CASE d = c
    BY <2>1, <2>2, <1>1, <1>2
  <2>3. CASE d # c
    BY <2>1, <2>3, <1>1, <1>2
  <2> QED
    BY <2>2, <2>3
<1> QED
  BY <1>4, <1>5, <1>6 DEF IInv

LEMMA BillInv == ASSUME IInv, NEW c \in Customers, Bill(c) \/ BillFromZero(c) PROVE IInv'
<1>1. spent[c] \in Nat /\ faults \in 0..MaxFaults
  BY DEF IInv, TypeOK
<1>2. CASE Bill(c)
  BY <1>1, <1>2, BillCustomerInv DEF Bill
<1>3. CASE BillFromZero(c)
  <2>1. faults' \in 0..MaxFaults
    BY <1>1, <1>3, BoundAssumption DEF BillFromZero, Fault
  <2> QED
    BY <2>1, <1>1, <1>3, BillCustomerInv DEF BillFromZero
<1> QED
  BY <1>2, <1>3

(***************************************************************************)
(* The steps of "credits", "utility", "history" and "clear" that only move *)
(* on, or write to the other stores.                                       *)
(***************************************************************************)
LEMMA OnwardInv ==
  ASSUME IInv, TypeOK', Auctioning, Auctioning', pc # "publish", pc' # "publish",
         pc' = "credits" => pc = "credits",
         UNCHANGED <<todo, batch, unsent, bill, gain, unbilled, spent, value>>
  PROVE  IInv'
<1>1. Rounds'
  BY DEF IInv, Rounds, InRound, Auctioning
<1>2. Backed'
  <2> SUFFICES ASSUME NEW c \in Customers
               PROVE  spent[c] + (IF pc' = "credits" /\ c \in unbilled THEN bill[c] ELSE 0) <= value[c]
    BY DEF Backed, StillToBill
  <2>1. spent[c] + (IF pc = "credits" /\ c \in unbilled THEN bill[c] ELSE 0) <= value[c]
    BY DEF IInv, Backed, StillToBill
  <2>2. spent[c] \in Nat /\ bill[c] \in Nat /\ value[c] \in Nat
    BY DEF IInv, TypeOK
  <2> QED
    BY <2>1, <2>2
<1> QED
  BY <1>1, <1>2 DEF IInv

LEMMA MoveOnInv ==
  IInv /\ (BillingDone \/ BillingFails \/ PayingDone \/ PayingFails \/ HistoryFails) => IInv'
<1> SUFFICES ASSUME IInv, BillingDone \/ BillingFails \/ PayingDone \/ PayingFails \/ HistoryFails
             PROVE  IInv'
  OBVIOUS
<1>1. /\ \/ pc = "credits" /\ pc' = "utility"
         \/ pc = "utility" /\ pc' = "history"
         \/ pc = "history" /\ pc' = "clear"
      /\ UNCHANGED <<bidMap, posted, timing, todo, rounds, stores, ghosts>>
      /\ faults' \in 0..MaxFaults
  BY BoundAssumption DEF IInv, TypeOK, BillingDone, BillingFails, PayingDone, PayingFails, HistoryFails, Fault
<1>2. TypeOK'
  BY <1>1 DEF IInv, TypeOK, timing, rounds, stores, ghosts
<1> QED
  BY <1>1, <1>2, OnwardInv DEF Auctioning, rounds, stores, ghosts

LEMMA PayInv == ASSUME IInv, NEW c \in Customers, Pay(c) \/ PayFromZero(c) PROVE IInv'
<1>1. PICK total \in Int : PayCustomer(c, total)
  BY DEF Pay, PayFromZero, IInv, TypeOK
<1>2. faults' \in 0..MaxFaults
  BY BoundAssumption DEF IInv, TypeOK, Pay, PayFromZero, Fault
<1>3. /\ pc = "utility" /\ pc' = pc /\ unpaid' = unpaid \ {c}
      /\ earned' = [earned EXCEPT ![c] = total + gain[c]]
      /\ UNCHANGED <<bidMap, posted, timing, todo, interval, batch, unsent, bill, gain, unbilled,
                     spent, history, ghosts>>
  BY <1>1 DEF PayCustomer
<1>4. earned' \in [Customers -> Int]
  BY <1>3 DEF IInv, TypeOK
<1>5. TypeOK'
  BY <1>2, <1>3, <1>4 DEF IInv, TypeOK, timing, ghosts
<1> QED
  BY <1>3, <1>5, OnwardInv DEF Auctioning, ghosts

LEMMA StoreHistoryInv == IInv /\ StoreHistory => IInv'
<1> SUFFICES ASSUME IInv, StoreHistory PROVE IInv'
  OBVIOUS
<1>1. /\ pc = "history" /\ pc' = "clear"
      /\ history' = {r \in history : ~SameKey(r, Record)} \cup {Record}
      /\ UNCHANGED <<bidMap, posted, timing, todo, rounds, spent, earned, faults,
                     value, won, charges, dropped>>
  BY DEF StoreHistory
<1>2. todo # <<>> /\ todo \in Seq(PostPorts) /\ interval \in 0..MaxClock
  BY <1>1 DEF IInv, TypeOK, Rounds, InRound
<1>3. Port \in PostPorts
  BY <1>2 DEF Port
<1>4. /\ PriceOf(batch) \in Nat /\ DOMAIN AwardsOf(batch) \subseteq Ingress
      /\ \A i \in DOMAIN AwardsOf(batch) : Owner[i] \in Customers /\ AwardsOf(batch)[i] \in Nat
  BY <1>1, OutcomeType DEF IInv, TypeOK, Rounds, Auctioning
<1>5. Record \in HistoryRecord
  BY <1>2, <1>3, <1>4 DEF Record, HistoryRecord
<1>6. history' \subseteq HistoryRecord
  BY <1>1, <1>5 DEF IInv, TypeOK
<1>7. TypeOK'
  BY <1>1, <1>6 DEF IInv, TypeOK, timing, rounds
<1> QED
  BY <1>1, <1>7, OnwardInv DEF Auctioning, rounds

(***************************************************************************)
(* The steps that end a round.                                             *)
(***************************************************************************)
LEMMA ReturnInv == IInv /\ (ListFails \/ ClearBids \/ ClearFails) => IInv'
<1> SUFFICES ASSUME IInv, ListFails \/ ClearBids \/ ClearFails PROVE IInv'
  OBVIOUS
<1>1. /\ InRound /\ Return
      /\ UNCHANGED <<posted, timing, stores, value, won, charges>>
      /\ bidMap' = bidMap \/ bidMap' = [bidMap EXCEPT ![Port] = <<>>]
      /\ dropped' = dropped \/ dropped' = dropped \cup (IdsOf(bidMap[Port]) \ IdsOf(batch))
      /\ faults' \in 0..MaxFaults
  BY BoundAssumption DEF IInv, TypeOK, ListFails, ClearBids, ClearFails, Fault, InRound, ghosts
<1>2. Port \in PostPorts
  <2>1. todo # <<>> /\ todo \in Seq(PostPorts)
    BY <1>1 DEF IInv, TypeOK, Rounds
  <2> QED
    BY <2>1 DEF Port
<1>3. bidMap' \in [PostPorts -> Books]
  BY <1>1, <1>2, EmptyBook DEF IInv, TypeOK
<1>4. IdsOf(bidMap[Port]) \subseteq Ids
  <2>1. PICK S \in SUBSET Ingress : bidMap[Port] \in [S -> StoredBid]
    BY <1>2 DEF IInv, TypeOK, Books
  <2> QED
    BY <2>1 DEF IdsOf, StoredBid
<1>5. TypeOK'
  BY <1>1, <1>3, <1>4, ReturnType DEF IInv, TypeOK, timing, stores
<1>6. \A c \in Customers : value'[c] >= value[c]
  BY <1>1 DEF IInv, TypeOK
<1> QED
  BY <1>1, <1>5, <1>6, DropLocalsInv, ReturnType DEF Return, stores

LEMMA CrashInv == IInv /\ Crash => IInv'
<1> SUFFICES ASSUME IInv, Crash PROVE IInv'
  OBVIOUS
<1>1. /\ DropLocals /\ pc' = "down" /\ todo' = <<>> /\ tick' = FALSE
      /\ UNCHANGED <<bidMap, posted, clock, fired, stores, ghosts>>
      /\ faults' \in 0..MaxFaults
  BY BoundAssumption DEF IInv, TypeOK, Crash, Fault
<1>2. todo' \in Seq(PostPorts)
  BY <1>1, EmptySeq
<1>3. interval' \in 0..MaxClock /\ unbilled' = {} /\ unpaid' = {}
  BY <1>1, BoundAssumption DEF DropLocals
<1>4. batch' \in Books /\ unsent' \subseteq DOMAIN batch'
  BY <1>1, EmptyBook DEF DropLocals
<1>5. bill' \in [Customers -> Nat] /\ gain' \in [Customers -> Int]
  BY <1>1, ZeroType DEF DropLocals
<1>6. TypeOK'
  BY <1>1, <1>2, <1>3, <1>4, <1>5 DEF IInv, TypeOK, stores, ghosts
<1>7. \A c \in Customers : value'[c] >= value[c]
  BY <1>1 DEF IInv, TypeOK, ghosts
<1> QED
  BY <1>1, <1>2, <1>6, <1>7, DropLocalsInv DEF stores

(***************************************************************************)
(* What is charged and due stays within what is published, whatever the    *)
(* interleaving of bids, failures and crashes.                             *)
(***************************************************************************)
THEOREM Inductive == Spec => []IInv
<1>1. IInv /\ [Next]_vars => IInv'
  <2> SUFFICES ASSUME IInv, [Next]_vars PROVE IInv'
    OBVIOUS
  <2>1. CASE UNCHANGED vars
    <3>1. UNCHANGED <<bidMap, posted, clock, fired, tick, pc, todo, rounds, stores, faults, ghosts>>
      BY <2>1 DEF vars, timing
    <3>2. TypeOK'
      BY <3>1 DEF IInv, TypeOK, rounds, stores, ghosts
    <3>3. Rounds' /\ Backed'
      BY <3>1 DEF IInv, Rounds, Backed, InRound, Auctioning, StillToBill, rounds, stores, ghosts, Zero
    <3> QED
      BY <3>2, <3>3 DEF IInv
  <2>2. CASE Post
    BY <2>2, PostBidInv DEF Post
  <2>3. CASE Runner
    BY <2>3, TakeTickInv, StartAuctionInv, ListInv, PublishInv, PublishDoneInv, BillInv, PayInv,
       MoveOnInv, StoreHistoryInv, ReturnInv DEF Runner
  <2>4. CASE Failure
    BY <2>4, ListInv, ReturnInv, PublishFailsInv, BillInv, PayInv, MoveOnInv, CrashInv DEF Failure
  <2>5. CASE Elapse \/ Fire \/ Restart
    BY <2>5, ClockInv
  <2> QED
    BY <2>1, <2>2, <2>3, <2>4, <2>5 DEF Next
<1> QED
  BY <1>1, InitInv, PTL DEF Spec

(***************************************************************************)
(* Every variable keeps its type.                                          *)
(***************************************************************************)
THEOREM TypeCorrect == Spec => []TypeOK
<1>1. IInv => TypeOK
  BY DEF IInv
<1> QED
  BY <1>1, Inductive, PTL

(***************************************************************************)
(* Whatever fails, and wherever the runner dies, no customer is charged    *)
(* more than the results handed to Kafka for it are worth.                 *)
(***************************************************************************)
THEOREM NeverOverchargedHolds == Spec => []NeverOvercharged
<1>1. IInv => NeverOvercharged
  <2> SUFFICES ASSUME IInv, NEW c \in Customers PROVE spent[c] <= value[c]
    BY DEF NeverOvercharged
  <2>1. spent[c] \in Nat /\ bill[c] \in Nat /\ value[c] \in Nat
    BY DEF IInv, TypeOK
  <2>2. spent[c] + (IF StillToBill(c) THEN bill[c] ELSE 0) <= value[c]
    BY DEF IInv, Backed
  <2> QED
    BY <2>1, <2>2
<1> QED
  BY <1>1, Inductive, PTL

-----------------------------------------------------------------------------
(***************************************************************************)
(* The fates of a bid.  It is open while an auction may still take it: it  *)
(* is stored and this round has not counted it yet, or it is in the batch  *)
(* that is being published.  What it has been through, and whether it is   *)
(* open, never exceed one by more than the failures.                       *)
(***************************************************************************)
Counted == pc \in {"credits", "utility", "history", "clear"}
One(b) == IF b THEN 1 ELSE 0
Open(k) ==
  \/ (\E p \in PostPorts : Stored(k, p)) /\ ~(Counted /\ k \in IdsOf(batch))
  \/ pc = "publish" /\ k \in IdsOf(batch)

Fates == \A k \in Ids : charges[k] + One(k \in dropped) + One(Open(k)) <= 1 + faults

(***************************************************************************)
(* A bid not yet posted has been through nothing, and a bid is in the map  *)
(* of one port: in that of the round, if it is in its batch.               *)
(***************************************************************************)
Fresh ==
  /\ \A k \in Ids : k > posted => charges[k] = 0 /\ k \notin dropped
  /\ \A k \in Ids, p \in PostPorts : Stored(k, p) => k <= posted
  /\ Auctioning => \A k \in IdsOf(batch) : k \in Ids /\ k <= posted

InPlace ==
  /\ \A k \in Ids, p, q \in PostPorts : Stored(k, p) /\ Stored(k, q) => p = q
  /\ Auctioning => \A k \in IdsOf(batch), p \in PostPorts : Stored(k, p) => p = Port

FInv == Fresh /\ InPlace /\ Fates

(***************************************************************************)
(* The accounts of a customer, with what this round has still to write.    *)
(***************************************************************************)
StillToPay(c) == pc \in {"publish", "credits"} \/ (pc = "utility" /\ c \in unpaid)

Total(c) ==
  spent[c] + (IF StillToBill(c) THEN bill[c] ELSE 0)
    + (earned[c] + (IF StillToPay(c) THEN gain[c] ELSE 0))

Balanced ==
  /\ pc # "down"
  /\ pc \in {"publish", "credits"} => \A c \in Customers \ Winners : bill[c] = 0 /\ gain[c] = 0
  /\ pc = "credits" => unpaid = Winners
  /\ \A c \in Customers : Total(c) = Valuation[c] * won[c]

BInv == faults = 0 => Balanced

-----------------------------------------------------------------------------
(***************************************************************************)
(* A step that adds nothing to what bids have been through may open a bid  *)
(* again only if it is a failure.                                          *)
(***************************************************************************)
LEMMA FatesKept ==
  ASSUME IInv, IInv', Fates, UNCHANGED <<charges, dropped>>, faults' >= faults,
         \A k \in Ids : Open(k)' => Open(k) \/ faults' > faults
  PROVE  Fates'
<1> SUFFICES ASSUME NEW k \in Ids
             PROVE  charges[k] + One(k \in dropped) + One(Open(k)') <= 1 + faults'
  BY DEF Fates, One
<1>1. charges[k] \in Nat /\ faults \in Nat /\ faults' \in Nat
  BY BoundAssumption DEF IInv, TypeOK
<1>2. charges[k] + One(k \in dropped) + One(Open(k)) <= 1 + faults
  BY DEF Fates
<1>3. One(k \in dropped) \in {0, 1} /\ One(Open(k)) \in {0, 1} /\ One(Open(k)') \in {0, 1}
  BY DEF One
<1>4. One(Open(k)') = 0 \/ One(Open(k)) = 1 \/ faults' > faults
  BY DEF One
<1> QED
  BY <1>1, <1>2, <1>3, <1>4

(***************************************************************************)
(* Steps that leave the bids, the batch and the fates alone, and stay in   *)
(* the same part of the round, or outside of it.                           *)
(***************************************************************************)
LEMMA AsideFates ==
  ASSUME IInv, IInv', FInv, UNCHANGED <<bidMap, posted, batch, charges, dropped>>,
         faults' >= faults, Counted' = Counted, (pc' = "publish") = (pc = "publish"),
         Auctioning => UNCHANGED todo
  PROVE  FInv'
<1>1. Auctioning' = Auctioning
  BY DEF Auctioning, Counted
<1>2. Fresh'
  BY <1>1 DEF FInv, Fresh, Stored, IdsOf
<1>3. InPlace'
  BY <1>1 DEF FInv, InPlace, Stored, IdsOf, Port
<1>4. \A k : Open(k)' => Open(k)
  BY DEF Open, Stored, IdsOf
<1> QED
  BY <1>2, <1>3, <1>4, FatesKept DEF FInv

(***************************************************************************)
(* The end of a round that leaves the bids where they are: those it had    *)
(* counted are open again, which takes a failure.                          *)
(***************************************************************************)
LEMMA ReturnFates ==
  ASSUME IInv, IInv', FInv, UNCHANGED <<bidMap, posted, charges, dropped>>, ~Auctioning',
         faults' > faults \/ (faults' = faults /\ ~Counted)
  PROVE  FInv'
<1>1. Fresh'
  BY DEF FInv, Fresh, Stored
<1>2. InPlace'
  BY DEF FInv, InPlace, Stored
<1>3. \A k : Open(k)' => Open(k) \/ faults' > faults
  BY DEF Open, Stored, Auctioning
<1>4. faults' >= faults
  BY BoundAssumption DEF IInv, TypeOK
<1> QED
  BY <1>1, <1>2, <1>3, <1>4, FatesKept DEF FInv

LEMMA PostBidFates ==
  ASSUME IInv, IInv', FInv, NEW port \in PostPorts, NEW ingress \in Ingress, NEW offer \in Offers,
         PostBid(port, ingress, offer)
  PROVE  FInv'
<1> DEFINE bid == [id |-> posted', units |-> offer.units, price |-> offer.price]
           book == [i \in DOMAIN bidMap[port] \cup {ingress} |->
                      IF i = ingress THEN bid ELSE bidMap[port][i]]
<1>1. bidMap' = [bidMap EXCEPT ![port] = book] /\ posted' = posted + 1 /\ posted < MaxPosts
  BY DEF PostBid
<1>2. UNCHANGED <<todo, pc, batch, faults, charges, dropped>>
  BY DEF PostBid, rounds, ghosts
<1>3. posted \in Nat /\ posted' \in Nat /\ bidMap \in [PostPorts -> Books]
  BY <1>1, BoundAssumption DEF IInv, TypeOK
<1>4. ASSUME NEW k \in Ids, NEW p \in PostPorts, Stored(k, p)'
      PROVE  Stored(k, p) \/ (k = posted' /\ p = port)
  <2>1. CASE p # port
    BY <1>1, <1>3, <1>4, <2>1 DEF Stored
  <2>2. CASE p = port
    <3>1. bidMap'[p] = book
      BY <1>1, <1>3, <2>2
    <3>2. PICK i \in DOMAIN book : book[i].id = k
      BY <1>4, <3>1 DEF Stored
    <3> QED
      BY <2>2, <3>2 DEF Stored
  <2> QED
    BY <2>1, <2>2
<1> HIDE DEF bid, book
<1>5. \A k \in Ids, p \in PostPorts : Stored(k, p) => k < posted'
  BY <1>1, <1>3 DEF FInv, Fresh, Ids
<1>6. Auctioning' = Auctioning /\ IdsOf(batch)' = IdsOf(batch) /\ Port' = Port
  BY <1>2 DEF Auctioning, IdsOf, Port
<1>7. Fresh'
  <2>1. \A k \in Ids : k > posted' => charges'[k] = 0 /\ k \notin dropped'
    BY <1>1, <1>2, <1>3 DEF FInv, Fresh, Ids
  <2>2. \A k \in Ids, p \in PostPorts : Stored(k, p)' => k <= posted'
    BY <1>3, <1>4, <1>5 DEF Ids
  <2>3. Auctioning' => \A k \in IdsOf(batch)' : k \in Ids /\ k <= posted'
    BY <1>1, <1>3, <1>6 DEF FInv, Fresh, Ids
  <2> QED
    BY <2>1, <2>2, <2>3 DEF Fresh
<1>8. InPlace'
  <2>1. ASSUME NEW k \in Ids, NEW p \in PostPorts, NEW q \in PostPorts, Stored(k, p)', Stored(k, q)'
        PROVE  p = q
    <3>1. (Stored(k, p) \/ (k = posted' /\ p = port)) /\ (Stored(k, q) \/ (k = posted' /\ q = port))
      BY <1>4, <2>1
    <3>2. CASE k = posted'
      BY <3>1, <3>2, <1>3, <1>5
    <3>3. CASE k # posted'
      BY <3>1, <3>3 DEF FInv, InPlace
    <3> QED
      BY <3>2, <3>3
  <2>2. ASSUME Auctioning', NEW k \in IdsOf(batch)', NEW p \in PostPorts, Stored(k, p)'
        PROVE  p = Port'
    <3>1. k \in Ids /\ k <= posted /\ k # posted'
      BY <1>1, <1>3, <1>6, <2>2 DEF FInv, Fresh, Ids
    <3>2. Stored(k, p)
      BY <1>4, <2>2, <3>1
    <3> QED
      BY <1>6, <2>2, <3>2 DEF FInv, InPlace
  <2> QED
    BY <2>1, <2>2 DEF InPlace
<1>9. Fates'
  <2> SUFFICES ASSUME NEW k \in Ids
               PROVE  charges[k] + One(k \in dropped) + One(Open(k)') <= 1 + faults
    BY <1>2 DEF Fates, One
  <2>1. charges[k] \in Nat /\ faults \in Nat
    BY BoundAssumption DEF IInv, TypeOK
  <2>2. charges[k] + One(k \in dropped) + One(Open(k)) <= 1 + faults
    BY DEF FInv, Fates
  <2>3. One(k \in dropped) \in {0, 1} /\ One(Open(k)) \in {0, 1} /\ One(Open(k)') \in {0, 1}
    BY DEF One
  <2>4. CASE k = posted'
    <3>1. charges[k] = 0 /\ k \notin dropped
      BY <1>1, <1>3, <2>4 DEF FInv, Fresh
    <3> QED
      BY <2>1, <2>3, <3>1 DEF One
  <2>5. CASE k # posted'
    <3>1. Open(k)' => Open(k)
      BY <1>2, <1>4, <1>6, <2>5 DEF Open, Counted
    <3>2. One(Open(k)') <= One(Open(k))
      BY <3>1 DEF One
    <3> QED
      BY <2>1, <2>2, <2>3, <3>2
  <2> QED
    BY <2>4, <2>5
<1> QED
  BY <1>7, <1>8, <1>9 DEF FInv

(***************************************************************************)
(* Listing: whatever is read is stored at the port of the round.           *)
(***************************************************************************)
LEMMA ReadFates ==
  ASSUME IInv, IInv', FInv, pc = "list", NEW S \in SUBSET DOMAIN bidMap[Port],
         Read([i \in S |-> bidMap[Port][i]]), faults' >= faults
  PROVE  FInv'
<1> DEFINE book == [i \in S |-> bidMap[Port][i]]
<1>1. UNCHANGED <<bidMap, posted, charges, dropped>> /\ ~Counted /\ ~Auctioning
  BY DEF Read, ghosts, Counted, Auctioning
<1>2. Port \in PostPorts
  <2>1. todo \in Seq(PostPorts) /\ todo # <<>>
    BY DEF IInv, TypeOK, Rounds, InRound
  <2> QED
    BY <2>1 DEF Port
<1>3. faults \in Nat /\ faults' \in Nat
  BY BoundAssumption DEF IInv, TypeOK
<1>4. CASE S = {}
  <2>1. pc' = "start"
    BY <1>4 DEF Read, Return
  <2> QED
    BY <1>1, <1>3, <2>1, ReturnFates DEF Auctioning
<1>5. CASE S # {}
  <2>1. pc' = "publish" /\ batch' = book /\ todo' = todo
    BY <1>5 DEF Read
  <2>2. \A k \in IdsOf(book) : Stored(k, Port)
    BY DEF IdsOf, Stored
  <2>3. IdsOf(book) \subseteq Ids
    <3>1. PICK T \in SUBSET Ingress : bidMap[Port] \in [T -> StoredBid]
      BY <1>2 DEF IInv, TypeOK, Books
    <3> QED
      BY <3>1 DEF IdsOf, StoredBid
  <2> HIDE DEF book
  <2>4. Fresh'
    BY <1>1, <1>2, <2>1, <2>2, <2>3 DEF FInv, Fresh, Stored, IdsOf
  <2>5. InPlace'
    BY <1>1, <1>2, <2>1, <2>2, <2>3 DEF FInv, InPlace, Stored, IdsOf, Port
  <2>6. \A k \in Ids : Open(k)' => Open(k)
    BY <1>1, <1>2, <2>1, <2>2 DEF Open, Stored, IdsOf, Counted
  <2> QED
    BY <1>1, <2>4, <2>5, <2>6, FatesKept DEF FInv
<1> QED
  BY <1>4, <1>5

(***************************************************************************)
(* The batch is counted, and closed.                                       *)
(***************************************************************************)
LEMMA PublishDoneFates == ASSUME IInv, IInv', FInv, PublishDone PROVE FInv'
<1>1. /\ pc = "publish" /\ pc' = "credits"
      /\ charges' = [k \in Ids |-> charges[k] + One(k \in IdsOf(batch))]
      /\ UNCHANGED <<bidMap, posted, todo, batch, faults, dropped>>
  BY DEF PublishDone, One
<1>2. \A k \in Ids : charges[k] \in Nat
  BY DEF IInv, TypeOK
<1>3. Auctioning /\ ~Counted /\ Auctioning' /\ Counted'
  BY <1>1 DEF Auctioning, Counted
<1>4. \A k, p : Stored(k, p)' = Stored(k, p)
  BY <1>1 DEF Stored
<1>5. IdsOf(batch)' = IdsOf(batch) /\ Port' = Port
  BY <1>1 DEF IdsOf, Port
<1>6. Fresh'
  <2>1. ASSUME NEW k \in Ids, k > posted PROVE charges'[k] = 0
    <3>1. posted \in Nat /\ k \in Nat /\ charges[k] = 0
      BY <2>1 DEF IInv, TypeOK, Ids, FInv, Fresh
    <3>2. k \notin IdsOf(batch)
      BY <1>3, <2>1, <3>1 DEF FInv, Fresh
    <3> QED
      BY <1>1, <3>1, <3>2 DEF One
  <2> QED
    BY <1>1, <1>3, <1>4, <1>5, <2>1 DEF FInv, Fresh
<1>7. InPlace'
  BY <1>1, <1>3, <1>4, <1>5 DEF FInv, InPlace
<1>8. Fates'
  <2> SUFFICES ASSUME NEW k \in Ids
               PROVE  charges'[k] + One(k \in dropped) + One(Open(k)') <= 1 + faults
    BY <1>1 DEF Fates, One
  <2>1. charges[k] \in Nat /\ faults \in Nat
    BY BoundAssumption DEF IInv, TypeOK
  <2>2. charges[k] + One(k \in dropped) + One(Open(k)) <= 1 + faults
    BY DEF FInv, Fates
  <2>3. One(k \in dropped) \in {0, 1} /\ One(Open(k)) \in {0, 1} /\ One(Open(k)') \in {0, 1}
    BY DEF One
  <2>4. CASE k \in IdsOf(batch)
    <3>1. One(Open(k)) = 1
      BY <1>1, <2>4 DEF Open, One
    <3>2. One(Open(k)') = 0
      BY <1>1, <1>3, <1>5, <2>4 DEF Open, One
    <3>3. charges'[k] = charges[k] + 1
      BY <1>1, <2>4 DEF One
    <3> QED
      BY <2>1, <2>2, <2>3, <3>1, <3>2, <3>3
  <2>5. CASE k \notin IdsOf(batch)
    <3>1. One(Open(k)') <= One(Open(k))
      BY <1>1, <1>3, <1>4, <2>5 DEF Open, One
    <3>2. charges'[k] = charges[k]
      BY <1>1, <1>2, <2>5 DEF One
    <3> QED
      BY <2>1, <2>2, <2>3, <3>1, <3>2
  <2> QED
    BY <2>4, <2>5
<1> QED
  BY <1>6, <1>7, <1>8 DEF FInv

(***************************************************************************)
(* Clear: what was counted is gone, and what was not is dropped.           *)
(***************************************************************************)
LEMMA ClearFates == ASSUME IInv, IInv', FInv, ClearBids PROVE FInv'
<1>1. /\ pc = "clear" /\ pc' = "start"
      /\ bidMap' = [bidMap EXCEPT ![Port] = <<>>]
      /\ dropped' = dropped \cup (IdsOf(bidMap[Port]) \ IdsOf(batch))
      /\ UNCHANGED <<posted, charges, faults>>
  BY DEF ClearBids, Return
<1>2. Port \in PostPorts /\ Auctioning /\ Counted /\ ~Auctioning' /\ ~Counted'
  <2>1. todo \in Seq(PostPorts) /\ todo # <<>>
    BY <1>1 DEF IInv, TypeOK, Rounds, InRound
  <2> QED
    BY <1>1, <2>1 DEF Port, Auctioning, Counted
<1>3. bidMap \in [PostPorts -> Books]
  BY DEF IInv, TypeOK
<1>4. ASSUME NEW k, NEW p \in PostPorts PROVE Stored(k, p)' <=> p # Port /\ Stored(k, p)
  <2>1. CASE p = Port
    <3>1. DOMAIN bidMap'[p] = {}
      BY <1>1, <1>2, <1>3, <2>1, EmptyBook
    <3> QED
      BY <2>1, <3>1 DEF Stored
  <2>2. CASE p # Port
    BY <1>1, <1>3, <2>2 DEF Stored
  <2> QED
    BY <2>1, <2>2
<1>5. \A k : k \in IdsOf(bidMap[Port]) <=> Stored(k, Port)
  BY DEF IdsOf, Stored
<1>6. Fresh'
  <2>1. ASSUME NEW k \in Ids, k > posted PROVE k \notin dropped'
    <3>1. posted \in Nat /\ k \in Nat /\ k \notin dropped
      BY <2>1 DEF IInv, TypeOK, Ids, FInv, Fresh
    <3>2. ~Stored(k, Port)
      BY <1>2, <2>1, <3>1 DEF FInv, Fresh
    <3> QED
      BY <1>1, <1>5, <3>1, <3>2
  <2> QED
    BY <1>1, <1>2, <1>4, <2>1 DEF FInv, Fresh
<1>7. InPlace'
  BY <1>2, <1>4 DEF FInv, InPlace
<1>8. Fates'
  <2> SUFFICES ASSUME NEW k \in Ids
               PROVE  charges[k] + One(k \in dropped') + One(Open(k)') <= 1 + faults
    BY <1>1 DEF Fates, One
  <2>1. charges[k] \in Nat /\ faults \in Nat
    BY BoundAssumption DEF IInv, TypeOK
  <2>2. charges[k] + One(k \in dropped) + One(Open(k)) <= 1 + faults
    BY DEF FInv, Fates
  <2>3. /\ One(k \in dropped) \in {0, 1} /\ One(Open(k)) \in {0, 1}
        /\ One(k \in dropped') \in {0, 1} /\ One(Open(k)') \in {0, 1}
    BY DEF One
  <2>4. Open(k)' <=> \E p \in PostPorts : p # Port /\ Stored(k, p)
    BY <1>1, <1>2, <1>4 DEF Open
  <2>5. CASE Stored(k, Port) /\ k \notin IdsOf(batch)
    <3>1. Open(k)
      BY <1>2, <2>5 DEF Open
    <3>2. ~Open(k)'
      BY <1>2, <2>4, <2>5 DEF FInv, InPlace
    <3> QED
      BY <2>1, <2>2, <2>3, <3>1, <3>2 DEF One
  <2>6. CASE ~(Stored(k, Port) /\ k \notin IdsOf(batch))
    <3>1. k \in dropped' <=> k \in dropped
      BY <1>1, <1>5, <2>6
    <3>2. Open(k)' => Open(k)
      BY <1>2, <2>4, <2>6 DEF Open, FInv, InPlace
    <3> QED
      BY <2>1, <2>2, <2>3, <3>1, <3>2 DEF One
  <2> QED
    BY <2>5, <2>6
<1> QED
  BY <1>6, <1>7, <1>8 DEF FInv

LEMMA InitFates == Init => FInv
<1> SUFFICES ASSUME Init PROVE FInv
  OBVIOUS
<1>1. \A k, p : p \in PostPorts => ~Stored(k, p)
  BY EmptyBook DEF Init, Stored
<1>2. ~Auctioning /\ ~Counted /\ pc # "publish" /\ dropped = {} /\ faults = 0
  BY DEF Init, Auctioning, Counted
<1>3. \A k \in Ids : charges[k] = 0 /\ ~Open(k) /\ k \notin dropped
  BY <1>1, <1>2 DEF Init, Open
<1>4. Fates
  BY <1>2, <1>3 DEF Fates, One
<1> QED
  BY <1>1, <1>2, <1>3, <1>4 DEF FInv, Fresh, InPlace

LEMMA NextFates == ASSUME IInv, IInv', FInv, [Next]_vars PROVE FInv'
<1>0. faults \in Nat
  BY BoundAssumption DEF IInv, TypeOK
<1>1. CASE UNCHANGED vars
  <2>1. UNCHANGED <<bidMap, posted, batch, charges, dropped, faults, pc, todo>>
    BY <1>1 DEF vars, rounds, ghosts
  <2> QED
    BY <1>0, <2>1, AsideFates DEF Counted
<1>2. CASE Post
  BY <1>2, PostBidFates DEF Post
<1>3. CASE Elapse \/ Fire \/ Restart \/ TakeTick \/ StartAuction
  <2>1. /\ UNCHANGED <<bidMap, posted, batch, charges, dropped, faults>>
        /\ \/ UNCHANGED <<pc, todo>>
           \/ ~Auctioning /\ ~Auctioning'
    BY <1>3 DEF Elapse, Fire, Restart, TakeTick, StartAuction, rounds, ghosts, Auctioning
  <2> QED
    BY <1>0, <2>1, AsideFates DEF Counted, Auctioning
<1>4. CASE ListBids
  <2>1. pc = "list" /\ faults' = faults /\ Read(bidMap[Port])
    BY <1>4 DEF ListBids, Read
  <2>2. Port \in PostPorts
    <3>1. todo \in Seq(PostPorts) /\ todo # <<>>
      BY <2>1 DEF IInv, TypeOK, Rounds, InRound
    <3> QED
      BY <3>1 DEF Port
  <2>3. bidMap[Port] = [i \in DOMAIN bidMap[Port] |-> bidMap[Port][i]]
    BY <2>2 DEF IInv, TypeOK, Books
  <2> QED
    BY <1>0, <2>1, <2>3, ReadFates
<1>5. CASE ListPartly
  <2>1. PICK S \in SUBSET DOMAIN bidMap[Port] : Read([i \in S |-> bidMap[Port][i]])
    BY <1>5 DEF ListPartly
  <2>2. pc = "list" /\ faults' >= faults
    BY <1>0, <1>5 DEF ListPartly, Fault
  <2> QED
    BY <2>1, <2>2, ReadFates
<1>6. CASE \E i \in Ingress : Publish(i)
  <2>1. UNCHANGED <<bidMap, posted, batch, charges, dropped, faults, pc, todo>>
    BY <1>6 DEF Publish, stores
  <2> QED
    BY <1>0, <2>1, AsideFates DEF Counted
<1>7. CASE PublishDone
  BY <1>7, PublishDoneFates
<1>8. CASE \E c \in Customers : Bill(c) \/ Pay(c) \/ BillFromZero(c) \/ PayFromZero(c)
  <2>1. UNCHANGED <<bidMap, posted, batch, charges, dropped, pc, todo>> /\ faults' >= faults
    BY <1>0, <1>8 DEF Bill, Pay, BillFromZero, PayFromZero, BillCustomer, PayCustomer, Fault, ghosts
  <2> QED
    BY <2>1, AsideFates DEF Counted
<1>9. CASE BillingDone \/ BillingFails \/ PayingDone \/ PayingFails \/ HistoryFails \/ StoreHistory
  <2>1. /\ UNCHANGED <<bidMap, posted, batch, charges, dropped, todo>> /\ faults' >= faults
        /\ Counted /\ Counted'
    BY <1>0, <1>9 DEF BillingDone, BillingFails, PayingDone, PayingFails, HistoryFails, StoreHistory,
       Fault, rounds, ghosts, Counted
  <2> QED
    BY <2>1, AsideFates DEF Counted
<1>10. CASE ClearBids
  BY <1>10, ClearFates
<1>11. CASE ListFails \/ ClearFails \/ Crash \/ \E i \in Ingress : PublishFails(i)
  <2>1. /\ UNCHANGED <<bidMap, posted, charges, dropped>> /\ faults' = faults + 1
        /\ pc' \in {"start", "down"}
    BY <1>11 DEF ListFails, ClearFails, Crash, PublishFails, Return, Fault, ghosts
  <2> QED
    BY <1>0, <2>1, ReturnFates DEF Auctioning
<1> QED
  BY <1>1, <1>2, <1>3, <1>4, <1>5, <1>6, <1>7, <1>8, <1>9, <1>10, <1>11 DEF Next, Runner, Failure

(***************************************************************************)
(* What a bid has been through and may yet go through is bounded by the    *)
(* number of failures.                                                     *)
(***************************************************************************)
THEOREM FatesAreKept == Spec => [](IInv /\ FInv)
<1>1. IInv /\ IInv' /\ FInv /\ [Next]_vars => FInv'
  BY NextFates
<1> QED
  BY <1>1, InitFates, Inductive, PTL DEF Spec

(***************************************************************************)
(* Until something fails, no bid is billed in two auctions, or billed in   *)
(* one and dropped.                                                        *)
(***************************************************************************)
THEOREM OneFateHolds == Spec => [](faults = 0 => OneFate)
<1>1. IInv /\ FInv => (faults = 0 => OneFate)
  <2> SUFFICES ASSUME IInv, FInv, faults = 0, NEW k \in Ids
               PROVE  charges[k] + One(k \in dropped) <= 1
    BY DEF OneFate, One
  <2>1. charges[k] \in Nat /\ charges[k] + One(k \in dropped) + One(Open(k)) <= 1
    BY DEF IInv, TypeOK, FInv, Fates
  <2> QED
    BY <2>1 DEF One
<1> QED
  BY <1>1, FatesAreKept, PTL

(***************************************************************************)
(* A bid is billed no more often than once and once for each failure.      *)
(***************************************************************************)
THEOREM RepeatsNeedFailuresHolds == Spec => []RepeatsNeedFailures
<1>1. IInv /\ FInv => RepeatsNeedFailures
  <2> SUFFICES ASSUME IInv, FInv, NEW k \in Ids PROVE charges[k] <= 1 + faults
    BY DEF RepeatsNeedFailures
  <2>1. charges[k] \in Nat /\ faults \in Nat
    BY BoundAssumption DEF IInv, TypeOK
  <2>2. charges[k] + One(k \in dropped) + One(Open(k)) <= 1 + faults
    BY DEF FInv, Fates
  <2> QED
    BY <2>1, <2>2 DEF One
<1> QED
  BY <1>1, FatesAreKept, PTL

-----------------------------------------------------------------------------
(***************************************************************************)
(* The books.  A step that fails leaves nothing to show; of the others,    *)
(* only Publish moves what a customer won, and each write to an account    *)
(* takes what was due.                                                     *)
(***************************************************************************)
LEMMA SplitValue ==
  ASSUME NEW a \in Int, NEW p \in Int, NEW v \in Int, NEW w \in Int
  PROVE  v * (w + a) = v * w + (a * p + (v - p) * a)
  OBVIOUS

LEMMA AccountTypes ==
  ASSUME IInv, NEW c \in Customers
  PROVE  /\ spent[c] \in Nat /\ bill[c] \in Nat /\ won[c] \in Nat /\ Valuation[c] \in Nat
         /\ earned[c] \in Int /\ gain[c] \in Int
  BY ValuationAssumption DEF IInv, TypeOK

(***************************************************************************)
(* Steps that leave the accounts, the round and its place alone.           *)
(***************************************************************************)
LEMMA AsideBooks ==
  ASSUME Balanced, UNCHANGED <<batch, bill, gain, unbilled, unpaid, spent, earned, won>>,
         pc' = pc \/ (~Auctioning /\ ~Auctioning' /\ pc' # "down")
  PROVE  Balanced'
<1>1. Winners' = Winners
  BY DEF Winners
<1>2. CASE pc' = pc
  BY <1>1, <1>2 DEF Balanced, Total, StillToBill, StillToPay
<1>3. CASE ~Auctioning /\ ~Auctioning' /\ pc' # "down"
  BY <1>1, <1>3 DEF Balanced, Total, StillToBill, StillToPay, Auctioning
<1> QED
  BY <1>2, <1>3

(***************************************************************************)
(* A round that ends with nothing due, without a failure: there was        *)
(* nothing to auction, or it is over.                                      *)
(***************************************************************************)
LEMMA ReturnBooks ==
  ASSUME IInv, Balanced, pc \in {"list", "clear"}, Return, UNCHANGED <<spent, earned, won>>
  PROVE  Balanced'
<1>1. pc' = "start"
  BY DEF Return
<1>2. \A c \in Customers : Total(c)' = spent[c] + 0 + (earned[c] + 0)
  BY <1>1 DEF Total, StillToBill, StillToPay
<1>3. \A c \in Customers : Total(c) = spent[c] + 0 + (earned[c] + 0)
  BY DEF Total, StillToBill, StillToPay
<1> QED
  BY <1>1, <1>2, <1>3 DEF Balanced

LEMMA ListBooks == ASSUME IInv, Balanced, ListBids PROVE Balanced'
<1>1. pc = "list" /\ UNCHANGED <<spent, earned, won>> /\ Read(bidMap[Port])
  BY DEF ListBids, Read, stores, ghosts
<1>2. CASE DOMAIN bidMap[Port] = {}
  BY <1>1, <1>2, ReturnBooks DEF Read
<1>3. CASE DOMAIN bidMap[Port] # {}
  <2>1. pc' = "publish" /\ UNCHANGED <<bill, gain>>
    BY <1>1, <1>3 DEF Read
  <2>2. \A c \in Customers : bill[c] = 0 /\ gain[c] = 0
    BY <1>1 DEF IInv, Rounds, Auctioning, Zero
  <2>3. \A c \in Customers : Total(c)' = Total(c)
    BY <1>1, <2>1, <2>2 DEF Total, StillToBill, StillToPay
  <2> QED
    BY <1>1, <2>1, <2>2, <2>3 DEF Balanced
<1> QED
  BY <1>2, <1>3

LEMMA PublishBooks == ASSUME IInv, Balanced, NEW i \in Ingress, Publish(i) PROVE Balanced'
<1>1. /\ pc = "publish" /\ pc' = "publish" /\ i \in unsent
      /\ bill' = [bill EXCEPT ![Owner[i]] = @ + Amount(i)]
      /\ gain' = [gain EXCEPT ![Owner[i]] = @ + Utility(i)]
      /\ won' = [won EXCEPT ![Owner[i]] = @ + AwardsOf(batch)[i]]
      /\ UNCHANGED <<batch, spent, earned>>
  BY DEF Publish, NextAllocation, stores
<1>2. i \in DOMAIN AwardsOf(batch) /\ batch \in Books /\ DOMAIN batch # {}
  BY <1>1 DEF IInv, TypeOK, Rounds, Auctioning
<1>3. /\ Owner[i] \in Customers /\ AwardsOf(batch)[i] \in Nat /\ PriceOf(batch) \in Nat
      /\ Amount(i) \in Nat /\ Utility(i) \in Int
  BY <1>2, OutcomeType
<1>4. bill \in [Customers -> Nat] /\ gain \in [Customers -> Int] /\ won \in [Customers -> Nat]
  BY DEF IInv, TypeOK
<1>5. Winners' = Winners /\ Owner[i] \in Winners
  BY <1>1, <1>2 DEF Winners
<1>6. \A c \in Customers \ Winners : bill'[c] = 0 /\ gain'[c] = 0
  BY <1>1, <1>4, <1>5 DEF Balanced
<1>7. ASSUME NEW c \in Customers PROVE Total(c)' = Valuation[c] * won'[c]
  <2>1. /\ Total(c) = spent[c] + bill[c] + (earned[c] + gain[c])
        /\ Total(c)' = spent[c] + bill'[c] + (earned[c] + gain'[c])
    BY <1>1 DEF Total, StillToBill, StillToPay
  <2>2. Total(c) = Valuation[c] * won[c]
    BY DEF Balanced
  <2>3. CASE c # Owner[i]
    BY <1>1, <1>4, <2>1, <2>2, <2>3
  <2>4. CASE c = Owner[i]
    <3>1. bill'[c] = bill[c] + Amount(i) /\ gain'[c] = gain[c] + Utility(i)
          /\ won'[c] = won[c] + AwardsOf(batch)[i]
      BY <1>1, <1>4, <2>4
    <3>2. Amount(i) = AwardsOf(batch)[i] * PriceOf(batch)
          /\ Utility(i) = (Valuation[c] - PriceOf(batch)) * AwardsOf(batch)[i]
      BY <2>4 DEF Amount, Utility
    <3> DEFINE a == AwardsOf(batch)[i]
               p == PriceOf(batch)
               v == Valuation[c]
               w == won[c]
    <3>0. a \in Int /\ p \in Int /\ v \in Int /\ w \in Int
      BY <1>3, AccountTypes
    <3>3. v * (w + a) = v * w + (Amount(i) + Utility(i))
      <4>1. Amount(i) = a * p /\ Utility(i) = (v - p) * a
        BY <3>2
      <4> HIDE DEF a, p, v, w
      <4> QED
        BY <3>0, <4>1, SplitValue
    <3>4. Valuation[c] * won'[c] = v * w + (Amount(i) + Utility(i))
      BY <3>1, <3>3
    <3> HIDE DEF a, p
    <3> QED
      BY <1>3, <2>1, <2>2, <3>1, <3>4, AccountTypes
  <2> QED
    BY <2>3, <2>4
<1> QED
  BY <1>1, <1>5, <1>6, <1>7 DEF Balanced

LEMMA PublishDoneBooks == ASSUME IInv, Balanced, PublishDone PROVE Balanced'
<1>1. /\ pc = "publish" /\ pc' = "credits" /\ unbilled' = Winners /\ unpaid' = Winners
      /\ UNCHANGED <<batch, bill, gain, spent, earned, won>>
  BY DEF PublishDone, stores
<1>2. Winners' = Winners
  BY <1>1 DEF Winners
<1>3. ASSUME NEW c \in Customers PROVE Total(c)' = Total(c)
  <2>1. c \notin Winners => bill[c] = 0
    BY <1>1 DEF Balanced
  <2> QED
    BY <1>1, <2>1 DEF Total, StillToBill, StillToPay
<1> QED
  BY <1>1, <1>2, <1>3 DEF Balanced

LEMMA BillBooks == ASSUME IInv, Balanced, NEW c \in Customers, Bill(c) PROVE Balanced'
<1>1. /\ pc = "credits" /\ pc' = pc /\ c \in unbilled
      /\ unbilled' = unbilled \ {c}
      /\ spent' = [spent EXCEPT ![c] = spent[c] + bill[c]]
      /\ UNCHANGED <<batch, bill, gain, unpaid, earned, won>>
  BY DEF Bill, BillCustomer, ghosts
<1>2. spent \in [Customers -> Nat]
  BY DEF IInv, TypeOK
<1>3. Winners' = Winners
  BY <1>1 DEF Winners
<1>4. ASSUME NEW d \in Customers PROVE Total(d)' = Total(d)
  <2>1. /\ Total(d) = spent[d] + (IF d \in unbilled THEN bill[d] ELSE 0) + (earned[d] + gain[d])
        /\ Total(d)' = spent'[d] + (IF d \in unbilled \ {c} THEN bill[d] ELSE 0)
                         + (earned[d] + gain[d])
    BY <1>1 DEF Total, StillToBill, StillToPay
  <2> QED
    BY <1>1, <1>2, <2>1, AccountTypes
<1> QED
  BY <1>1, <1>3, <1>4 DEF Balanced

LEMMA PayBooks == ASSUME IInv, Balanced, NEW c \in Customers, Pay(c) PROVE Balanced'
<1>1. /\ pc = "utility" /\ pc' = pc /\ c \in unpaid
      /\ unpaid' = unpaid \ {c}
      /\ earned' = [earned EXCEPT ![c] = earned[c] + gain[c]]
      /\ UNCHANGED <<batch, bill, gain, spent, won>>
  BY DEF Pay, PayCustomer, ghosts
<1>2. earned \in [Customers -> Int]
  BY DEF IInv, TypeOK
<1>3. ASSUME NEW d \in Customers PROVE Total(d)' = Total(d)
  <2>1. /\ Total(d) = spent[d] + 0 + (earned[d] + (IF d \in unpaid THEN gain[d] ELSE 0))
        /\ Total(d)' = spent[d] + 0 + (earned'[d] + (IF d \in unpaid \ {c} THEN gain[d] ELSE 0))
    BY <1>1 DEF Total, StillToBill, StillToPay
  <2> QED
    BY <1>1, <1>2, <2>1, AccountTypes
<1> QED
  BY <1>1, <1>3 DEF Balanced

(***************************************************************************)
(* A loop over the customers ends when nobody is left.                     *)
(***************************************************************************)
LEMMA LoopEndBooks ==
  ASSUME IInv, Balanced, BillingDone \/ PayingDone \/ StoreHistory
  PROVE  Balanced'
<1>1. UNCHANGED <<batch, bill, gain, unbilled, unpaid, spent, earned, won>>
  BY DEF BillingDone, PayingDone, StoreHistory, rounds, stores, ghosts
<1>2. CASE BillingDone
  <2>1. pc = "credits" /\ pc' = "utility" /\ unbilled = {} /\ unpaid = Winners
    BY <1>2 DEF BillingDone, Balanced
  <2>2. \A c \in Customers : c \notin unpaid => gain[c] = 0
    BY <2>1 DEF Balanced
  <2>3. \A c \in Customers : Total(c)' = Total(c)
    BY <1>1, <2>1, <2>2 DEF Total, StillToBill, StillToPay
  <2> QED
    BY <1>1, <2>1, <2>3 DEF Balanced
<1>3. CASE PayingDone
  <2>1. pc = "utility" /\ pc' = "history" /\ unpaid = {}
    BY <1>3 DEF PayingDone
  <2>2. \A c \in Customers : Total(c)' = Total(c)
    BY <1>1, <2>1 DEF Total, StillToBill, StillToPay
  <2> QED
    BY <1>1, <2>1, <2>2 DEF Balanced
<1>4. CASE StoreHistory
  <2>1. pc = "history" /\ pc' = "clear"
    BY <1>4 DEF StoreHistory
  <2>2. \A c \in Customers : Total(c)' = Total(c)
    BY <1>1, <2>1 DEF Total, StillToBill, StillToPay
  <2> QED
    BY <1>1, <2>1, <2>2 DEF Balanced
<1> QED
  BY <1>2, <1>3, <1>4

LEMMA InitBooks == Init => BInv
<1> SUFFICES ASSUME Init PROVE Balanced
  BY DEF BInv
<1>1. pc = "idle" /\ \A c \in Customers : spent[c] = 0 /\ earned[c] = 0 /\ won[c] = 0
  BY DEF Init, Zero
<1>2. \A c \in Customers : Total(c) = 0 /\ Valuation[c] * won[c] = 0
  BY <1>1, ValuationAssumption DEF Total, StillToBill, StillToPay
<1> QED
  BY <1>1, <1>2 DEF Balanced

(***************************************************************************)
(* Nothing but a failure is counted as one.                                *)
(***************************************************************************)
LEMMA FaultsCount ==
  ASSUME IInv, [Next]_vars, faults' = 0
  PROVE  faults = 0 /\ ~Failure
<1>1. faults \in Nat
  BY BoundAssumption DEF IInv, TypeOK
<1>2. Failure => faults' = faults + 1
  BY DEF Failure, ListPartly, ListFails, PublishFails, BillFromZero, PayFromZero, BillingFails,
     PayingFails, HistoryFails, ClearFails, Crash, Fault
<1>3. CASE Failure
  BY <1>1, <1>2, <1>3
<1>4. CASE ~Failure /\ Next
  <2>1. faults' = faults
    BY <1>4 DEF Next, Post, PostBid, Elapse, Fire, Restart, Runner, TakeTick, StartAuction, ListBids,
       Publish, PublishDone, Bill, Pay, BillingDone, PayingDone, StoreHistory, ClearBids
  <2> QED
    BY <1>4, <2>1
<1>5. CASE ~Failure /\ UNCHANGED vars
  BY <1>5 DEF vars
<1> QED
  BY <1>3, <1>4, <1>5

LEMMA NextBooks == ASSUME IInv, BInv, [Next]_vars PROVE BInv'
<1> SUFFICES ASSUME faults' = 0 PROVE Balanced'
  BY DEF BInv
<1>1. faults = 0 /\ ~Failure
  BY FaultsCount
<1>2. Balanced
  BY <1>1 DEF BInv
<1>3. CASE UNCHANGED vars
  <2>1. UNCHANGED <<batch, bill, gain, unbilled, unpaid, spent, earned, won, pc>>
    BY <1>3 DEF vars, rounds, stores, ghosts
  <2> QED
    BY <1>2, <2>1, AsideBooks
<1>4. CASE Post \/ Elapse \/ Fire \/ TakeTick \/ StartAuction
  <2>1. /\ UNCHANGED <<batch, bill, gain, unbilled, unpaid, spent, earned, won>>
        /\ pc' = pc \/ (~Auctioning /\ ~Auctioning' /\ pc' # "down")
    BY <1>4 DEF Post, PostBid, Elapse, Fire, TakeTick, StartAuction, rounds, stores, ghosts, Auctioning
  <2> QED
    BY <1>2, <2>1, AsideBooks
<1>5. CASE Restart
  BY <1>2, <1>5 DEF Restart, Balanced
<1>6. CASE Runner
  <2>1. ASSUME ClearBids PROVE Balanced'
    <3>1. pc = "clear" /\ Return /\ UNCHANGED <<spent, earned, won>>
      BY <2>1 DEF ClearBids, stores
    <3> QED
      BY <1>2, <3>1, ReturnBooks
  <2>2. ASSUME TakeTick \/ StartAuction PROVE Balanced'
    BY <1>4, <2>2
  <2> QED
    BY <1>2, <1>6, <2>1, <2>2, ListBooks, PublishBooks, PublishDoneBooks, BillBooks, PayBooks,
       LoopEndBooks DEF Runner
<1> QED
  BY <1>1, <1>3, <1>4, <1>5, <1>6 DEF Next

(***************************************************************************)
(* Until something fails, what a customer spent and what it gained add up  *)
(* to the worth of what it won whenever no auction of it is under way.     *)
(***************************************************************************)
THEOREM BooksBalanceHolds == Spec => [](faults = 0 => BooksBalance)
<1>1. IInv /\ BInv => (faults = 0 => BooksBalance)
  <2> SUFFICES ASSUME IInv, Balanced, pc \in {"idle", "start", "list", "clear"}, NEW c \in Customers
               PROVE  spent[c] + earned[c] = Valuation[c] * won[c]
    BY DEF BInv, BooksBalance
  <2>1. Total(c) = spent[c] + 0 + (earned[c] + 0)
    BY DEF Total, StillToBill, StillToPay
  <2> QED
    BY <2>1, AccountTypes DEF Balanced
<1>2. IInv /\ BInv /\ [Next]_vars => BInv'
  BY NextBooks
<1> QED
  BY <1>1, <1>2, InitBooks, Inductive, PTL DEF Spec

-----------------------------------------------------------------------------
(***************************************************************************)
(* The history.  The bill of a round is what its results so far are worth, *)
(* and from its billing on until its record is stored a customer has been  *)
(* charged for it on top of what the records show.                         *)
(***************************************************************************)
Awarded == DOMAIN AwardsOf(batch)
DueTo(c) == [i \in Awarded |-> IF Owner[i] = c THEN Amount(i) ELSE 0]

Unrecorded(c) ==
  IF (pc = "credits" /\ c \notin unbilled) \/ pc \in {"utility", "history"} THEN bill[c] ELSE 0

Billing == pc \in {"publish", "credits", "utility", "history"}

Recorded ==
  /\ pc \in {"credits", "utility", "history"} => unsent = {}
  /\ Billing => \A c \in Customers : bill[c] = SumFunctionOnSet(DueTo(c), Awarded \ unsent)
  /\ \A c \in Customers : HistoryAmount(c) + Unrecorded(c) <= spent[c]

FiniteHistory == IsFiniteSet(history) /\ \A r \in history : IsFiniteSet(r.allocations)

RInv == FiniteHistory /\ (faults = 0 => Recorded)

LEMMA DueTypes ==
  ASSUME IInv, Billing, NEW c \in Customers
  PROVE  /\ IsFiniteSet(Awarded) /\ PriceOf(batch) \in Nat
         /\ DueTo(c) \in [Awarded -> Nat]
         /\ \A i \in Awarded : AwardsOf(batch)[i] \in Nat /\ Amount(i) \in Nat /\ Owner[i] \in Customers
<1>1. batch \in Books /\ DOMAIN batch # {}
  BY DEF IInv, TypeOK, Rounds, Auctioning, Billing
<1>2. /\ PriceOf(batch) \in Nat /\ Awarded \subseteq Ingress
      /\ \A i \in Awarded : AwardsOf(batch)[i] \in Nat /\ Amount(i) \in Nat /\ Owner[i] \in Customers
  BY <1>1, OutcomeType DEF Awarded
<1>3. IsFiniteSet(Awarded)
  BY <1>2, IngressAssumption, FS_Subset
<1> QED
  BY <1>2, <1>3 DEF DueTo

LEMMA RecordTypes ==
  ASSUME NEW r, IsFiniteSet(r.allocations), r \in HistoryRecord, NEW c
  PROVE  InRecord(r, c) \in Nat
<1> DEFINE f == [a \in r.allocations |-> IF a.customer = c THEN a.units * r.price ELSE 0]
<1>1. r.price \in Nat /\ \A a \in r.allocations : a.units \in Nat
  BY DEF HistoryRecord
<1>2. \A a \in r.allocations : f[a] \in Nat
  BY <1>1
<1>3. SumFunctionOnSet(f, r.allocations) \in Nat
  BY <1>2, SumNat
<1> QED
  BY <1>3 DEF InRecord

LEMMA RecordIsFinite ==
  ASSUME IInv, pc = "history"
  PROVE  IsFiniteSet(Record.allocations)
<1> DEFINE Served == {i \in Awarded : AwardsOf(batch)[i] > 0}
           entry == [i \in Served |->
                       [customer |-> Owner[i], ingress |-> i, units |-> AwardsOf(batch)[i]]]
<1>1. batch \in Books /\ DOMAIN batch # {}
  BY DEF IInv, TypeOK, Rounds, Auctioning
<1>2. Awarded \subseteq Ingress
  BY <1>1, OutcomeType DEF Awarded
<1>3. IsFiniteSet(Served)
  BY <1>2, IngressAssumption, FS_Subset
<1>4. Record.allocations = {entry[i] : i \in Served}
  BY DEF Record, Awarded
<1>5. entry \in Surjection(Served, Record.allocations)
  BY <1>4 DEF Surjection
<1> HIDE DEF Served, entry
<1> QED
  BY <1>3, <1>5, FS_Surjection

(***************************************************************************)
(* The record of a round shows a customer what it was billed.              *)
(***************************************************************************)
LEMMA RecordShowsBill ==
  ASSUME IInv, Recorded, pc = "history", NEW c \in Customers
  PROVE  InRecord(Record, c) = bill[c]
<1> DEFINE Served == {i \in Awarded : AwardsOf(batch)[i] > 0}
           entry == [i \in Served |->
                       [customer |-> Owner[i], ingress |-> i, units |-> AwardsOf(batch)[i]]]
           f == [a \in Record.allocations |->
                   IF a.customer = c THEN a.units * Record.price ELSE 0]
<1>1. /\ IsFiniteSet(Awarded) /\ DueTo(c) \in [Awarded -> Nat]
      /\ \A i \in Awarded : AwardsOf(batch)[i] \in Nat /\ Amount(i) \in Nat
  BY DueTypes DEF Billing
<1>2. Record.allocations = {entry[i] : i \in Served} /\ Record.price = PriceOf(batch)
  BY DEF Record, Awarded
<1>3. IsFiniteSet(Served) /\ Served \in SUBSET Awarded
  BY <1>1, FS_Subset
<1>4. \A i \in Served : DueTo(c)[i] \in Int /\ f[entry[i]] = DueTo(c)[i]
  <2> SUFFICES ASSUME NEW i \in Served PROVE DueTo(c)[i] \in Int /\ f[entry[i]] = DueTo(c)[i]
    OBVIOUS
  <2>1. entry[i] \in Record.allocations
    BY <1>2
  <2>2. entry[i].customer = Owner[i] /\ entry[i].units = AwardsOf(batch)[i]
    OBVIOUS
  <2>3. f[entry[i]] = IF Owner[i] = c THEN AwardsOf(batch)[i] * PriceOf(batch) ELSE 0
    BY <1>2, <2>1, <2>2
  <2>4. DueTo(c)[i] = IF Owner[i] = c THEN AwardsOf(batch)[i] * PriceOf(batch) ELSE 0
    BY DEF DueTo, Amount, Awarded
  <2> QED
    BY <1>1, <2>3, <2>4
<1>5. \A i, j \in Served : entry[i] = entry[j] => i = j
  <2> SUFFICES ASSUME NEW i \in Served, NEW j \in Served, entry[i] = entry[j] PROVE i = j
    OBVIOUS
  <2>1. entry[i].ingress = i /\ entry[j].ingress = j
    OBVIOUS
  <2> QED
    BY <2>1
<1>6. SumFunctionOnSet(f, Record.allocations) = SumFunctionOnSet(DueTo(c), Served)
  <2> HIDE DEF entry, f, Served
  <2> QED
    BY <1>2, <1>3, <1>4, <1>5, SumRenamed
<1>7. SumFunctionOnSet(DueTo(c), Awarded) = SumFunctionOnSet(DueTo(c), Served)
  <2>1. \A i \in Awarded \ Served : DueTo(c)[i] = 0
    <3> SUFFICES ASSUME NEW i \in Awarded \ Served PROVE DueTo(c)[i] = 0
      OBVIOUS
    <3>1. AwardsOf(batch)[i] = 0 /\ PriceOf(batch) \in Nat
      BY <1>1, DueTypes DEF Billing
    <3> QED
      BY <3>1 DEF DueTo, Amount
  <2>2. \A i \in Awarded : DueTo(c)[i] \in Int
    BY <1>1
  <2> HIDE DEF Served
  <2> QED
    BY <1>1, <1>3, <2>1, <2>2, SumZeros
<1>8. bill[c] = SumFunctionOnSet(DueTo(c), Awarded)
  <2>1. Awarded \ unsent = Awarded
    BY DEF Recorded
  <2>2. bill[c] = SumFunctionOnSet(DueTo(c), Awarded \ unsent)
    BY DEF Recorded, Billing
  <2> QED
    BY <2>1, <2>2
<1> QED
  BY <1>6, <1>7, <1>8 DEF InRecord

(***************************************************************************)
(* A Put of a record adds to what a customer is shown what it was billed,  *)
(* at most.                                                                *)
(***************************************************************************)
LEMMA StoreHistoryRecords ==
  ASSUME IInv, IInv', FiniteHistory, Recorded, StoreHistory
  PROVE  Recorded'
<1> DEFINE Old == {r \in history : ~SameKey(r, Record)}
<1>1. /\ pc = "history" /\ pc' = "clear" /\ history' = Old \cup {Record}
      /\ UNCHANGED <<spent, bill, batch, unsent, unbilled>>
  BY DEF StoreHistory, rounds
<1>2. Record \notin Old
  BY DEF SameKey
<1>3. IsFiniteSet(Old) /\ Old \in SUBSET history
  BY FS_Subset DEF FiniteHistory
<1>4. history \subseteq HistoryRecord /\ Record \in HistoryRecord
  <2>1. history \subseteq HistoryRecord /\ history' \subseteq HistoryRecord
    BY DEF IInv, TypeOK
  <2> QED
    BY <1>1, <2>1
<1>5. ASSUME NEW c \in Customers PROVE HistoryAmount(c)' + 0 <= spent[c]
  <2> DEFINE f == [r \in history |-> InRecord(r, c)]
             g == [r \in Old \cup {Record} |-> InRecord(r, c)]
  <2>1. \A r \in history : f[r] \in Nat
    BY <1>4, RecordTypes DEF FiniteHistory
  <2>2. g[Record] = bill[c] /\ bill[c] \in Nat
    BY <1>1, RecordShowsBill DEF IInv, TypeOK
  <2>3. \A r \in Old : g[r] = f[r] /\ g[r] \in Int
    BY <1>3, <2>1
  <2>4. HistoryAmount(c) = SumFunctionOnSet(f, history)
    BY DEF HistoryAmount
  <2>5. HistoryAmount(c)' = SumFunctionOnSet(g, Old \cup {Record})
    BY <1>1 DEF HistoryAmount, InRecord
  <2>6. HistoryAmount(c) + bill[c] <= spent[c]
    BY <1>1 DEF Recorded, Unrecorded
  <2>7. spent[c] \in Nat
    BY DEF IInv, TypeOK
  <2> HIDE DEF f, g, Old
  <2>8. SumFunctionOnSet(g, Old \cup {Record}) = g[Record] + SumFunctionOnSet(g, Old)
    BY <1>2, <1>3, <2>2, <2>3, SumAdd
  <2>9. SumFunctionOnSet(g, Old) = SumFunctionOnSet(f, Old)
    BY <1>3, <2>3, SumSame
  <2>10. SumFunctionOnSet(f, Old) <= SumFunctionOnSet(f, history)
    BY <1>3, <2>1, SumPart DEF FiniteHistory
  <2>11. SumFunctionOnSet(f, Old) \in Int /\ SumFunctionOnSet(f, history) \in Int
    BY <1>3, <2>1, SumInt DEF FiniteHistory
  <2> QED
    BY <2>2, <2>4, <2>5, <2>6, <2>7, <2>8, <2>9, <2>10, <2>11
<1> QED
  BY <1>1, <1>5 DEF Recorded, Unrecorded, Billing

(***************************************************************************)
(* Steps that leave the round, what is charged and the history alone.      *)
(***************************************************************************)
LEMMA AsideRecords ==
  ASSUME Recorded, UNCHANGED <<batch, bill, unsent, unbilled, spent, history>>,
         pc' = pc \/ (~Auctioning /\ ~Auctioning')
  PROVE  Recorded'
<1>1. \A c : DueTo(c)' = DueTo(c) /\ Awarded' = Awarded
  BY DEF DueTo, Awarded, Amount
<1>2. \A c \in Customers : HistoryAmount(c)' = HistoryAmount(c)
  BY DEF HistoryAmount
<1>3. CASE pc' = pc
  BY <1>1, <1>2, <1>3 DEF Recorded, Unrecorded, Billing
<1>4. CASE ~Auctioning /\ ~Auctioning'
  BY <1>2, <1>4 DEF Recorded, Unrecorded, Billing, Auctioning
<1> QED
  BY <1>3, <1>4

LEMMA AmountType ==
  ASSUME IInv, FiniteHistory, NEW c \in Customers
  PROVE  HistoryAmount(c) \in Nat /\ spent[c] \in Nat /\ bill[c] \in Nat
<1> DEFINE f == [r \in history |-> InRecord(r, c)]
<1>1. \A r \in history : f[r] \in Nat
  BY RecordTypes DEF FiniteHistory, IInv, TypeOK
<1>2. SumFunctionOnSet(f, history) \in Nat
  BY <1>1, SumNat DEF FiniteHistory
<1> QED
  BY <1>2 DEF HistoryAmount, IInv, TypeOK

(***************************************************************************)
(* A round that ends, or has nothing to auction.                           *)
(***************************************************************************)
LEMMA EndRecords ==
  ASSUME IInv, FiniteHistory, Recorded, pc \in {"list", "clear"}, pc' = "start",
         UNCHANGED <<spent, history>>
  PROVE  Recorded'
<1>1. ASSUME NEW c \in Customers PROVE HistoryAmount(c)' + Unrecorded(c)' <= spent'[c]
  <2>1. HistoryAmount(c)' = HistoryAmount(c)
    BY DEF HistoryAmount
  <2> QED
    BY <2>1 DEF Recorded, Unrecorded
<1> QED
  BY <1>1 DEF Recorded, Billing

LEMMA ListRecords == ASSUME IInv, FiniteHistory, Recorded, ListBids PROVE Recorded'
<1>1. pc = "list" /\ UNCHANGED <<spent, history>> /\ Read(bidMap[Port])
  BY DEF ListBids, Read, stores
<1>2. CASE DOMAIN bidMap[Port] = {}
  <2>1. pc' = "start"
    BY <1>1, <1>2 DEF Read, Return
  <2> QED
    BY <1>1, <2>1, EndRecords
<1>3. CASE DOMAIN bidMap[Port] # {}
  <2>1. pc' = "publish" /\ unsent' = Awarded' /\ UNCHANGED bill
    BY <1>1, <1>3 DEF Read, Awarded
  <2>2. ASSUME NEW c \in Customers
        PROVE  /\ bill'[c] = SumFunctionOnSet(DueTo(c)', Awarded' \ unsent')
               /\ HistoryAmount(c)' + Unrecorded(c)' <= spent'[c]
    <3>1. bill[c] = 0
      BY <1>1 DEF IInv, Rounds, Auctioning, Zero
    <3>2. Awarded' \ unsent' = {}
      BY <2>1
    <3>3. SumFunctionOnSet(DueTo(c)', Awarded' \ unsent') = 0
      BY <3>2, SumEmpty
    <3>4. HistoryAmount(c)' = HistoryAmount(c)
      BY <1>1 DEF HistoryAmount
    <3>5. Unrecorded(c) = 0 /\ Unrecorded(c)' = 0
      BY <1>1, <2>1 DEF Unrecorded
    <3> QED
      BY <1>1, <2>1, <3>1, <3>3, <3>4, <3>5 DEF Recorded
  <2> QED
    BY <2>1, <2>2 DEF Recorded, Billing
<1> QED
  BY <1>2, <1>3

LEMMA PublishRecords == ASSUME IInv, Recorded, NEW i \in Ingress, Publish(i) PROVE Recorded'
<1>1. /\ pc = "publish" /\ pc' = "publish" /\ i \in unsent /\ unsent' = unsent \ {i}
      /\ bill' = [bill EXCEPT ![Owner[i]] = @ + Amount(i)]
      /\ UNCHANGED <<batch, spent, history>>
  BY DEF Publish, NextAllocation, stores
<1>2. i \in Awarded /\ unsent \subseteq Awarded
  BY <1>1 DEF IInv, Rounds, Auctioning, Awarded
<1>3. ASSUME NEW c \in Customers
      PROVE  /\ bill'[c] = SumFunctionOnSet(DueTo(c)', Awarded' \ unsent')
             /\ HistoryAmount(c)' + Unrecorded(c)' <= spent'[c]
  <2> DEFINE sent == Awarded \ unsent
             f == DueTo(c)
  <2>1. IsFiniteSet(Awarded) /\ f \in [Awarded -> Nat] /\ Amount(i) \in Nat /\ Owner[i] \in Customers
    BY <1>1, <1>2, DueTypes DEF Billing
  <2>2. f[i] = IF Owner[i] = c THEN Amount(i) ELSE 0
    BY <1>2 DEF DueTo
  <2>3. IsFiniteSet(sent) /\ i \notin sent /\ \A j \in sent : f[j] \in Int
    BY <1>1, <2>1, FS_Subset
  <2>4. f[i] \in Int
    BY <1>2, <2>1
  <2>5. DueTo(c)' = f /\ Awarded' = Awarded /\ Awarded' \ unsent' = sent \cup {i}
    BY <1>1, <1>2 DEF DueTo, Awarded, Amount
  <2>6. bill \in [Customers -> Nat] /\ bill[c] = SumFunctionOnSet(f, sent)
    BY <1>1 DEF IInv, TypeOK, Recorded, Billing
  <2>7. bill'[c] = bill[c] + f[i]
    BY <1>1, <2>1, <2>2, <2>6
  <2>8. HistoryAmount(c)' = HistoryAmount(c) /\ Unrecorded(c)' = Unrecorded(c)
    BY <1>1 DEF HistoryAmount, Unrecorded
  <2>9. SumFunctionOnSet(f, sent \cup {i}) = f[i] + SumFunctionOnSet(f, sent)
    BY <2>3, <2>4, SumAdd
  <2>10. SumFunctionOnSet(DueTo(c)', Awarded' \ unsent') = f[i] + SumFunctionOnSet(f, sent)
    BY <2>5, <2>9
  <2>11. HistoryAmount(c)' + Unrecorded(c)' <= spent'[c]
    BY <1>1, <2>8 DEF Recorded
  <2> HIDE DEF f, sent
  <2> QED
    BY <2>4, <2>6, <2>7, <2>10, <2>11
<1> QED
  BY <1>1, <1>3 DEF Recorded, Billing

(***************************************************************************)
(* The round is settled: nobody else's bill is anything, and each bill is  *)
(* charged before the record shows it.                                     *)
(***************************************************************************)
LEMMA SettleRecords ==
  ASSUME IInv, FiniteHistory, Recorded, Balanced, PublishDone \/ BillingDone \/ PayingDone
  PROVE  Recorded'
<1>1. UNCHANGED <<batch, bill, unsent, spent, history>>
  BY DEF PublishDone, BillingDone, PayingDone, rounds, stores
<1>2. /\ unsent = {} /\ Billing /\ Billing'
      /\ pc \in {"publish", "credits", "utility"} /\ pc' \in {"credits", "utility", "history"}
  BY DEF PublishDone, BillingDone, PayingDone, Recorded, Billing
<1>3. \A c : DueTo(c)' = DueTo(c) /\ Awarded' = Awarded
  BY <1>1 DEF DueTo, Awarded, Amount
<1>4. ASSUME NEW c \in Customers PROVE HistoryAmount(c)' + Unrecorded(c)' <= spent'[c]
  <2>1. HistoryAmount(c)' = HistoryAmount(c)
    BY <1>1 DEF HistoryAmount
  <2>2. HistoryAmount(c) + Unrecorded(c) <= spent[c]
    BY DEF Recorded
  <2>3. Unrecorded(c)' = Unrecorded(c)
    <3>1. CASE PublishDone
      <4>1. pc = "publish" /\ pc' = "credits" /\ unbilled' = Winners
        BY <3>1 DEF PublishDone
      <4>2. c \notin Winners => bill[c] = 0
        BY <4>1 DEF Balanced
      <4> QED
        BY <1>1, <4>1, <4>2 DEF Unrecorded
    <3>2. CASE BillingDone
      BY <1>1, <3>2 DEF BillingDone, Unrecorded
    <3>3. CASE PayingDone
      BY <1>1, <3>3 DEF PayingDone, Unrecorded
    <3> QED
      BY <3>1, <3>2, <3>3
  <2> QED
    BY <1>1, <2>1, <2>2, <2>3
<1> QED
  BY <1>1, <1>2, <1>3, <1>4 DEF Recorded

LEMMA BillRecords == ASSUME IInv, FiniteHistory, Recorded, NEW c \in Customers, Bill(c) PROVE Recorded'
<1>1. /\ pc = "credits" /\ pc' = pc /\ c \in unbilled
      /\ unbilled' = unbilled \ {c}
      /\ spent' = [spent EXCEPT ![c] = spent[c] + bill[c]]
      /\ UNCHANGED <<batch, bill, unsent, history>>
  BY DEF Bill, BillCustomer
<1>2. spent \in [Customers -> Nat]
  BY DEF IInv, TypeOK
<1>3. \A d : DueTo(d)' = DueTo(d) /\ Awarded' = Awarded
  BY <1>1 DEF DueTo, Awarded, Amount
<1>4. ASSUME NEW d \in Customers PROVE HistoryAmount(d)' + Unrecorded(d)' <= spent'[d]
  <2>1. HistoryAmount(d)' = HistoryAmount(d)
    BY <1>1 DEF HistoryAmount
  <2>2. HistoryAmount(d) + Unrecorded(d) <= spent[d]
    BY DEF Recorded
  <2>3. /\ Unrecorded(d) = IF d \notin unbilled THEN bill[d] ELSE 0
        /\ Unrecorded(d)' = IF d \notin unbilled \ {c} THEN bill[d] ELSE 0
    BY <1>1 DEF Unrecorded
  <2>4. HistoryAmount(d) \in Nat /\ spent[d] \in Nat /\ bill[d] \in Nat
    BY AmountType
  <2>5. CASE d = c
    BY <1>1, <1>2, <2>1, <2>2, <2>3, <2>4, <2>5
  <2>6. CASE d # c
    BY <1>1, <1>2, <2>1, <2>2, <2>3, <2>4, <2>6
  <2> QED
    BY <2>5, <2>6
<1> QED
  BY <1>1, <1>3, <1>4 DEF Recorded, Billing

-----------------------------------------------------------------------------
LEMMA InitRecords == Init => RInv
<1> SUFFICES ASSUME Init PROVE RInv
  OBVIOUS
<1>1. pc = "idle" /\ history = {} /\ \A c \in Customers : spent[c] = 0
  BY DEF Init, Zero
<1>2. ASSUME NEW c \in Customers PROVE HistoryAmount(c) = 0
  BY <1>1, SumEmpty DEF HistoryAmount
<1>3. FiniteHistory
  BY <1>1, FS_EmptySet DEF FiniteHistory
<1> QED
  BY <1>1, <1>2, <1>3 DEF RInv, Recorded, Unrecorded, Billing

(***************************************************************************)
(* Whether or not it fails, a step leaves the history finite.              *)
(***************************************************************************)
LEMMA NextFinite == ASSUME IInv, FiniteHistory, [Next]_vars PROVE FiniteHistory'
<1>1. CASE StoreHistory
  <2> DEFINE Old == {r \in history : ~SameKey(r, Record)}
  <2>1. IsFiniteSet(Old) /\ Old \subseteq history /\ history' = Old \cup {Record}
    BY <1>1, FS_Subset DEF FiniteHistory, StoreHistory
  <2>2. IsFiniteSet(Old \cup {Record})
    BY <2>1, FS_AddElement
  <2>3. IsFiniteSet(Record.allocations)
    BY <1>1, RecordIsFinite DEF StoreHistory
  <2> QED
    BY <2>1, <2>2, <2>3 DEF FiniteHistory
<1>2. CASE ~StoreHistory
  <2>1. history' = history
    BY <1>2 DEF Next, Post, PostBid, Elapse, Fire, Restart, Runner, TakeTick, StartAuction, ListBids,
       Read, Publish, PublishDone, Bill, BillCustomer, Pay, PayCustomer, BillingDone, PayingDone,
       ClearBids, Failure, ListPartly, ListFails, PublishFails, BillFromZero, PayFromZero,
       BillingFails, PayingFails, HistoryFails, ClearFails, Crash, stores, vars
  <2> QED
    BY <2>1 DEF FiniteHistory
<1> QED
  BY <1>1, <1>2

LEMMA NextRecords == ASSUME IInv, IInv', BInv, RInv, [Next]_vars PROVE RInv'
<1>1. FiniteHistory /\ FiniteHistory'
  BY NextFinite DEF RInv
<1> SUFFICES ASSUME faults' = 0 PROVE Recorded'
  BY <1>1 DEF RInv
<1>2. faults = 0 /\ ~Failure
  BY FaultsCount
<1>3. Recorded /\ Balanced
  BY <1>2 DEF RInv, BInv
<1>4. CASE UNCHANGED vars
  <2>1. UNCHANGED <<batch, bill, unsent, unbilled, spent, history, pc>>
    BY <1>4 DEF vars, rounds, stores
  <2> QED
    BY <1>3, <2>1, AsideRecords
<1>5. CASE Post \/ Elapse \/ Fire \/ Restart \/ TakeTick \/ StartAuction
  <2>1. /\ UNCHANGED <<batch, bill, unsent, unbilled, spent, history>>
        /\ pc' = pc \/ (~Auctioning /\ ~Auctioning')
    BY <1>5 DEF Post, PostBid, Elapse, Fire, Restart, TakeTick, StartAuction, rounds, stores, Auctioning
  <2> QED
    BY <1>3, <2>1, AsideRecords
<1>6. ASSUME NEW c \in Customers, Pay(c) PROVE Recorded'
  <2>1. UNCHANGED <<batch, bill, unsent, unbilled, spent, history, pc>>
    BY <1>6 DEF Pay, PayCustomer
  <2> QED
    BY <1>3, <2>1, AsideRecords
<1>7. CASE ClearBids
  <2>1. pc = "clear" /\ pc' = "start" /\ UNCHANGED <<spent, history>>
    BY <1>7 DEF ClearBids, Return, stores
  <2> QED
    BY <1>1, <1>3, <2>1, EndRecords
<1>8. CASE Runner
  BY <1>1, <1>3, <1>5, <1>6, <1>7, <1>8, ListRecords, PublishRecords, SettleRecords, BillRecords,
     StoreHistoryRecords DEF Runner
<1> QED
  BY <1>2, <1>4, <1>5, <1>8 DEF Next

(***************************************************************************)
(* Until something fails, no customer is shown more in the history than    *)
(* it has been charged.                                                    *)
(***************************************************************************)
THEOREM HistoryBackedHolds == Spec => [](faults = 0 => HistoryBacked)
<1>1. IInv /\ RInv => (faults = 0 => HistoryBacked)
  <2> SUFFICES ASSUME IInv, FiniteHistory, Recorded, NEW c \in Customers
               PROVE  HistoryAmount(c) <= spent[c]
    BY DEF RInv, HistoryBacked
  <2>1. HistoryAmount(c) + Unrecorded(c) <= spent[c]
    BY DEF Recorded
  <2>2. HistoryAmount(c) \in Nat /\ spent[c] \in Nat /\ bill[c] \in Nat
    BY AmountType
  <2> QED
    BY <2>1, <2>2 DEF Unrecorded
<1>2. IInv /\ IInv' /\ BInv /\ RInv /\ [Next]_vars => RInv'
  BY NextRecords
<1>3. IInv /\ BInv /\ [Next]_vars => BInv'
  BY NextBooks
<1> QED
  BY <1>1, <1>2, <1>3, InitBooks, InitRecords, Inductive, PTL DEF Spec

-----------------------------------------------------------------------------
(***************************************************************************)
(* The refinement of AuctionLedger.  What the ledger shows of a customer   *)
(* is what the accounts show and what the round has still to write: a step *)
(* of the runner moves from the one to the other, except for the listing,  *)
(* which makes due all that the auction awards, and Clear.                 *)
(***************************************************************************)
Closing == IF Auctioning THEN {Port} ELSE {}
Charged(c) == spent[c] + Due(c)
Gained(c) == earned[c] + DueUtility(c)
Of(c, S) == {i \in S : Owner[i] = c}

LEMMA LedgerStutters ==
  ASSUME UNCHANGED bidMap, Closing' = Closing,
         \A c \in Customers : Charged(c)' = Charged(c) /\ Gained(c)' = Gained(c)
  PROVE  UNCHANGED Ledger!vars
<1>1. [c \in Customers |-> spent[c] + Due(c)]' = [c \in Customers |-> spent[c] + Due(c)]
  BY DEF Charged
<1>2. [c \in Customers |-> earned[c] + DueUtility(c)]' = [c \in Customers |-> earned[c] + DueUtility(c)]
  BY DEF Gained
<1>3. (IF Auctioning THEN {Port} ELSE {})' = (IF Auctioning THEN {Port} ELSE {})
  BY DEF Closing
<1> QED
  BY <1>1, <1>2, <1>3 DEF Ledger!vars

LEMMA LedgerStarts == Init => Ledger!Init
<1> SUFFICES ASSUME Init PROVE Ledger!Init
  OBVIOUS
<1>1. pc = "idle" /\ ~Auctioning
  BY DEF Init, Auctioning
<1>2. \A c \in Customers : spent[c] + Due(c) = 0 /\ earned[c] + DueUtility(c) = 0
  BY <1>1 DEF Init, Zero, Due, DueUtility
<1> QED
  BY <1>1, <1>2 DEF Init, Ledger!Init

(***************************************************************************)
(* A bid, at any time, changes nothing else.                               *)
(***************************************************************************)
LEMMA LedgerPosts ==
  ASSUME IInv, NEW port \in PostPorts, NEW ingress \in Ingress, NEW offer \in Offers,
         PostBid(port, ingress, offer)
  PROVE  Ledger!Next
<1> DEFINE bid == [id |-> posted', units |-> offer.units, price |-> offer.price]
<1>1. posted' \in Ids
  BY BoundAssumption DEF IInv, TypeOK, PostBid, Ids
<1>2. bid \in StoredBid
  BY <1>1 DEF StoredBid
<1>3. UNCHANGED <<pc, todo, batch, unsent, bill, gain, unbilled, unpaid, spent, earned>>
  BY DEF PostBid, rounds, stores
<1>4. bidMap' = [bidMap EXCEPT ![port] =
                   [j \in DOMAIN @ \cup {ingress} |-> IF j = ingress THEN bid ELSE @[j]]]
  BY DEF PostBid
<1>5. /\ (IF Auctioning THEN {Port} ELSE {})' = (IF Auctioning THEN {Port} ELSE {})
      /\ [c \in Customers |-> spent[c] + Due(c)]' = [c \in Customers |-> spent[c] + Due(c)]
      /\ [c \in Customers |-> earned[c] + DueUtility(c)]' = [c \in Customers |-> earned[c] + DueUtility(c)]
  BY <1>3 DEF Auctioning, Port, Due, DueUtility, Outstanding, Amounts, Utilities, Amount, Utility
<1> HIDE DEF bid
<1>6. Ledger!Post(port, ingress, bid)
  BY <1>4, <1>5 DEF Ledger!Post
<1> QED
  BY <1>2, <1>6 DEF Ledger!Next

-----------------------------------------------------------------------------
(***************************************************************************)
(* What is awarded, as sums.                                               *)
(***************************************************************************)
LEMMA AwardSums ==
  ASSUME batch \in Books, DOMAIN batch # {}, NEW S \in SUBSET DOMAIN AwardsOf(batch)
  PROVE  /\ IsFiniteSet(S)
         /\ \A i \in S : /\ Amounts[i] = Amount(i) /\ Amounts[i] \in Int
                         /\ Utilities[i] = Utility(i) /\ Utilities[i] \in Int
                         /\ AwardsOf(batch)[i] \in Int
<1>1. IsFiniteSet(S)
  BY OutcomeType, IngressAssumption, FS_Subset
<1>2. \A i \in S : Amounts[i] = Amount(i) /\ Utilities[i] = Utility(i)
  BY DEF Amounts, Utilities
<1> QED
  BY <1>1, <1>2, OutcomeType

LEMMA LedgerSum ==
  ASSUME NEW f, NEW S
  PROVE  Ledger!SumFunctionOnSet(f, S) = SumFunctionOnSet(f, S)
  BY DEF Ledger!SumFunctionOnSet, Ledger!FoldFunctionOnSet, Ledger!MapThenFoldSet,
         SumFunctionOnSet, FoldFunctionOnSet, MapThenFoldSet

LEMMA AwardTotals ==
  ASSUME NEW book \in Books, DOMAIN book # {}, NEW c \in Customers, NEW f, NEW g,
         \A i \in Of(c, DOMAIN AwardsOf(book)) :
           /\ f[i] = AwardsOf(book)[i] * PriceOf(book)
           /\ g[i] = (Valuation[c] - PriceOf(book)) * AwardsOf(book)[i]
  PROVE  /\ SumFunctionOnSet(f, Of(c, DOMAIN AwardsOf(book))) = Ledger!Charge(book, c)
         /\ SumFunctionOnSet(g, Of(c, DOMAIN AwardsOf(book))) = Ledger!Gain(book, c)
         /\ Ledger!Charge(book, c) \in Int /\ Ledger!Gain(book, c) \in Int
<1> DEFINE S == Of(c, DOMAIN AwardsOf(book))
           a == AwardsOf(book)
           p == PriceOf(book)
           v == Valuation[c]
<1>1. p \in Int /\ v - p \in Int
  BY OutcomeAssumption, ValuationAssumption
<1>2. PICK T \in SUBSET DOMAIN book : a \in [T -> Nat]
  BY OutcomeAssumption
<1>3. S \in SUBSET Ingress /\ \A i \in S : a[i] \in Int
  BY <1>2 DEF Of, Books
<1>4. IsFiniteSet(S)
  BY <1>3, IngressAssumption, FS_Subset
<1>5. \A i \in S : f[i] = p * a[i] /\ g[i] = (v - p) * a[i]
  BY <1>1, <1>3
<1>6. Ledger!WonBy(book, c) = SumFunctionOnSet(a, S)
  BY LedgerSum DEF Ledger!WonBy, Of
<1> HIDE DEF S, a, p
<1>7. SumFunctionOnSet(f, S) = p * SumFunctionOnSet(a, S)
  BY <1>1, <1>3, <1>4, <1>5, SumTimes
<1>8. SumFunctionOnSet(g, S) = (v - p) * SumFunctionOnSet(a, S)
  BY <1>1, <1>3, <1>4, <1>5, SumTimes
<1>9. SumFunctionOnSet(a, S) \in Int
  BY <1>3, <1>4, SumInt
<1>10. /\ Ledger!Charge(book, c) = p * SumFunctionOnSet(a, S)
       /\ Ledger!Gain(book, c) = (v - p) * SumFunctionOnSet(a, S)
  BY <1>6 DEF Ledger!Charge, Ledger!Gain, p
<1>11. Ledger!Charge(book, c) \in Int /\ Ledger!Gain(book, c) \in Int
  BY <1>1, <1>9, <1>10
<1> QED
  BY <1>7, <1>8, <1>10, <1>11 DEF S

LEMMA ListLedger ==
  ASSUME IInv, IInv', ListBids
  PROVE  Ledger!Next \/ UNCHANGED Ledger!vars
<1>1. pc = "list" /\ UNCHANGED <<spent, earned, bidMap>> /\ Read(bidMap[Port])
  BY DEF ListBids, Read, stores
<1>2. Port \in PostPorts
  <2>1. todo \in Seq(PostPorts) /\ todo # <<>>
    BY <1>1 DEF IInv, TypeOK, Rounds, InRound
  <2> QED
    BY <2>1 DEF Port
<1>3. ~Auctioning /\ \A c \in Customers : Due(c) = 0 /\ DueUtility(c) = 0
  BY <1>1 DEF Auctioning, Due, DueUtility
<1>4. CASE DOMAIN bidMap[Port] = {}
  <2>1. pc' = "start"
    BY <1>1, <1>4 DEF Read, Return
  <2>2. ~Auctioning' /\ \A c \in Customers : Due(c)' = 0 /\ DueUtility(c)' = 0
    BY <2>1 DEF Auctioning, Due, DueUtility
  <2>3. \A c \in Customers : Charged(c)' = Charged(c) /\ Gained(c)' = Gained(c)
    BY <1>1, <1>3, <2>2 DEF Charged, Gained
  <2> QED
    BY <1>1, <1>3, <2>2, <2>3, LedgerStutters DEF Closing
<1>5. CASE DOMAIN bidMap[Port] # {}
  <2>1. /\ pc' = "publish" /\ batch' = bidMap[Port] /\ unsent' = DOMAIN AwardsOf(bidMap[Port])
        /\ UNCHANGED <<bill, gain, todo>>
    BY <1>1, <1>5 DEF Read
  <2>2. Auctioning' /\ Port' = Port
    BY <2>1 DEF Auctioning, Port
  <2>3. \A c \in Customers : bill'[c] = 0 /\ gain'[c] = 0
    BY <1>3, <2>1 DEF IInv, Rounds, Zero
  <2>4. ASSUME NEW c \in Customers
        PROVE  /\ Charged(c)' = Charged(c) + Ledger!Charge(bidMap[Port], c)
               /\ Gained(c)' = Gained(c) + Ledger!Gain(bidMap[Port], c)
    <3>1. batch' \in Books /\ DOMAIN batch' # {}
      BY <1>5, <2>1 DEF IInv, TypeOK
    <3> DEFINE book == bidMap[Port]
               S == Of(c, DOMAIN AwardsOf(book))
    <3>2. \A i \in S : /\ Amounts'[i] = AwardsOf(book)[i] * PriceOf(book)
                       /\ Utilities'[i] = (Valuation[c] - PriceOf(book)) * AwardsOf(book)[i]
      BY <2>1 DEF Amounts, Utilities, Amount, Utility, Of
    <3>3. /\ SumFunctionOnSet(Amounts', S) = Ledger!Charge(book, c)
          /\ SumFunctionOnSet(Utilities', S) = Ledger!Gain(book, c)
          /\ Ledger!Charge(book, c) \in Int /\ Ledger!Gain(book, c) \in Int
      BY <2>1, <3>1, <3>2, AwardTotals
    <3>4. /\ Due(c)' = bill'[c] + SumFunctionOnSet(Amounts', S)
          /\ DueUtility(c)' = gain'[c] + SumFunctionOnSet(Utilities', S)
      BY <2>1 DEF Due, DueUtility, Outstanding, Of
    <3>5. spent[c] \in Int /\ earned[c] \in Int
      BY DEF IInv, TypeOK
    <3> HIDE DEF book, S
    <3>6. /\ Charged(c)' = Charged(c) + Ledger!Charge(book, c)
          /\ Gained(c)' = Gained(c) + Ledger!Gain(book, c)
      BY <1>1, <1>3, <2>3, <3>3, <3>4, <3>5 DEF Charged, Gained
    <3> QED
      BY <3>6 DEF book
  <2> QED
    BY <1>1, <1>2, <1>3, <1>5, <2>2, <2>4 DEF Ledger!Next, Ledger!Auction, Charged, Gained
<1> QED
  BY <1>4, <1>5

(***************************************************************************)
(* Publishing an allocation moves it from what is outstanding to the bill. *)
(***************************************************************************)
LEMMA PublishLedger ==
  ASSUME IInv, IInv', NEW i \in Ingress, Publish(i)
  PROVE  UNCHANGED Ledger!vars
<1>1. /\ pc = "publish" /\ pc' = "publish" /\ i \in unsent /\ unsent' = unsent \ {i}
      /\ bill' = [bill EXCEPT ![Owner[i]] = @ + Amount(i)]
      /\ gain' = [gain EXCEPT ![Owner[i]] = @ + Utility(i)]
      /\ UNCHANGED <<bidMap, todo, batch, spent, earned>>
  BY DEF Publish, NextAllocation, stores
<1>2. batch \in Books /\ DOMAIN batch # {} /\ unsent \subseteq DOMAIN AwardsOf(batch)
  BY <1>1 DEF IInv, TypeOK, Rounds, Auctioning
<1>3. Owner[i] \in Customers /\ Amount(i) \in Int /\ Utility(i) \in Int
  BY <1>1, <1>2, OutcomeType
<1>4. bill \in [Customers -> Nat] /\ gain \in [Customers -> Int]
      /\ spent \in [Customers -> Nat] /\ earned \in [Customers -> Int]
  BY DEF IInv, TypeOK
<1>5. Amounts' = Amounts /\ Utilities' = Utilities
  BY <1>1 DEF Amounts, Utilities, Amount, Utility
<1>6. ASSUME NEW c \in Customers PROVE Charged(c)' = Charged(c) /\ Gained(c)' = Gained(c)
  <2> DEFINE S == Of(c, unsent)
             R == Of(c, unsent')
             x == SumFunctionOnSet(Amounts, R)
             y == SumFunctionOnSet(Utilities, R)
  <2>1. /\ Due(c) = bill[c] + SumFunctionOnSet(Amounts, S)
        /\ DueUtility(c) = gain[c] + SumFunctionOnSet(Utilities, S)
        /\ Due(c)' = bill'[c] + x /\ DueUtility(c)' = gain'[c] + y
    BY <1>1, <1>5 DEF Due, DueUtility, Outstanding, Of
  <2>2. /\ IsFiniteSet(S)
        /\ \A j \in S : /\ Amounts[j] = Amount(j) /\ Amounts[j] \in Int
                        /\ Utilities[j] = Utility(j) /\ Utilities[j] \in Int
    BY <1>2, AwardSums DEF Of
  <2>3. x \in Int /\ y \in Int
    BY <1>1, <1>2, AwardSums, SumInt DEF Of
  <2>4. CASE c # Owner[i]
    <3>1. R = S
      BY <1>1, <2>4 DEF Of
    <3>2. bill'[c] = bill[c] /\ gain'[c] = gain[c]
      BY <1>1, <1>4, <2>4
    <3> QED
      BY <1>1, <2>1, <3>1, <3>2 DEF Charged, Gained
  <2>5. CASE c = Owner[i]
    <3>1. R = S \ {i} /\ i \in S
      BY <1>1, <2>5 DEF Of
    <3>2. /\ SumFunctionOnSet(Amounts, S) = Amount(i) + x
          /\ SumFunctionOnSet(Utilities, S) = Utility(i) + y
      BY <2>2, <3>1, SumRemove
    <3>3. bill'[c] = bill[c] + Amount(i) /\ gain'[c] = gain[c] + Utility(i)
      BY <1>1, <1>4, <2>5
    <3>4. bill[c] \in Int /\ gain[c] \in Int /\ spent[c] \in Int /\ earned[c] \in Int
      BY <1>4
    <3>5. Due(c)' = Due(c) /\ DueUtility(c)' = DueUtility(c)
      BY <1>3, <2>1, <2>3, <3>2, <3>3, <3>4
    <3> QED
      BY <1>1, <3>5 DEF Charged, Gained
  <2> QED
    BY <2>4, <2>5
<1>7. Closing' = Closing
  BY <1>1 DEF Closing, Auctioning, Port
<1> QED
  BY <1>1, <1>6, <1>7, LedgerStutters

LEMMA PublishDoneLedger ==
  ASSUME IInv, IInv', Balanced, PublishDone
  PROVE  UNCHANGED Ledger!vars
<1>1. /\ pc = "publish" /\ pc' = "credits" /\ unsent = {} /\ unbilled' = Winners
      /\ UNCHANGED <<bidMap, todo, bill, gain, spent, earned>>
  BY DEF PublishDone, stores
<1>2. ASSUME NEW c \in Customers PROVE Charged(c)' = Charged(c) /\ Gained(c)' = Gained(c)
  <2>1. bill[c] \in Int /\ gain[c] \in Int
    BY DEF IInv, TypeOK
  <2>2. Outstanding(Amounts, c) = 0 /\ Outstanding(Utilities, c) = 0
    <3>1. {i \in unsent : Owner[i] = c} = {}
      BY <1>1
    <3> QED
      BY <3>1, SumEmpty DEF Outstanding
  <2>3. c \notin Winners => bill[c] = 0
    BY <1>1 DEF Balanced
  <2>4. Due(c) = bill[c] /\ DueUtility(c) = gain[c]
    BY <1>1, <2>1, <2>2 DEF Due, DueUtility
  <2>5. Due(c)' = bill[c] /\ DueUtility(c)' = gain[c]
    BY <1>1, <2>3 DEF Due, DueUtility
  <2> QED
    BY <1>1, <2>4, <2>5 DEF Charged, Gained
<1>3. Closing' = Closing
  BY <1>1 DEF Closing, Auctioning, Port
<1> QED
  BY <1>1, <1>2, <1>3, LedgerStutters

(***************************************************************************)
(* A write to an account takes what was due, and a loop over the customers *)
(* ends when nothing is.                                                   *)
(***************************************************************************)
LEMMA AccountLedger ==
  ASSUME IInv, IInv', Balanced, NEW c \in Customers, Bill(c) \/ Pay(c)
  PROVE  UNCHANGED Ledger!vars
<1>1. /\ spent \in [Customers -> Nat] /\ earned \in [Customers -> Int]
      /\ bill \in [Customers -> Nat] /\ gain \in [Customers -> Int]
  BY DEF IInv, TypeOK
<1>2. UNCHANGED <<bidMap, pc, todo, bill, gain>> /\ pc \in {"credits", "utility"}
  BY DEF Bill, Pay, BillCustomer, PayCustomer
<1>3. ASSUME NEW d \in Customers PROVE Charged(d)' = Charged(d) /\ Gained(d)' = Gained(d)
  <2>1. CASE Bill(c)
    <3>1. /\ pc = "credits" /\ c \in unbilled /\ unbilled' = unbilled \ {c} /\ earned' = earned
          /\ spent' = [spent EXCEPT ![c] = spent[c] + bill[c]]
      BY <2>1 DEF Bill, BillCustomer
    <3>2. /\ Due(d) = IF d \in unbilled THEN bill[d] ELSE 0
          /\ Due(d)' = IF d \in unbilled \ {c} THEN bill[d] ELSE 0
          /\ DueUtility(d)' = DueUtility(d)
      BY <1>2, <3>1 DEF Due, DueUtility
    <3> QED
      BY <1>1, <3>1, <3>2 DEF Charged, Gained
  <2>2. CASE Pay(c)
    <3>1. /\ pc = "utility" /\ c \in unpaid /\ unpaid' = unpaid \ {c} /\ spent' = spent
          /\ earned' = [earned EXCEPT ![c] = earned[c] + gain[c]]
      BY <2>2 DEF Pay, PayCustomer
    <3>2. /\ DueUtility(d) = IF d \in unpaid THEN gain[d] ELSE 0
          /\ DueUtility(d)' = IF d \in unpaid \ {c} THEN gain[d] ELSE 0
          /\ Due(d)' = Due(d)
      BY <1>2, <3>1 DEF Due, DueUtility
    <3> QED
      BY <1>1, <3>1, <3>2 DEF Charged, Gained
  <2> QED
    BY <2>1, <2>2
<1>4. Closing' = Closing
  BY <1>2 DEF Closing, Auctioning, Port
<1> QED
  BY <1>2, <1>3, <1>4, LedgerStutters

LEMMA LoopEndLedger ==
  ASSUME IInv, IInv', Balanced, BillingDone \/ PayingDone \/ StoreHistory
  PROVE  UNCHANGED Ledger!vars
<1>1. UNCHANGED <<bidMap, todo, bill, gain, unbilled, unpaid, spent, earned>>
  BY DEF BillingDone, PayingDone, StoreHistory, rounds, stores
<1>2. /\ \/ pc = "credits" /\ pc' = "utility" /\ unbilled = {}
         \/ pc = "utility" /\ pc' = "history" /\ unpaid = {}
         \/ pc = "history" /\ pc' = "clear"
  BY DEF BillingDone, PayingDone, StoreHistory
<1>3. pc = "credits" => \A c \in Customers : c \notin unpaid => gain[c] = 0
  BY DEF Balanced
<1>4. \A c \in Customers : Due(c)' = Due(c) /\ DueUtility(c)' = DueUtility(c)
  BY <1>1, <1>2, <1>3 DEF Due, DueUtility
<1>5. Closing' = Closing
  BY <1>1, <1>2 DEF Closing, Auctioning, Port
<1> QED
  BY <1>1, <1>4, <1>5, LedgerStutters DEF Charged, Gained

LEMMA ClearLedger == ASSUME IInv, IInv', ClearBids PROVE Ledger!Next
<1>1. /\ pc = "clear" /\ pc' = "start" /\ UNCHANGED <<spent, earned>>
      /\ bidMap' = [bidMap EXCEPT ![Port] = <<>>]
  BY DEF ClearBids, Return, stores
<1>2. Port \in PostPorts
  <2>1. todo \in Seq(PostPorts) /\ todo # <<>>
    BY <1>1 DEF IInv, TypeOK, Rounds, InRound
  <2> QED
    BY <2>1 DEF Port
<1>3. Auctioning /\ ~Auctioning'
  BY <1>1 DEF Auctioning
<1>4. \A c \in Customers : Due(c) = 0 /\ Due(c)' = 0 /\ DueUtility(c) = 0 /\ DueUtility(c)' = 0
  BY <1>1 DEF Due, DueUtility
<1>5. Ledger!Clear(Port)
  BY <1>1, <1>3, <1>4 DEF Ledger!Clear
<1> QED
  BY <1>2, <1>5 DEF Ledger!Next

(***************************************************************************)
(* The rest of the steps do not concern the ledger.                        *)
(***************************************************************************)
LEMMA AsideLedger ==
  ASSUME UNCHANGED <<bidMap, batch, unsent, bill, gain, unbilled, unpaid, spent, earned>>,
         UNCHANGED <<pc, todo>> \/ (~Auctioning /\ ~Auctioning')
  PROVE  UNCHANGED Ledger!vars
<1>1. CASE UNCHANGED <<pc, todo>>
  <2>1. Amounts' = Amounts /\ Utilities' = Utilities
    BY DEF Amounts, Utilities, Amount, Utility
  <2>2. \A c : Due(c)' = Due(c) /\ DueUtility(c)' = DueUtility(c)
    BY <1>1, <2>1 DEF Due, DueUtility, Outstanding
  <2> QED
    BY <1>1, <2>2, LedgerStutters DEF Charged, Gained, Closing, Auctioning, Port
<1>2. CASE ~Auctioning /\ ~Auctioning'
  <2>1. \A c : Due(c)' = 0 /\ Due(c) = 0 /\ DueUtility(c)' = 0 /\ DueUtility(c) = 0
    BY <1>2 DEF Due, DueUtility, Auctioning
  <2> QED
    BY <1>2, <2>1, LedgerStutters DEF Charged, Gained, Closing
<1> QED
  BY <1>1, <1>2

LEMMA StepLedger ==
  ASSUME IInv, IInv', Balanced, faults = 0, faults' = 0, [Next]_vars
  PROVE  Ledger!Next \/ UNCHANGED Ledger!vars
<1>1. ~Failure
  <2>1. Failure => faults' = faults + 1
    BY DEF Failure, ListPartly, ListFails, PublishFails, BillFromZero, PayFromZero, BillingFails,
       PayingFails, HistoryFails, ClearFails, Crash, Fault
  <2> QED
    BY <2>1
<1>2. CASE UNCHANGED vars
  <2>1. UNCHANGED <<bidMap, batch, unsent, bill, gain, unbilled, unpaid, spent, earned, pc, todo>>
    BY <1>2 DEF vars, rounds, stores
  <2> QED
    BY <2>1, AsideLedger
<1>3. CASE Post
  BY <1>3, LedgerPosts DEF Post
<1>4. CASE Elapse \/ Fire \/ TakeTick \/ StartAuction \/ Restart
  <2>1. /\ UNCHANGED <<bidMap, batch, unsent, bill, gain, unbilled, unpaid, spent, earned>>
        /\ UNCHANGED <<pc, todo>> \/ (~Auctioning /\ ~Auctioning')
    BY <1>4 DEF Elapse, Fire, TakeTick, StartAuction, Restart, rounds, stores, Auctioning
  <2> QED
    BY <2>1, AsideLedger
<1>5. CASE Runner
  <2>1. ASSUME TakeTick \/ StartAuction PROVE Ledger!Next \/ UNCHANGED Ledger!vars
    BY <1>4, <2>1
  <2> QED
    BY <1>5, <2>1, ListLedger, PublishLedger, PublishDoneLedger, AccountLedger, LoopEndLedger,
       ClearLedger DEF Runner
<1> QED
  BY <1>1, <1>2, <1>3, <1>4, <1>5 DEF Next

(***************************************************************************)
(* As long as nothing fails, for any ports, customers, bids and outcomes,  *)
(* the runner implements the ledger: every auction settles all accounts at *)
(* once, at the one clearing price, and no book is auctioned twice before  *)
(* it is cleared.                                                          *)
(***************************************************************************)
THEOREM ImplementsLedgerHolds == Spec /\ [](faults = 0) => ImplementsLedger
<1>1. IInv /\ BInv /\ [Next]_vars => BInv'
  BY NextBooks
<1>2. IInv /\ IInv' /\ BInv /\ faults = 0 /\ (faults = 0)' /\ [Next]_vars
        => [Ledger!Next]_Ledger!vars
  <2>1. SUFFICES ASSUME IInv, IInv', BInv, faults = 0, faults' = 0, [Next]_vars
                 PROVE  [Ledger!Next]_Ledger!vars
    OBVIOUS
  <2>2. Balanced
    BY <2>1 DEF BInv
  <2> QED
    BY <2>1, <2>2, StepLedger
<1> QED
  BY <1>1, <1>2, LedgerStarts, InitBooks, Inductive, PTL DEF Spec, ImplementsLedger, Ledger!Spec
=============================================================================
