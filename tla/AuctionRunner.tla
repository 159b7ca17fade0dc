--------------------------- MODULE AuctionRunner ---------------------------
(***************************************************************************)
(* The auction runner (auction/runner/runner.go) against the bids the API  *)
(* keeps storing (api/server.go, api/atomix.go).                           *)
(*                                                                         *)
(* At each tick the runner handles the egress ports one after the other:   *)
(* list the bids, run the auction, hand every allocation to Kafka, bill    *)
(* the credits, add up the utility, store the history record, clear the    *)
(* bid map.  Every store operation is a step of its own, so that bids      *)
(* arrive, time passes, calls fail and the pod restarts in between.        *)
(*                                                                         *)
(* The auction itself is the pair of operators PriceOf and AwardsOf        *)
(* (AuctionOutcome, to which ReservationAuction is proved to conform).     *)
(* The runner is the only writer of credits once the API has initialised   *)
(* them; what happens while it does so is in module Credits.               *)
(***************************************************************************)
EXTENDS Integers, Sequences, FiniteSetsExt, Functions

CONSTANTS
  Customers,
  Ingress,          \* ingress ports of the switch
  Owner,            \* Owner[i] is the customer of ingress port i
  Valuation,        \* valuation_per_unit of each customer
  EgressPorts,      \* the sequence of ports of Switches[0], all auctioned
  PostPorts,        \* the egress ports bids are posted for; the API checks none
  Offers,           \* [units, price] pairs customers post
  PriceOf(_),       \* the outcome of the auction of a book: its clearing price,
  AwardsOf(_),      \*   and the units of each bid that gets an allocation record
  MaxPosts,         \* bound: bids posted
  MaxClock,         \* bound: intervals told apart
  MaxFaults         \* bound: failed calls and crashes

Ids == 1..MaxPosts
StoredBid == {[id |-> k, units |-> o.units, price |-> o.price] : k \in Ids, o \in Offers}
Books == UNION {[S -> StoredBid] : S \in SUBSET Ingress}

ASSUME OfferAssumption == \A o \in Offers : o.units \in Nat \ {0} /\ o.price \in Nat \ {0}
ASSUME IngressAssumption == IsFiniteSet(Ingress)
ASSUME OwnerAssumption == Owner \in [Ingress -> Customers]
ASSUME ValuationAssumption == Valuation \in [Customers -> Nat]
ASSUME PortAssumption == EgressPorts \in Seq(PostPorts)
ASSUME BoundAssumption == MaxPosts \in Nat /\ MaxClock \in Nat /\ MaxFaults \in Nat
ASSUME OutcomeAssumption ==
  \A book \in Books :
    DOMAIN book # {} =>
      /\ PriceOf(book) \in Nat
      /\ \E S \in SUBSET DOMAIN book : AwardsOf(book) \in [S -> Nat]

VARIABLES
  bidMap,    \* the bids-<egressPort> maps: a book for each port
  posted,    \* number of bids accepted so far; a bid's id is its turn
  clock,     \* the interval now() lies in
  fired,     \* the ticker has fired in this interval
  tick,      \* a tick waits in the ticker's one-slot channel
  pc,        \* where the runner is
  todo,      \* egress ports left in this tick
  interval,  \* intervalID of the current runOnce
  batch,     \* the bids it read
  unsent,    \* ingress ports whose allocation is not yet written to Kafka
  bill,      \* spendByCustomer
  gain,      \* utilityByCustomer
  unbilled,  \* customers left in the loop over spendByCustomer
  unpaid,    \* customers left in the loop over utilityByCustomer
  spent,     \* total_spent in credits-map
  earned,    \* utility-map
  history,   \* auction-history: records with key (interval, port)
  faults,    \* failures so far
  value,     \* history: for each customer, price times units of the results written
  won,       \* history: units of the results written without error
  charges,   \* history: for each bid, how many auctions billed it
  dropped    \* history: bids cleared without having been auctioned

stores  == <<spent, earned, history>>
rounds  == <<interval, batch, unsent, bill, gain, unbilled, unpaid>>
ghosts  == <<value, won, charges, dropped>>
timing  == <<clock, fired, tick>>
vars == <<bidMap, posted, timing, pc, todo, rounds, stores, faults, ghosts>>

Port == todo[1]
Zero == [c \in Customers |-> 0]
Winners == {Owner[i] : i \in DOMAIN AwardsOf(batch)}
IdsOf(book) == {book[i].id : i \in DOMAIN book}

Init ==
  /\ bidMap = [p \in PostPorts |-> <<>>]
  /\ posted = 0
  /\ clock = 0 /\ fired = FALSE /\ tick = FALSE
  /\ pc = "idle" /\ todo = <<>> /\ interval = 0
  /\ batch = <<>> /\ unsent = {}
  /\ bill = Zero /\ gain = Zero /\ unbilled = {} /\ unpaid = {}
  /\ spent = Zero /\ earned = Zero /\ history = {}
  /\ faults = 0
  /\ value = Zero /\ won = Zero /\ charges = [k \in Ids |-> 0]
  /\ dropped = {}

-----------------------------------------------------------------------------
(***************************************************************************)
(* POST /bids by the owner of the ingress port: last write wins, under the *)
(* key the ingress port, in the map of the egress port, which is one the   *)
(* runner lists only if the scenario has it.                               *)
(***************************************************************************)
PostBid(port, ingress, offer) ==
  /\ posted < MaxPosts
  /\ posted' = posted + 1
  /\ bidMap' = [bidMap EXCEPT ![port] =
       [i \in DOMAIN @ \cup {ingress} |->
          IF i = ingress
          THEN [id |-> posted', units |-> offer.units, price |-> offer.price]
          ELSE @[i]]]
  /\ UNCHANGED <<timing, pc, todo, rounds, stores, faults, ghosts>>

(***************************************************************************)
(* Time.  The ticker fires once in every interval, at a fixed offset, and  *)
(* a tick is dropped while an earlier one waits.  Beyond MaxClock time     *)
(* goes on but the intervals are no longer told apart.                     *)
(***************************************************************************)
Elapse ==
  /\ fired
  /\ fired' = FALSE
  /\ clock' = IF clock < MaxClock THEN clock + 1 ELSE clock
  /\ UNCHANGED <<bidMap, posted, tick, pc, todo, rounds, stores, faults, ghosts>>

Fire ==
  /\ ~fired
  /\ fired' = TRUE
  /\ tick' = (pc # "down")
  /\ UNCHANGED <<bidMap, posted, clock, pc, todo, rounds, stores, faults, ghosts>>

-----------------------------------------------------------------------------
(***************************************************************************)
(* The loop of Run, and the start of runOnce: the interval ID is computed  *)
(* here, from the clock and not from the tick.                             *)
(***************************************************************************)
MutantSkipsFirst ==  \* an off-by-one in the loop over the ports
  /\ pc = "idle"
  /\ tick
  /\ tick' = FALSE
  /\ todo' = Tail(EgressPorts)
  /\ pc' = "start"
  /\ UNCHANGED <<bidMap, posted, clock, fired, rounds, stores, faults, ghosts>>

TakeTick ==
  /\ pc = "idle"
  /\ tick
  /\ tick' = FALSE
  /\ todo' = EgressPorts
  /\ pc' = "start"
  /\ UNCHANGED <<bidMap, posted, clock, fired, rounds, stores, faults, ghosts>>

StartAuction ==
  /\ pc = "start"
  /\ IF todo = <<>>
     THEN pc' = "idle" /\ UNCHANGED interval
     ELSE pc' = "list" /\ interval' = clock
  /\ UNCHANGED <<bidMap, posted, timing, todo, batch, unsent, bill, gain, unbilled, unpaid,
                 stores, faults, ghosts>>

(***************************************************************************)
(* runOnce returns, and its locals go out of scope: on to the next port.   *)
(***************************************************************************)
DropLocals ==
  /\ interval' = 0 /\ batch' = <<>> /\ unsent' = {}
  /\ bill' = Zero /\ gain' = Zero /\ unbilled' = {} /\ unpaid' = {}

Return ==
  /\ pc' = "start"
  /\ todo' = Tail(todo)
  /\ DropLocals

Fault == faults < MaxFaults /\ faults' = faults + 1

(***************************************************************************)
(* List, and the iteration over the entries.  An error of Next other than  *)
(* EOF ends the loop and the auction goes on with the bids read so far.    *)
(***************************************************************************)
Read(book) ==
  /\ pc = "list"
  /\ IF DOMAIN book = {}
     THEN Return
     ELSE /\ pc' = "publish"
          /\ batch' = book
          /\ unsent' = DOMAIN AwardsOf(book)
          /\ UNCHANGED <<todo, interval, bill, gain, unbilled, unpaid>>
  /\ UNCHANGED <<bidMap, posted, timing, stores, ghosts>>

ListBids == Read(bidMap[Port]) /\ UNCHANGED faults

ListPartly ==
  /\ Fault
  /\ pc = "list"
  /\ \E S \in (SUBSET DOMAIN bidMap[Port]) \ {DOMAIN bidMap[Port]} :
       Read([i \in S |-> bidMap[Port][i]])

ListFails ==
  /\ Fault
  /\ pc = "list"
  /\ Return
  /\ UNCHANGED <<bidMap, posted, timing, stores, ghosts>>

(***************************************************************************)
(* Allocations are published in the order of the auction, by price; the    *)
(* grouping by customer of updateCredits and updateUtility, which is local *)
(* to the runner, is done along the way.                                   *)
(***************************************************************************)
NextAllocation(i) == i \in unsent /\ \A j \in unsent : batch[j].price <= batch[i].price
MutantPayAsBid(i) == AwardsOf(batch)[i] * batch[i].price
Amount(i) == AwardsOf(batch)[i] * PriceOf(batch)
MutantSurplusOverBid(i) == (Valuation[Owner[i]] - batch[i].price) * AwardsOf(batch)[i]
Utility(i) == (Valuation[Owner[i]] - PriceOf(batch)) * AwardsOf(batch)[i]

Publish(i) ==
  /\ pc = "publish"
  /\ NextAllocation(i)
  /\ unsent' = unsent \ {i}
  /\ bill' = [bill EXCEPT ![Owner[i]] = @ + Amount(i)]
  /\ gain' = [gain EXCEPT ![Owner[i]] = @ + Utility(i)]
  /\ value' = [value EXCEPT ![Owner[i]] = @ + Amount(i)]
  /\ won' = [won EXCEPT ![Owner[i]] = @ + AwardsOf(batch)[i]]
  /\ UNCHANGED <<bidMap, posted, timing, pc, todo, interval, batch, unbilled, unpaid,
                 stores, faults, charges, dropped>>

(***************************************************************************)
(* WriteMessages returns an error, the message being delivered or not: the *)
(* auction is abandoned, its bids neither billed nor cleared.              *)
(***************************************************************************)
MutantPublishGoesOn(i) ==  \* logs the error and does not return
  /\ Fault
  /\ pc = "publish"
  /\ NextAllocation(i)
  /\ unsent' = unsent \ {i}
  /\ bill' = [bill EXCEPT ![Owner[i]] = @ + Amount(i)]
  /\ UNCHANGED <<bidMap, posted, timing, pc, todo, interval, batch, gain, unbilled, unpaid,
                 stores, ghosts>>

PublishFails(i) ==
  /\ Fault
  /\ pc = "publish"
  /\ NextAllocation(i)
  /\ \E delivered \in BOOLEAN :
       value' = [value EXCEPT ![Owner[i]] = IF delivered THEN @ + Amount(i) ELSE @]
  /\ Return
  /\ UNCHANGED <<bidMap, posted, timing, stores, won, charges, dropped>>

PublishDone ==
  /\ pc = "publish"
  /\ unsent = {}
  /\ pc' = "credits"
  /\ unbilled' = Winners
  /\ unpaid' = Winners
  /\ charges' = [k \in Ids |-> charges[k] + (IF k \in IdsOf(batch) THEN 1 ELSE 0)]
  /\ UNCHANGED <<bidMap, posted, timing, todo, interval, batch, unsent, bill, gain,
                 stores, faults, value, won, dropped>>

(***************************************************************************)
(* updateCredits: a Get and a Put for each customer, in any order (a Go    *)
(* map).  Any error of Get is taken for a missing entry.                   *)
(***************************************************************************)
MutantRefund(c, total) ==
  /\ pc = "credits"
  /\ c \in unbilled
  /\ unbilled' = unbilled \ {c}
  /\ spent' = [spent EXCEPT ![c] = total - bill[c]]
  /\ UNCHANGED <<bidMap, posted, timing, pc, todo, interval, batch, unsent, bill, gain, unpaid,
                 earned, history, ghosts>>

BillCustomer(c, total) ==
  /\ pc = "credits"
  /\ c \in unbilled
  /\ unbilled' = unbilled \ {c}
  /\ spent' = [spent EXCEPT ![c] = total + bill[c]]
  /\ UNCHANGED <<bidMap, posted, timing, pc, todo, interval, batch, unsent, bill, gain, unpaid,
                 earned, history, ghosts>>

Bill(c)         == BillCustomer(c, spent[c]) /\ UNCHANGED faults
BillFromZero(c) == Fault /\ BillCustomer(c, 0)

BillingDone ==
  /\ pc = "credits"
  /\ unbilled = {}
  /\ pc' = "utility"
  /\ UNCHANGED <<bidMap, posted, timing, todo, rounds, stores, faults, ghosts>>

(***************************************************************************)
(* The credits map cannot be opened, or a Put fails: the error is logged   *)
(* and the remaining customers are not billed.                             *)
(***************************************************************************)
BillingFails ==
  /\ Fault
  /\ pc = "credits"
  /\ unbilled # {}
  /\ pc' = "utility"
  /\ UNCHANGED <<bidMap, posted, timing, todo, rounds, stores, ghosts>>

(***************************************************************************)
(* updateUtility, in the same way.                                         *)
(***************************************************************************)
PayCustomer(c, total) ==
  /\ pc = "utility"
  /\ c \in unpaid
  /\ unpaid' = unpaid \ {c}
  /\ earned' = [earned EXCEPT ![c] = total + gain[c]]
  /\ UNCHANGED <<bidMap, posted, timing, pc, todo, interval, batch, unsent, bill, gain, unbilled,
                 spent, history, ghosts>>

Pay(c)         == PayCustomer(c, earned[c]) /\ UNCHANGED faults
PayFromZero(c) == Fault /\ PayCustomer(c, 0)

PayingDone ==
  /\ pc = "utility"
  /\ unpaid = {}
  /\ pc' = "history"
  /\ UNCHANGED <<bidMap, posted, timing, todo, rounds, stores, faults, ghosts>>

PayingFails ==
  /\ Fault
  /\ pc = "utility"
  /\ unpaid # {}
  /\ pc' = "history"
  /\ UNCHANGED <<bidMap, posted, timing, todo, rounds, stores, ghosts>>

(***************************************************************************)
(* storeAuctionHistory: a Put, which replaces a record of the same         *)
(* interval and port.  Allocations of zero units are left out.             *)
(***************************************************************************)
MutantRecordAsked ==  \* records what was asked for
  [interval |-> interval, port |-> Port, price |-> PriceOf(batch),
   allocations |-> {[customer |-> Owner[i], ingress |-> i, units |-> batch[i].units] :
                      i \in DOMAIN AwardsOf(batch)}]

Record ==
  [interval |-> interval, port |-> Port, price |-> PriceOf(batch),
   allocations |-> {[customer |-> Owner[i], ingress |-> i, units |-> AwardsOf(batch)[i]] :
                      i \in {j \in DOMAIN AwardsOf(batch) : AwardsOf(batch)[j] > 0}}]

SameKey(r, s) == r.interval = s.interval /\ r.port = s.port

StoreHistory ==
  /\ pc = "history"
  /\ history' = {r \in history : ~SameKey(r, Record)} \cup {Record}
  /\ pc' = "clear"
  /\ UNCHANGED <<bidMap, posted, timing, todo, rounds, spent, earned, faults,
                 value, won, charges, dropped>>

HistoryFails ==
  /\ Fault
  /\ pc = "history"
  /\ pc' = "clear"
  /\ UNCHANGED <<bidMap, posted, timing, todo, rounds, stores, ghosts>>

(***************************************************************************)
(* Clear empties the map, whatever it holds by now.                        *)
(***************************************************************************)
MutantNoClear ==
  /\ pc = "clear"
  /\ Return
  /\ UNCHANGED <<bidMap, posted, timing, stores, faults, ghosts>>

ClearBids ==
  /\ pc = "clear"
  /\ bidMap' = [bidMap EXCEPT ![Port] = <<>>]
  /\ dropped' = dropped \cup (IdsOf(bidMap[Port]) \ IdsOf(batch))
  /\ Return
  /\ UNCHANGED <<posted, timing, stores, faults, value, won, charges>>

ClearFails ==
  /\ Fault
  /\ pc = "clear"
  /\ Return
  /\ UNCHANGED <<bidMap, posted, timing, stores, ghosts>>

(***************************************************************************)
(* The pod dies (a restart, or the panic of List on the nil map left by a  *)
(* failed Get) and comes back with a new ticker, whose first tick is one   *)
(* interval away.                                                          *)
(***************************************************************************)
Crash ==
  /\ Fault
  /\ pc # "down"
  /\ pc' = "down"
  /\ tick' = FALSE
  /\ todo' = <<>>
  /\ DropLocals
  /\ UNCHANGED <<bidMap, posted, clock, fired, stores, ghosts>>

Restart ==
  /\ pc = "down"
  /\ pc' = "idle"
  /\ fired' = TRUE
  /\ UNCHANGED <<bidMap, posted, clock, tick, todo, rounds, stores, faults, ghosts>>

-----------------------------------------------------------------------------
Runner ==
  \/ TakeTick \/ StartAuction \/ ListBids
  \/ \E i \in Ingress : Publish(i)
  \/ PublishDone
  \/ \E c \in Customers : Bill(c) \/ Pay(c)
  \/ BillingDone \/ PayingDone \/ StoreHistory \/ ClearBids

Failure ==
  \/ ListPartly \/ ListFails
  \/ \E i \in Ingress : PublishFails(i)
  \/ \E c \in Customers : BillFromZero(c) \/ PayFromZero(c)
  \/ BillingFails \/ PayingFails \/ HistoryFails \/ ClearFails \/ Crash

Post == \E port \in PostPorts, ingress \in Ingress, offer \in Offers : PostBid(port, ingress, offer)

Next == Post \/ Elapse \/ Fire \/ Runner \/ Failure \/ Restart

Spec == Init /\ [][Next]_vars

(***************************************************************************)
(* Time passes, the ticker fires, the runner's loop and its calls go on,   *)
(* and a dead pod is restarted; nobody need post a bid, or fail.           *)
(***************************************************************************)
FairSpec == Spec /\ WF_vars(Elapse) /\ WF_vars(Fire) /\ WF_vars(Runner) /\ WF_vars(Restart)

-----------------------------------------------------------------------------
(***************************************************************************)
(* Type invariant.                                                         *)
(***************************************************************************)
HistoryRecord ==
  [interval : 0..MaxClock, port : PostPorts, price : Nat,
   allocations : SUBSET [customer : Customers, ingress : Ingress, units : Nat]]

TypeOK ==
  /\ bidMap \in [PostPorts -> Books]
  /\ posted \in 0..MaxPosts
  /\ clock \in 0..MaxClock /\ interval \in 0..MaxClock
  /\ fired \in BOOLEAN /\ tick \in BOOLEAN
  /\ pc \in {"idle", "start", "list", "publish", "credits", "utility", "history", "clear", "down"}
  /\ todo \in Seq(PostPorts)
  /\ batch \in Books /\ unsent \subseteq DOMAIN batch
  /\ bill \in [Customers -> Nat] /\ gain \in [Customers -> Int]
  /\ unbilled \subseteq Customers /\ unpaid \subseteq Customers
  /\ spent \in [Customers -> Nat] /\ earned \in [Customers -> Int]
  /\ history \subseteq HistoryRecord
  /\ faults \in 0..MaxFaults
  /\ value \in [Customers -> Nat] /\ won \in [Customers -> Nat]
  /\ charges \in [Ids -> Nat] /\ dropped \subseteq Ids

(***************************************************************************)
(* However calls fail and whenever the runner dies, nobody is charged more *)
(* than the price of the results handed to Kafka for their ports: results  *)
(* go out before the bill, an auction whose publication fails is not       *)
(* billed, and no round is billed twice.                                   *)
(***************************************************************************)
NeverOvercharged == \A c \in Customers : spent[c] <= value[c]

(***************************************************************************)
(* Without failures every bid has one fate at most: it is billed in one    *)
(* auction, or it is cleared without having been in any.                   *)
(***************************************************************************)
OneFate ==
  \A k \in Ids : charges[k] + (IF k \in dropped THEN 1 ELSE 0) <= 1

(***************************************************************************)
(* Each auction a bid is in after its first one is due to a failure of its *)
(* own: a Clear that failed, or a crash before it.                         *)
(***************************************************************************)
RepeatsNeedFailures == \A k \in Ids : charges[k] <= 1 + faults

(***************************************************************************)
(* Without failures the two accounts agree whenever the runner is between  *)
(* two auctions: what a customer spent and what it gained add up to its    *)
(* valuation of the units it won.                                          *)
(***************************************************************************)
BooksBalance ==
  pc \in {"idle", "start", "list", "clear"} =>
    \A c \in Customers : spent[c] + earned[c] = Valuation[c] * won[c]

(***************************************************************************)
(* Without failures the history never shows a customer more than the       *)
(* credits have been charged for: a record is written after the bill, and  *)
(* one that replaces another stands for no more than both auctions.        *)
(***************************************************************************)
InRecord(r, c) ==
  SumFunctionOnSet([a \in r.allocations |-> IF a.customer = c THEN a.units * r.price ELSE 0],
                   r.allocations)
HistoryAmount(c) == SumFunctionOnSet([r \in history |-> InRecord(r, c)], history)

HistoryBacked == \A c \in Customers : HistoryAmount(c) <= spent[c]

(***************************************************************************)
(* "Consumed at next auction interval" (README.md, POST /bids): a bid that *)
(* leaves the map has been in an auction, or was replaced by its customer. *)
(***************************************************************************)
NoBidDropped == dropped = {}

Stored(k, p) == \E i \in DOMAIN bidMap[p] : bidMap[p][i].id = k
Auctioned == {EgressPorts[n] : n \in DOMAIN EgressPorts}

(***************************************************************************)
(* A bid for a port of the scenario (the API takes bids for any port, and  *)
(* no auction lists the others) does not stay in the map for ever,         *)
(* failures and restarts included, as long as those end.                   *)
(***************************************************************************)
BidsLeave == \A k \in Ids, p \in Auctioned : Stored(k, p) ~> ~Stored(k, p)

(***************************************************************************)
(* Without failures the runner implements AuctionLedger, in which an       *)
(* auction settles all its accounts at once: the step that lists the bids  *)
(* is the one that settles, and what is not yet billed is still due.       *)
(***************************************************************************)
Amounts == [i \in DOMAIN AwardsOf(batch) |-> Amount(i)]
Utilities == [i \in DOMAIN AwardsOf(batch) |-> Utility(i)]
Outstanding(amounts, c) == SumFunctionOnSet(amounts, {i \in unsent : Owner[i] = c})

Due(c) ==
  CASE pc = "publish"                   -> bill[c] + Outstanding(Amounts, c)
    [] pc = "credits" /\ c \in unbilled -> bill[c]
    [] OTHER                            -> 0

DueUtility(c) ==
  CASE pc = "publish"                   -> gain[c] + Outstanding(Utilities, c)
    [] pc = "credits"                   -> gain[c]
    [] pc = "utility" /\ c \in unpaid   -> gain[c]
    [] OTHER                            -> 0

Auctioning == pc \in {"publish", "credits", "utility", "history", "clear"}

Ledger == INSTANCE AuctionLedger WITH
  Ports   <- PostPorts,
  Bids    <- StoredBid,
  book    <- bidMap,
  closing <- IF Auctioning THEN {Port} ELSE {},
  spent   <- [c \in Customers |-> spent[c] + Due(c)],
  earned  <- [c \in Customers |-> earned[c] + DueUtility(c)]

ImplementsLedger == Ledger!Spec
=============================================================================
