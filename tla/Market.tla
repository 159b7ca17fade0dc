------------------------------- MODULE Market -------------------------------
(***************************************************************************)
(* The bidding agents (agent/main.go) in the market they make: each reads  *)
(* its credits, then for each of its flows the metrics and the last        *)
(* auction, and posts the bid of its strategy, while auctions go on at     *)
(* their own pace and set the prices and credits that are read next.       *)
(*                                                                         *)
(* A customer has one ingress port, and a flow for each egress port.  An   *)
(* auction is one step: how the runner carries it out is in AuctionRunner, *)
(* whose AuctionLedger it is.                                              *)
(***************************************************************************)
EXTENDS Strategies

CONSTANTS
  Customers,
  Valuation,         \* valuation_per_unit of each customer
  Balance,           \* starting_balance of each customer, 0 for none
  Populations,       \* the assignments of strategies considered
  EgressPorts,       \* the sequence of egress ports
  Capacity,
  Traffic,           \* what telemetry may show of a flow: [rx, drop], with rx the
                     \*   ingress rate, which the drops are part of
  Tried,           \* the actions of q_learning considered
  MaxAuctions,       \* bound: auctions
  MaxRuns,           \* bound: runs of each agent's loop
  MaxFaults          \* bound: failed calls and restarts of agents

ASSUME CustomerAssumption ==
  /\ IsFiniteSet(Customers)
  /\ Valuation \in [Customers -> Nat \ {0}]
  /\ Balance \in [Customers -> Nat]
  /\ Populations \subseteq [Customers -> StrategyNames]
ASSUME PortAssumption == EgressPorts \in Seq(Flows) /\ Flows \subseteq Nat
ASSUME SupplyAssumption == Capacity \in Nat \ {0}
ASSUME TrafficAssumption == \A t \in Traffic : t.rx \in Nat /\ t.drop \in 0..t.rx
ASSUME ChoiceAssumption == Tried \subseteq Actions /\ Tried # {}
ASSUME BoundAssumption == MaxAuctions \in Nat /\ MaxRuns \in Nat /\ MaxFaults \in Nat

VARIABLES
  strategy,   \* the strategy of each customer
  books,      \* the bids for each egress port: [units, price] for each customer
  history,    \* auction-history
  auctions,   \* number of auctions so far
  spent,      \* total_spent of each customer
  agent,      \* where each agent is: [pc, todo, credits, bid]
  memory,     \* what its strategy remembers
  runs,       \* how often it has run
  faults,
  gained,     \* history: the utility of each customer in the last auction
  led,        \* history: the highest price bid by a strategy that sets prices
  learned     \* history: for each customer, the last update of its table: the reward
              \*   counted, and the utility of the auction last read by then

vars == <<strategy, books, history, auctions, spent, agent, memory, runs, faults,
          gained, led, learned>>

Outcome == INSTANCE AuctionOutcome

NoCredits == [balance |-> 0, spent |-> 0]
Asleep == [pc |-> "idle", todo |-> <<>>, credits |-> NoCredits, bid |-> <<>>]
NothingLearned == [reward |-> 0, earned |-> 0]

Init ==
  /\ strategy \in Populations
  /\ books = [p \in Flows |-> <<>>]
  /\ history = {}
  /\ auctions = 0
  /\ spent = [c \in Customers |-> 0]
  /\ agent = [c \in Customers |-> Asleep]
  /\ memory = [c \in Customers |-> NoMemory]
  /\ runs = [c \in Customers |-> 0]
  /\ faults = 0
  /\ gained = [c \in Customers |-> 0]
  /\ led = 0
  /\ learned = [c \in Customers |-> NothingLearned]

Fault == faults < MaxFaults /\ faults' = faults + 1

-----------------------------------------------------------------------------
(***************************************************************************)
(* runOnce of the agent, with fetchCredits.  On an error it goes on with   *)
(* zero credits, and so does the API when its store fails.                 *)
(***************************************************************************)
Wake(c, credits) ==
  /\ agent[c].pc = "idle"
  /\ runs[c] < MaxRuns
  /\ runs' = [runs EXCEPT ![c] = @ + 1]
  /\ agent' = [agent EXCEPT ![c] =
       [pc |-> "flow", todo |-> EgressPorts, credits |-> credits, bid |-> <<>>]]
  /\ UNCHANGED <<strategy, books, history, auctions, spent, memory, gained, led, learned>>

FetchCredits(c)      == Wake(c, [balance |-> Balance[c], spent |-> spent[c]]) /\ UNCHANGED faults
FetchCreditsFails(c) == Fault /\ Wake(c, NoCredits)

(***************************************************************************)
(* The flow has no telemetry yet (404), or its metrics cannot be fetched.  *)
(***************************************************************************)
HasFlow(c) == agent[c].pc = "flow" /\ agent[c].todo # <<>>
Flow(c) == Head(agent[c].todo)
NextFlow(c) ==
  agent' = [agent EXCEPT ![c] =
    [pc |-> "flow", todo |-> Tail(@.todo), credits |-> @.credits, bid |-> <<>>]]

NoMetrics(c) ==
  /\ HasFlow(c)
  /\ NextFlow(c)
  /\ UNCHANGED <<strategy, books, history, auctions, spent, memory, runs, faults,
                 gained, led, learned>>

(***************************************************************************)
(* GET /auctions?egress_port=p, where p = 0 means all of them; the agent   *)
(* takes the last record of the answer, which nothing puts in an order.    *)
(***************************************************************************)
Own(c, r) == IF c \in DOMAIN r.units THEN r.units[c] ELSE 0

NoResult == [last |-> 0, won |-> 0]
Results(c, p) ==
  LET records == {r \in history : p = 0 \/ r.port = p}
  IN  IF records = {} THEN {NoResult}
      ELSE {[last |-> r.price, won |-> Own(c, r)] : r \in records}

(***************************************************************************)
(* placeBidForFlow up to ComputeBid.                                       *)
(***************************************************************************)
Context(c, traffic, result) ==
  [flow |-> Flow(c), rx |-> traffic.rx, drop |-> traffic.drop,
   balance |-> agent[c].credits.balance, spent |-> agent[c].credits.spent,
   last |-> result.last, won |-> result.won, valuation |-> Valuation[c]]

Learn(c, ctx) ==
  learned' =
    IF strategy[c] = "q_learning" /\ ~Silent(ctx) /\ memory[c].turn[ctx.flow] # NoTurn
    THEN [learned EXCEPT ![c] =
           [reward |-> Update(memory[c].turn[ctx.flow]).reward,
            earned |-> (Valuation[c] - ctx.last) * ctx.won]]
    ELSE learned

Decide(c, traffic, result, action) ==
  /\ LET ctx    == Context(c, traffic, result)
         answer == ComputeBid(strategy[c], ctx, memory[c], action)
     IN  /\ memory' = [memory EXCEPT ![c] = answer.memory]
         /\ Learn(c, ctx)
         /\ IF answer.skip
            THEN NextFlow(c)
            ELSE agent' = [agent EXCEPT ![c].pc = "post",
                             ![c].bid = [units |-> answer.units, price |-> answer.price]]
  /\ UNCHANGED <<strategy, books, history, auctions, spent, runs, gained, led>>

MayChoose(c) == IF strategy[c] = "q_learning" THEN Tried ELSE {1}

PlaceBid(c, traffic, action) ==
  /\ HasFlow(c)
  /\ \E result \in Results(c, Flow(c)) : Decide(c, traffic, result, action)
  /\ UNCHANGED faults

FetchResultFails(c, traffic, action) ==
  /\ Fault
  /\ HasFlow(c)
  /\ Decide(c, traffic, NoResult, action)

(***************************************************************************)
(* POST /bids: the last bid of a flow is the one that counts.  Whether the *)
(* answer arrives makes no difference to the agent.                        *)
(***************************************************************************)
Followers == {"conservative", "demand_corrected"}

PostBid(c) ==
  /\ agent[c].pc = "post"
  /\ books' = [books EXCEPT ![Flow(c)] =
       [d \in DOMAIN @ \cup {c} |-> IF d = c THEN agent[c].bid ELSE @[d]]]
  /\ led' = IF strategy[c] \in Followers THEN led ELSE Larger(led, agent[c].bid.price)
  /\ NextFlow(c)
  /\ UNCHANGED <<strategy, history, auctions, spent, memory, runs, faults, gained, learned>>

PostBidFails(c) ==
  /\ Fault
  /\ agent[c].pc = "post"
  /\ NextFlow(c)
  /\ UNCHANGED <<strategy, books, history, auctions, spent, memory, runs, gained, led, learned>>

Sleep(c) ==
  /\ agent[c].pc = "flow"
  /\ agent[c].todo = <<>>
  /\ agent' = [agent EXCEPT ![c] = Asleep]
  /\ UNCHANGED <<strategy, books, history, auctions, spent, memory, runs, faults,
                 gained, led, learned>>

(***************************************************************************)
(* The agent's pod restarts: its strategy forgets everything.              *)
(***************************************************************************)
Restart(c) ==
  /\ Fault
  /\ agent' = [agent EXCEPT ![c] = Asleep]
  /\ memory' = [memory EXCEPT ![c] = NoMemory]
  /\ UNCHANGED <<strategy, books, history, auctions, spent, runs, gained, led, learned>>

-----------------------------------------------------------------------------
(***************************************************************************)
(* An auction of the bids for an egress port, and its accounts.            *)
(***************************************************************************)
Price(book) == Outcome!ClearingPrice(book, Capacity, ReservationPrice)
Won(book, c) ==
  IF c \in Outcome!Allocated(book, Capacity, ReservationPrice)
  THEN Outcome!Award(book, Capacity, ReservationPrice, c) ELSE 0
Utility(book, c) == (Valuation[c] - Price(book)) * Won(book, c)

Auction(p) ==
  LET book == books[p]
  IN  /\ DOMAIN book # {}
      /\ auctions < MaxAuctions
      /\ auctions' = auctions + 1
      /\ spent' = [c \in Customers |-> spent[c] + Price(book) * Won(book, c)]
      /\ gained' = [c \in Customers |-> Utility(book, c)]
      /\ history' = history \cup
           {[interval |-> auctions', port |-> p, price |-> Price(book),
             units |-> [c \in {d \in Customers : Won(book, d) > 0} |-> Won(book, c)]]}
      /\ books' = [books EXCEPT ![p] = <<>>]
      /\ UNCHANGED <<strategy, agent, memory, runs, faults, led, learned>>

-----------------------------------------------------------------------------
Act(c) ==
  \/ FetchCredits(c) \/ FetchCreditsFails(c)
  \/ NoMetrics(c)
  \/ \E t \in Traffic, a \in MayChoose(c) : PlaceBid(c, t, a) \/ FetchResultFails(c, t, a)
  \/ PostBid(c) \/ PostBidFails(c)
  \/ Sleep(c)
  \/ Restart(c)

Next == (\E c \in Customers : Act(c)) \/ (\E p \in Flows : Auction(p))

Spec == Init /\ [][Next]_vars

-----------------------------------------------------------------------------
(***************************************************************************)
(* Type invariant.  What an agent posts is what validateBid of the API     *)
(* accepts, and no price is below the reservation price.                   *)
(***************************************************************************)
Bids == [units : Nat \ {0}, price : Nat \ (0..(ReservationPrice - 1))]

TypeOK ==
  /\ strategy \in Populations
  /\ \A p \in Flows : DOMAIN books[p] \subseteq Customers /\ \A c \in DOMAIN books[p] : books[p][c] \in Bids
  /\ \A r \in history : r.interval \in 1..auctions /\ r.port \in Flows
                        /\ r.price >= ReservationPrice /\ DOMAIN r.units \subseteq Customers
  /\ spent \in [Customers -> Nat]
  /\ \A c \in Customers :
       /\ agent[c].pc \in {"idle", "flow", "post"}
       /\ agent[c].pc = "post" => agent[c].bid \in Bids
       /\ runs[c] \in 0..MaxRuns
  /\ auctions \in 0..MaxAuctions /\ faults \in 0..MaxFaults

(***************************************************************************)
(* conservative and demand_corrected take their price from the last        *)
(* auction: whatever they read, and however often they and the auctions    *)
(* run, the price never goes above the reservation price or the highest    *)
(* price one of the other strategies has bid.                              *)
(***************************************************************************)
FollowersNeverLead ==
  /\ \A r \in history : r.price <= Larger(led, ReservationPrice)
  /\ \A c \in Customers : strategy[c] \in Followers /\ agent[c].pc = "post"
       => agent[c].bid.price <= Larger(led, ReservationPrice)

(***************************************************************************)
(* "earns positive utility" (README.md, valuation_based): an agent that    *)
(* bids its valuation never loses by an auction, whatever the others bid,  *)
(* if its valuation is no less than the reservation price.                 *)
(***************************************************************************)
NeverAtALoss ==
  \A c \in Customers :
    strategy[c] = "valuation_based" /\ Valuation[c] >= ReservationPrice => gained[c] >= 0

(***************************************************************************)
(* "There is no benefit to bidding above" (valuation_based.go): raising    *)
(* the price of its bid never gains such an agent anything.                *)
(***************************************************************************)
Truthful(c) == strategy[c] = "valuation_based" /\ Valuation[c] >= ReservationPrice
Repriced(book, c, price) == [book EXCEPT ![c].price = price]
Ceiling == 2 + ReservationPrice + Max({Valuation[c] : c \in Customers})

NoGainAbove ==
  \A p \in Flows : \A c \in DOMAIN books[p], price \in ReservationPrice..Ceiling :
    Truthful(c) /\ price > books[p][c].price
      => Utility(Repriced(books[p], c, price), c) <= Utility(books[p], c)

(***************************************************************************)
(* "There is no benefit to bidding above or below valuation"               *)
(* (valuation_based.go): no other price would gain it more.                *)
(***************************************************************************)
NoGainElsewhere ==
  \A p \in Flows : \A c \in DOMAIN books[p], price \in ReservationPrice..Ceiling :
    Truthful(c) => Utility(Repriced(books[p], c, price), c) <= Utility(books[p], c)

(***************************************************************************)
(* budget_aware and throughput_optimizer, with the same memory and the     *)
(* same readings: an agent with a budget that has spent one credit more,   *)
(* up to twice what it had, never bids more.                               *)
(***************************************************************************)
SpendingLowersBids ==
  \A c \in {d \in Customers : Balance[d] > 0} :
   strategy[c] \in {"budget_aware", "throughput_optimizer"} =>
    \A t \in Traffic, r \in UNION {Results(c, p) : p \in Flows}, n \in 0..2 * Balance[c] :
      LET ctx(s) == [flow |-> EgressPorts[1], rx |-> t.rx, drop |-> t.drop,
                     balance |-> Balance[c], spent |-> s, last |-> r.last, won |-> r.won,
                     valuation |-> Valuation[c]]
          answer(s) == ComputeBid(strategy[c], ctx(s), memory[c], 1)
      IN  ~Silent(ctx(n)) => answer(n + 1).price <= answer(n).price

(***************************************************************************)
(* "reward is utility earned in the previous round" (qlearning.go): what   *)
(* an action is credited with is the outcome of the auction after it.      *)
(***************************************************************************)
RewardIsPreviousRound == \A c \in Customers : learned[c].reward = learned[c].earned
=============================================================================
