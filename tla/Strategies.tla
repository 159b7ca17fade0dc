----------------------------- MODULE Strategies -----------------------------
(***************************************************************************)
(* The bidding strategies of the customer agents (agent/strategy): what    *)
(* ComputeBid returns for one flow, and what it remembers for the next     *)
(* call.  A context is what the agent read before the call:                *)
(*   [flow, rx, drop, balance, spent, last, won, valuation],               *)
(* the flow, its traffic and its drops in kbps, the two numbers of the     *)
(* credits, and the clearing price and own units of the last auction.      *)
(*                                                                         *)
(* Kbps are whole numbers, and a quotient is rounded once, where the code  *)
(* converts it to an integer; an average is kept as the numerator and      *)
(* the denominator of the fraction it is.                                  *)
(***************************************************************************)
EXTENDS Integers, Sequences, FiniteSetsExt, SequencesExt

CONSTANTS
  Flows,             \* of one customer: it bids for each of them
  ReservationPrice,
  Multiplier,        \* price_multiplier of price_insensitive
  Alpha,             \* the smoothing factor, a pair <<numerator, denominator>>
  Epsilon,           \* the margin above the average, ema_epsilon and budget_epsilon
  CheapPercent,      \* 100 * price_threshold
  HighDemand,        \* high_demand_kbps
  Window             \* price_window

ASSUME ReserveAssumption == ReservationPrice \in Nat \ {0}
ASSUME AlphaAssumption == Alpha[1] \in Nat \ {0} /\ Alpha[2] \in Nat /\ Alpha[1] < Alpha[2]
ASSUME ParamAssumption ==
  /\ Multiplier \in Nat \ {0} /\ Epsilon \in Nat
  /\ CheapPercent \in 1..100 /\ HighDemand \in Nat \ {0} /\ Window \in Nat \ {0}

Larger(a, b) == IF a >= b THEN a ELSE b
Floored(price) == Larger(price, ReservationPrice)
Rounded(n, d) == (2 * n + d) \div (2 * d)
MutantNoMinimum(demand, percent) == (demand * percent) \div 100
Percent(demand, percent) == Larger((demand * percent) \div 100, 1)

Demand(ctx) == ctx.rx + ctx.drop
Silent(ctx) == ctx.rx <= 0 /\ ctx.drop <= 0

(***************************************************************************)
(* What a strategy remembers.  No strategy uses more than one field, and   *)
(* only q_learning keeps its flows apart.                                  *)
(***************************************************************************)
NoAverage == [seen |-> FALSE, num |-> 0, den |-> 1]
NoTurn == [state |-> <<>>]
NoMemory == [ema |-> NoAverage, prices |-> <<>>, turn |-> [f \in Flows |-> NoTurn]]

Bid(units, price, memory) == [skip |-> FALSE, units |-> units, price |-> price, memory |-> memory]
Skip(memory) == [skip |-> TRUE, memory |-> memory]
Unless(silent, bid, memory) == IF silent THEN Skip(memory) ELSE bid

-----------------------------------------------------------------------------
(***************************************************************************)
(* The strategies without a memory.                                        *)
(***************************************************************************)
Conservative(ctx, memory) == Bid(Percent(ctx.rx, 110), Floored(ctx.last), memory)

MutantOvercut(ctx, memory) == Bid(Percent(Demand(ctx), 105), Floored(ctx.last + 1), memory)
DemandCorrected(ctx, memory) ==
  Unless(Demand(ctx) <= 0, Bid(Percent(Demand(ctx), 105), Floored(ctx.last), memory), memory)

PriceInsensitive(ctx, memory) ==
  Unless(Silent(ctx), Bid(Percent(Demand(ctx), 105), ReservationPrice * Multiplier, memory), memory)

MutantMarkedUp(ctx, memory) == Bid(Percent(Demand(ctx), 105), Floored(ctx.valuation + 1), memory)
MutantShaded(ctx, memory) == Bid(Percent(Demand(ctx), 105), Floored(ctx.valuation - 1), memory)
ValuationBased(ctx, memory) ==
  Unless(Silent(ctx),
         Bid((Larger(Demand(ctx), 1) * 105) \div 100, Floored(ctx.valuation), memory), memory)

(***************************************************************************)
(* The exponential moving average of the clearing prices, which starts     *)
(* with the first one, the 0 of an empty history included.                 *)
(***************************************************************************)
NextAverage(ema, last) ==
  CASE ~ema.seen           -> [seen |-> TRUE, num |-> last, den |-> 1]
    [] ema.seen /\ last > 0 ->
         [ema EXCEPT !.num = Alpha[1] * last * ema.den + (Alpha[2] - Alpha[1]) * @,
                     !.den = Alpha[2] * @]
    [] OTHER               -> ema

Share(ema, percent) == (ema.num * percent) \div (ema.den * 100)

Exploratory(ctx, memory) ==
  LET ema == NextAverage(memory.ema, ctx.last)
  IN  Unless(Silent(ctx),
             Bid(Percent(Demand(ctx), 105), Floored(Share(ema, 100) + Epsilon),
                 [memory EXCEPT !.ema = ema]),
             memory)

(***************************************************************************)
(* budget_aware steps down from there as the balance is spent.             *)
(***************************************************************************)
MutantSpentShare(ctx) == ctx.spent
Remaining(ctx) == ctx.balance - ctx.spent
LeftOver(ctx, percent) == 100 * Remaining(ctx) > percent * ctx.balance

TierPrice(ctx, ema) ==
  CASE LeftOver(ctx, 75)                       -> Share(ema, 100) + Epsilon
    [] LeftOver(ctx, 50) /\ ~LeftOver(ctx, 75) -> Share(ema, 75)
    [] LeftOver(ctx, 25) /\ ~LeftOver(ctx, 50) -> Share(ema, 50)
    [] OTHER                                   -> ReservationPrice

BudgetAware(ctx, memory) ==
  LET ema == NextAverage(memory.ema, ctx.last)
  IN  IF ctx.balance = 0
      THEN Conservative(ctx, memory)
      ELSE Unless(Silent(ctx),
                  Bid(Percent(Demand(ctx), 105), Floored(TierPrice(ctx, ema)),
                      [memory EXCEPT !.ema = ema]),
                  memory)

(***************************************************************************)
(* throughput_optimizer compares the last price with the average of those  *)
(* before it, and scales its price by what is left of the balance.         *)
(***************************************************************************)
Remember(prices, last) ==
  IF last = 0 THEN prices
  ELSE LET all == Append(prices, last)
       IN  SubSeq(all, Larger(Len(all) - Window, 0) + 1, Len(all))

Cheap(prices, last) ==
  /\ last > 0
  /\ LET sum == FoldSeq(LAMBDA p, s : p + s, 0, prices)
         n   == Larger(Len(prices), 1)
     IN  last * 100 * n < Larger(sum, ReservationPrice * n) * CheapPercent

Scaled(price, ctx) ==  \* a price in tenths, to be rounded
  IF ctx.balance > 0
  THEN Floored(Rounded(price * Larger(Remaining(ctx), 0), 10 * ctx.balance))
  ELSE Floored(Rounded(price, 10))

ThroughputOptimizer(ctx, memory) ==
  LET cheap == Cheap(memory.prices, ctx.last)
      high  == Demand(ctx) >= HighDemand
      tenths ==
        CASE high /\ cheap   -> 10 * ctx.valuation
          [] high /\ ~cheap  -> 10 * (IF ctx.last > 0 THEN ctx.last ELSE ReservationPrice)
          [] ~high /\ cheap  -> Larger(9 * ctx.last, 10 * ReservationPrice)
          [] ~high /\ ~cheap -> 10 * ReservationPrice
      percent ==
        CASE high /\ cheap -> 120 [] high /\ ~cheap -> 105
          [] ~high /\ cheap -> 80 [] ~high /\ ~cheap -> 50
  IN  Unless(Silent(ctx),
             Bid(Percent(Demand(ctx), percent), Scaled(tenths, ctx),
                 [memory EXCEPT !.prices = Remember(@, ctx.last)]),
             memory)

-----------------------------------------------------------------------------
(***************************************************************************)
(* q_learning.  The table itself is left out: ql_epsilon is never 0, so    *)
(* every action may be taken in any state, the greedy one or another.      *)
(* What the table is fed is kept: Update is the entry it changes and the   *)
(* reward it counts for it.                                                *)
(***************************************************************************)
ActionPercents == <<80, 100, 125, 150, 200, 300>>
Actions == DOMAIN ActionPercents

Bucket(n, d, bounds) == Cardinality({b \in bounds : 100 * n >= b * d})

LearningState(ctx) ==
  <<Bucket(ctx.drop, Demand(ctx), {1, 10, 30}),
    IF ctx.balance = 0 THEN 0
    ELSE Cardinality({b \in {25, 50, 75} : ~LeftOver(ctx, b)})>>

Turn(ctx, action) ==
  [state |-> LearningState(ctx), action |-> action,
   valuation |-> ctx.valuation, clearing |-> ctx.last, won |-> ctx.won]

Update(turn) ==
  [state |-> turn.state, action |-> turn.action,
   reward |-> (turn.valuation - turn.clearing) * turn.won]

QLearning(ctx, memory, action) ==
  Unless(Silent(ctx),
         Bid(Percent(Demand(ctx), 105),
             Floored(Rounded(Floored(ctx.last) * ActionPercents[action], 100)),
             [memory EXCEPT !.turn[ctx.flow] = Turn(ctx, action)]),
         memory)

-----------------------------------------------------------------------------
StrategyNames ==
  {"conservative", "demand_corrected", "price_insensitive", "budget_aware", "exploratory",
   "q_learning", "valuation_based", "throughput_optimizer"}

ComputeBid(name, ctx, memory, action) ==
  CASE name = "conservative"         -> Conservative(ctx, memory)
    [] name = "demand_corrected"     -> DemandCorrected(ctx, memory)
    [] name = "price_insensitive"    -> PriceInsensitive(ctx, memory)
    [] name = "budget_aware"         -> BudgetAware(ctx, memory)
    [] name = "exploratory"          -> Exploratory(ctx, memory)
    [] name = "q_learning"           -> QLearning(ctx, memory, action)
    [] name = "valuation_based"      -> ValuationBased(ctx, memory)
    [] name = "throughput_optimizer" -> ThroughputOptimizer(ctx, memory)
=============================================================================
