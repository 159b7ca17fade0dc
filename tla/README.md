# Verification of the IXP bandwidth auction

TLA+ models, TLC checks and TLAPS proofs for `chew01/ixp-gcp`: an Internet exchange sells the
capacity of its egress ports in a uniform-price auction, held once per `auction_interval`.
Customers' agents read telemetry and past prices and post bids through an API gateway; an auction
runner sells each port, publishes the allocations and keeps the accounts.

Every definition is translated from the Go code under `src/`; `PROJECT.json` ("map") names the
lines. Atomix (a replicated key-value store), Kafka and HTTP are external: they are modelled from
how the code uses them, as calls that take effect at once or fail.

- [1 The system](#1-the-system)
- [2 The modules](#2-the-modules)
- [3 The runs](#3-the-runs)
- [4 Where the code does something else](#4-where-the-code-does-something-else)
- [5 The proofs](#5-the-proofs)
- [6 What is not modelled](#6-what-is-not-modelled)
- [7 The plan](#7-the-plan)

## 1 The system

### Components, state and operations

| Component | State | Operations | Correct when |
|---|---|---|---|
| Reservation-price auction (`auction/algo/reservation.go`) | locals of one call | sort by price (unstable), find the clearing price against a virtual bid for the whole capacity at the reservation price, serve the bids above it, split the rest among those at it | capacity and price floor kept; higher prices first; fair and nearly lossless split; the same result whatever order ties are left in |
| Auction runner (`auction/runner/runner.go`) | a ticker; per auction the bids read, `spendByCustomer`, `utilityByCustomer`; writes `credits-map`, `utility-map`, `auction-history`, topic `auction-results` | `Run`, `runOnce` = List, auction, WriteMessages per allocation, `updateCredits`, `updateUtility`, `storeAuctionHistory`, Clear | every bid has one fate; nobody pays for what was not published; the accounts agree |
| API gateway (`api/server.go`, `api/atomix.go`, `api/main.go`) | the `bids-<port>` maps, a Go map of their handles that no lock protects, Prometheus gauges, the credits entries it creates | `POST /bids`, `GET /flows`, `/credits`, `/auctions`, `/metrics`; the start-up loop `InitCustomerIfMissing` | bids of owners only; what is acknowledged is kept; what is shown agrees with itself and catches up; a redeploy changes no entry |
| Telemetry processor (`telemetry/consumer.go`) | Kafka offsets, `flow-state-map`, `throughput-map` | ReadMessage, `getFlowState`, `computeMetrics`, `publishMetrics`, `setFlowState` | every rate shown is the true average between two reports, across a wrap of the counters |
| Customer agent (`agent/main.go`) | its strategy's memory | `runOnce`: `fetchCredits`, then per flow `fetchFlowMetrics`, `fetchLastAuctionResult`, `ComputeBid`, `POST /bids` | what it bids follows from what it read, however stale |
| Strategies (`agent/strategy/*.go`) | an average, a window of prices, a Q table | `ComputeBid` of eight strategies | what each promises: see the runs `market*` |
| Dummy switch and producer (`dummy/*.go`) | offsets, allocation table, byte counters | reads results, forwards the traffic of an interval, emits reports | flows get their allocation at least, the rest of the capacity is shared and not exceeded |
| Scenario (`shared/scenario`) | the file all programs have loaded | validates it, fills in defaults; who owns a port | each ingress port has one owner: the agent that bids for it is the customer the gateway takes its bids from |
| Agent deployment generator (`scripts/gen-agent-deployments`) | none | one agent for each customer | |
| Uniform auction, TLS set-up | none | | |

### How they interact

```
 switch --topic switch-telemetry--> Telemetry --throughput-map--> API --GET /flows--> Agent
                                                                   ^                    |
              +--------------- GET /credits, /auctions ------------+                    | POST /bids
              |                                                    |                    v
   credits-map, auction-history, utility-map <---- Runner <--- bids-<port> <----------- API
                                                     |
                                                     +--topic auction-results--> switch
```

No process calls another except the agents the API. The rest is shared state: the Atomix maps are
read and written by Get, Put, List and Clear with no compare-and-set and no transaction, by the
API, the runner and the telemetry processor at once.

### What is hard

- **Interleaving without atomicity.** Bids arrive between List and Clear of the same map; the API
  creates credits entries while the runner bills; an auction's four stores are updated one by one.
- **Two pods at once.** The Deployments have one replica and no strategy, so a rollout starts the new pod
  before the old one stops, over the same stores.
- **Errors taken for absence.** Any error of Get is "no entry yet" for `updateCredits`,
  `InitCustomerIfMissing` and `getFlowState`, and an entry of zero for the three Gets of `/metrics`.
- **A Go map shared without a lock.** Two handlers that fill `AtomixBidStore.maps` at once may stop the
  process, with every request in it.
- **Reads that are not a snapshot.** A scrape makes a call per entry, in four sections, while the runner
  writes the same stores; two scrapes set the same gauges.
- **Half-done rounds.** Any call of `runOnce` can fail and the pod can die between any two; there is
  no log and no idempotency key. Bids not cleared are auctioned again.
- **Order.** sort.Slice is not stable; telemetry reports may be on several partitions; the history
  the agents read is in no order and they take its last record for the latest.
- **Numbers.** Products of two uint64; counters modulo 2^64; the interval ID computed from a clock.
- **Feedback.** Prices depend on bids that depend on prices.

`PROJECT.json` ("hazards") lists each at its line, with the properties that would catch it.

## 2 The modules

| Module | Models | Notes |
|---|---|---|
| `AuctionOutcome` | what the auction of a book of bids yields | a closed form: `ClearingPrice`, `Awards`; no loops, no order |
| `ReservationAuction` | `RunReservationPriceAuction`, one step per loop iteration | variables are the locals; products modulo `Word`; the sort leaves ties in any order |
| `AuctionLedger` | abstract: an auction settles all accounts at once | what `AuctionRunner` promises without failures |
| `AuctionRunner` | the ticker, `runOnce`, `POST /bids` | one step per store or Kafka call; a failure action next to each; `Crash` and `Restart` |
| `Credits` | `InitCustomerIfMissing` against `updateCredits` | one step per Get and Put; scenarios, with the balances they give, succeed one another; pods of one Deployment overlap |
| `Telemetry` | the consumer, with the switch and Kafka as its environment | counters modulo `Word`; a report's `sent` field is what they stand for |
| `Strategies` | the eight `ComputeBid` | operators from what was read and what is remembered to a bid and a new memory |
| `Market` | the agents' `runOnce`, the API's answers, the auctions | one step per HTTP call; an auction is one step, by `AuctionOutcome` |
| `Scenario` | `validateCustomers`, the defaults, and the look-ups of owners | its variable is the file loaded; refused files are among the inputs |
| `Gateway` | `POST /bids` and `GET /metrics`, with the runner's writes around them | one step per store call and per access to the Go map |
| `DummySwitch` | the reader of results and the producer's interval | bytes; exact shares |
| `Exchange` | the three together, and an auction that publishes its results | |
| `MC*` | values for TLC | |
| `SumTheorems` | nothing of the code: sums over finite sets, and their largest elements | for the proofs |
| `*Proofs` | the theorems of the module they extend | |

How they fit:

```
ReservationAuction --MatchesOutcome--> AuctionOutcome <-- the outcome of --- AuctionRunner, Market
AuctionRunner --ImplementsLedger--> AuctionLedger
Strategies <-- EXTENDS -- Market
Scenario <-- EXTENDS -- Gateway, DummySwitch <-- EXTENDS -- Exchange
```

`AuctionRunner` takes the outcome of an auction as the operators `PriceOf` and `AwardsOf`, assumed
only to be a price and an allocation to some of the bids: what is proved of the runner holds for any
auction. TLC runs it with `AuctionOutcome`, which satisfies the assumption (`OutcomeFits`) and to which
`ReservationAuction` is proved to conform (`MatchesOutcomeHolds`).

### Correspondence

*ReservationAuction.* `pc` is the loop: `sort`, `price` (lines 26-41 of `reservation.go`), `allocate`
(50-74), `split` (82-97), `done`. `remaining`, `clearingPrice`, `marginalBids`, `marginalDemand`,
`allocations` are the variables of that name; `left`, `tier`, `granted` record sums for the proofs.

*AuctionRunner.* `pc` is the call about to be made: `list`, `publish`, `credits`, `utility`,
`history`, `clear`. `tick` is the one-slot channel of `time.Ticker`, `interval` the value of
`currentIntervalID`, `bill` and `gain` the two maps by customer. Allocations are published in the
order of the slice, which the unstable sort leaves open: any order here. `ListPartly` is the loop
over `Next` that breaks at an error and goes on with what it has. `PublishFails` covers a message
that was written although the call reports an error. The history variables `value`, `won`,
`charges` and `dropped` are what a reader of the topic and the customers know.

*Credits.* Several pods of the API and of the runner, of which any number may be alive: a rollout starts
the new one first (`StartApi`, `StartRunner`), and what stops is chosen freely (`StopApi`, `StopRunner`).
`api[p].scenario` is the scenario pod p has loaded and `toInit` what is left of the loop in `main.go`, customers
with the balance this scenario gives them; its `pc` `put` is the place between Get and Put of
`InitCustomerIfMissing`. `runner[r].pc` `put` is the same place in `updateCredits`. A failed Put of the
API ends the program (log.Fatalf). `LoadScenario` is the Makefile's `load-scenario`, which changes the
config map; the pods restart when they do. `billed`, `opened` (the balance an entry was created with) and
`crowded` (two start-up loops, or two auctions, have been under way at once) are history variables.

*Telemetry.* `pc` follows `handleMessage`: `get`, `publish` (only with a positive interval), `set`.
`ReadMessage` commits the offset before it returns; when the commit fails it returns the error and
the loop in `Run` skips the message: `CommitFails`. Each commit is of the partition of the message alone. A rate is kept as bytes and time rather than
their quotient, with the two reports it is between (`from`, `to`).

*Market.* `agent[c].pc` is the call about to be made: `idle`, `flow` (metrics and history, then
`ComputeBid`), `post`. Reading the metrics and reading the history are one step, since metrics are
arbitrary. `Results` is `GET /auctions`: no filter for port 0, and any record may be last. Rates are
whole kbps; an average of prices is kept as a fraction; only the final rounding of the code is
modelled, not the rounding of binary floating point.

*Scenario.* A file is a record; `Load` takes any file of a set that `Accepted` lets through and sets
`scene`. A claim is an entry of some customer's list of ports: the loop over the claims is the
condition that all are allowed, no two are for one port, and none is left over. A file may list several
switches, and agents then bid for the ports of all; the gateway, the runner and the dummy switch look at
the first only (`docs/DEPLOYMENT.md:117`: "The current implementation assumes a single switch"). `AgentPorts` is
`deriveCustomerPorts`, which collects all entries of a customer; `CustomerForIngressPort` returns at
the first.

*Gateway.* `handler[h].pc` is the place in `AtomixBidStore.Put`: `lookup` and `assign` are the read and
the write of the Go map, `create` the call between them, `put` the last. Whoever touches the map while
another writes it may see, miss or undo the write, or stop the process (`Race`): what Go's memory
model leaves open and what its runtime detects. `scrape[w].pc` is the section of `getMetrics`; `todo`
is what List returned and is still to be read, in any order; `read` is between Get and the gauge.
`latest` is the local `latestByEgress`. `accepted` is what the clients know: the requests that were
answered 202 since the runner last cleared their port. When the process dies the handlers are gone, and
`accepted` is not. An account stands for the number of the last round it
includes and a flow for that of its last report, so that going back can be seen; `left` holds the
bounds. The runner is reduced to the order of its writes; `AuctionRunner` has the rest.

*DummySwitch.* `table` is the `AllocationTable`, `offset` the reader and its group. `Sure` and
`BestEffort` are the two passes of `DummyProducer.Run`; `forwarded` remembers the last interval.
`SwitchRestarts` loses the table but not the offsets.

*Exchange.* `Auction` is the runner's round with the results it publishes, in protobuf.

## 3 The runs

| Run | Question | Bounds | Result |
|---|---|---|---|
| `auction` | do the loops keep the promises of the auction? | up to 3 bids, up to 3 units, 3 prices, capacity 4: ties, rationing, the virtual bid in a tie, bids below the floor | 8 invariants hold |
| `runner_reliable` | without failures, is the runner an atomic ledger? | 2 ports, 2 customers, 3 bids, 2 intervals told apart | 3 invariants and the refinement hold |
| `runner_faults` | with a failure or crash anywhere? | 1 port, 2 bids, 1 fault, fairness | 3 invariants and a liveness property hold |
| `runner_dropped` | is a bid consumed at the next auction? | as above, no fault | violated |
| `credits` | do two unsynchronised writers lose anything? | 2 customers, the second joining with a scenario that brings budgets; 2 pods of each program, alike (symmetry); 2 auctions, 2 pods stopped, 1 fault | 4 invariants and an action property hold |
| `credits_overwritten` | does a redeploy keep entries when a call fails? | 1 pod of each, 1 fault | violated |
| `telemetry` | is every rate real? | 2 partitions, a flow on one and a flow on both, 3 reports each, counters that wrap (modulo 8), 2 faults | 2 invariants, an action property and a liveness property hold |
| `market` | do the strategies do what they say? | 11 pairs of strategies, 2 runs of each agent, 2 auctions, 1 fault | 5 invariants hold |
| `market_shading` | is truth telling dominant? | two truthful agents | violated |
| `market_learning` | is the reward that of the previous round? | `q_learning` against a fixed price | violated |
| `exchange` | do the programs around the auction keep and show what they are told, and does the switch share its capacity? | 28 scenario files, two of them with a second switch, 8 requests, 2 handlers, 2 scrapers, 2 rounds, 2 intervals, 1 fault; ports modulo 4 | 7 invariants, an action property and a liveness property hold |
| `exchange_unheard` | do the runner's allocations reach the switch? | one round, and the switch that reads its results | violated |

What the properties say, beyond types:

- **auction.** `CapacityRespected`, `PriceFloorHolds`, `VirtualBidNeverServed`; `MatchesOutcome`: the
  loops compute the closed form whatever order ties are in; `HigherPriceFirst`; `FairWithinPrice`;
  `LittleIsWasted`: rounding loses less than one unit per marginal bid.
- **runner.** `OneFate`: a bid is billed once or erased unauctioned, never both or twice, without
  failures. `BooksBalance`: spending plus utility is valuation times units won. `HistoryBacked`: the
  history never shows more than was charged. `ImplementsLedger`: from the outside the auction settles
  when it lists. With failures: `NeverOvercharged`: nobody is charged more than the published results
  are worth. `RepeatsNeedFailures`: a bid is auctioned again only after a failure of its own.
  `BidsLeave`: no bid for an auctioned port stays for ever.
- **credits.** `NeverInflated` and `EntriesFromTheStart` whatever fails, stops and overlaps: `total_spent`
  never exceeds what was billed, and no customer is served, bids or is billed without an entry. `Exact` and
  `KeptWithoutFaults` until a call fails or two start-up loops, or two auctions, overlap: an old pod that
  serves next to a new one that starts does no harm, two that start at once do. That unsynchronised read-modify-writes are exact is not obvious: the argument is in
  section 5.
- **telemetry.** `RateIsReal`: every rate shown is the average between two reports of one flow, the
  earlier first, unless the switch restarted in between, for the order of partitions, duplicates and
  failed calls only make the span longer or shorter. `NeverGoesBack` for a flow on one partition,
  restarts and duplicates included: this rests on the offsets being committed before the report is
  handled. `ShowsTheLatest`: without failures the last report is shown in the end.
- **market.** `FollowersNeverLead`: the strategies that follow the price never raise it above what
  another strategy bid, although the price they read may be of any past auction or another port.
  `NeverAtALoss` and `NoGainAbove`: two halves of what `valuation_based` claims that are true.
  `SpendingLowersBids`: with the same memory and the same readings, more spent is never a higher bid,
  up to twice the balance.
- **exchange.** `OwnersAreServed`: in whatever file that is accepted, the gateway turns away no bid of the
  agent whose port it is, as far as the first switch goes. `OwnPortsOnly`: ports are 64 bits in a bid and 32
  in the result; whatever the upper bits, the port published belongs to who pays. `AcceptedIsKept`: a bid
  answered 202 stays until the runner clears it, whatever races meanwhile and however often the process dies
  afterwards. `UtilityCoversPrices`: a scrape that shows a round's price shows an account that includes it:
  this rests on the runner writing the account first and the scrape reading it last. `ShownAdvances`:
  undisturbed, no gauge goes back. `ShowsTheLastRound`: disturbed or not, the gauges end up at the last
  round. `EgressFits`: a flow gets its allocation and no more than it offers, and the second pass adds nothing
  that exceeds the capacity. `NoCapacityIdle`: rounding leaves less than a byte per flow unused.

Why the bounds are enough: a step of these systems relates at most two actors and two auctions. Three
bids give a tie next to a bid above and one below. Two ports and two intervals give two records for
one key and a port left for the next tick. Two runs of an agent are what its memory spans. A second
fault only repeats the first in `AuctionRunner`; in `Telemetry` two may combine (a restart
of the consumer after one of the switch) and are allowed. In `Credits` two pods of a kind are what it takes to
overlap, and two stops replace each program once; with the pods taken for alike it has 5.6 million states.
`exchange` is eight workloads, about a million states, each with the weight on one part (`Workload` in `MCExchange`): three
posts by two handlers and a round; two posts and a fault; two rounds under one scrape and a fault; two
rounds under two scrapes that overlap; all scenario files, of which most are refused, with a round, a
report and a fault; the same with a bid and a round; the switch with foreign results, two intervals and a restart; the random pattern.
Three posts of two handlers give two that race and one after; two scrapes are all that can overlap on
two ports; a third round or interval repeats the second.
Every bound is a constant named in the module (`MaxPosts`, `MaxClock`, `MaxFaults`, `MaxRounds`,
`MaxStops`, `MaxReports`, `MaxAuctions`, `MaxRuns`, `MaxBids`, `MaxUnits`, `MaxPrice`) or a field of
the variables `left` and `allowance`.

Deadlock is checked for the runner and the credits, whose loops never end, and for the auction, whose
last step `Return` repeats. `Telemetry`, `Market` and `Exchange` stop at their bounds:
`CHECK_DEADLOCK FALSE`.

Fairness. `AuctionRunner` (`FairSpec`): time passes, the ticker fires, the runner's loop goes on and
Kubernetes restarts a dead pod; nothing makes anyone bid or fail. `Telemetry`: the loop of `Run` goes
on. `Exchange`: each handler goes on, each scraper scrapes again and again (Prometheus does), the runner
ends the round it is in; nothing makes anyone post, start a round or fail. Each is weak: the code never
waits for anything but a call that returns or fails. The other modules check no liveness and assume no
fairness.

Each property has at least one mutant: a plausible bug in the code (a dropped guard, a changed
rounding, steps swapped) under which TLC finds the property violated.

## 4 Where the code does something else

| Run | The code | What is said of it |
|---|---|---|
| `runner_dropped` | Clear empties the whole map, bids stored after List included: a bid answered 202 is in no auction | "Consumed at next auction interval" (`README.md:140`) |
| `credits_overwritten` | one failed Get at start-up and the entry is written anew with nothing spent | "total_spent is never overwritten on redeploy" (`api/atomix.go:252`) |
| `market_shading` | the last accepted bid sets the price it pays itself; bidding less than the valuation gains | "no benefit to bidding above or below valuation" (`valuation_based.go:6`) |
| `market_learning` | the reward of an action is computed from prices and units read before its auction | "reward is utility earned in the previous round" (`qlearning.go:167`) |
| `exchange_unheard` | the switch parses results as JSON and skips the others; the runner writes protobuf, so none of its allocations has any effect, and all traffic is sent | "DummySwitch writes to it when auction results arrive" (`dummy/allocation.go:9`), "to simulate the switch enforcing allocations" (`docs/ARCHITECTURE.md:78`) |

Met on the way, without a run of their own:

- *Numbers.* Where sums and products exceed a word, the split of tied bids is neither fair nor within the
  capacity: with `Word = 32`, two bids of up to 8 units violate `FairWithinPrice` and three of up to 11
  `CapacityRespected` (`reservation.go:71` and `83`; `validateBid` sets no upper bound on units).
- *A list read in part.* After an error of Next other than its end (`runner.go:80`) the auction goes on with the
  bids read, and Clear erases the others. After a failed Put of an account (`runner.go:222`) the remaining
  winners are not billed while utility is still added. Both lose something; neither overcharges.
- *Two API pods that start at once.* The slower one, which found an entry missing, puts it without looking
  again (`atomix.go:264`), and resets what its customer has spent by then. `Exact` and
  `KeptWithoutFaults` exclude this by `crowded`: leave `~crowded` out of `Calm`, and the run `credits` finds it.
- *Budgets that do not change.* An entry keeps the balance it was created with (`atomix.go:255`): load
  `experiment-1`, which has none, and then `experiment-4a`, and the customers have no budget. The model has
  this; `docs/EXPERIMENTS.md:32` says to reset the state first.
- *A switch that restarts* counts from zero, which `delta` takes for a wrap (`consumer.go:229`): one rate close to
  2^64 bytes. `RateIsReal` is about reports of one boot.
- *The gauge of a loser.* The allocation gauge of a customer keeps its last value when a later round has nothing
  for it (`server.go:374`), where `README.md:156` says "most recent round" and `docs/EXPERIMENTS.md:205`
  has it drop to zero. `ShowsTheLastRound` speaks of the winners.
- The three gauges kept by key show zero after a Get that failed, until the next scrape.
- `demand_corrected` adds the drops to a throughput that is the ingress rate, drops included
  (`consumer.go:157`), and so counts them twice.
- `conservative` never skips, although its comment, `README.md` and `conservative_test.go` say it skips
  flows without traffic.
- A result of zero kbps would be taken for no allocation by the switch, and its flow sent in full.
- The demo bidder of `dummy` sends no customer header: each of its requests is answered 401.
- `AddSpent` is called by no program; the flow key of telemetry has neither switch nor VLAN.

## 5 The proofs

Every safety property and action property of a passing run is a theorem, for every value of the
constants. There is no axiom; the assumptions are the ASSUMEs on the constants (types, finite sets of
bidders, and for some theorems about the auction that no product exceeds a word), which TLC
evaluates in the runs. Temporal steps are PTL over an inductive invariant that is named in each case:
what it adds to the property is the argument.

**SumTheorems.** The accounts, the demand at a price and the switch's shares are sums over sets,
`SumFunctionOnSet` of the community modules, whose fold is a CHOOSE of a recursive function. The
library's induction theorems take an operator as parameter and cannot be used by the provers at hand;
here induction is over sets of numbers and sets of sets instead (`NumberInduction`, `SetInduction`,
from the well-foundedness of the natural numbers), with the claim as the set of those that satisfy
it. From these: the function exists (`SmallSums`, `SumsOnStep`), a sum loses or gains one summand
(`SumRemove`, `SumAdd`), sums are monotone, additive over disjoint sets, unchanged by renaming
(`SumAtMost`, `SumUnion`, `SumRenamed`), and a finite set of integers has its largest element
(`MaxIsLargest`).

**ReservationAuctionProofs.** For any capacity, prices, number of bids and word: `TypeCorrect`,
`PriceFloor`, `VirtualUnserved` and `HigherPriceFirstHolds` without condition, products that wrap
included; `CapacitySafe`, `FairWithinPriceHolds`, `LittleIsWastedHolds` and `MatchesOutcomeHolds` under
`NoWrap`. The capacity is not safe without it, and what wraps is neither fair nor the exact share.

- Capacity: the second loop serves bids without asking whether they fit. The invariant says that it
  retraces the first: after as many bids the same capacity is left (`left`, recorded by the first
  loop), up to the first bid at the clearing price, from which on nothing is subtracted. For the split,
  the rounded shares of the first k bids are at most the exact share of their sum (`tier`).
- Order and fairness: `Records` says which records the loops have written, as a set of bids of the
  book, and `Once` that no bid has two; then one bid compares with another by its record.
- Waste: `Wasting` counts, per marginal bid handled, what its rounded share lacks of the exact one: less than
  `marginalDemand` once multiplied out, so less than a unit each.
- `MatchesOutcome`: `Sums` puts `left`, `remaining` and `tier` in closed form, as sums over the bids
  seen. At the bid where the first loop stops the demand reaches the capacity, and not before, which
  makes its price the maximum that `ClearingPrice` chooses, whatever order the ties are in (`PriceMatches`);
  the shares are then the same quotients (`AwardMatches`).

**AuctionRunnerProofs.** For any customers, ports, offers and outcomes. Whatever fails:
`TypeCorrect`, `NeverOverchargedHolds`, `RepeatsNeedFailuresHolds`. Until something fails: `OneFateHolds`,
`BooksBalanceHolds`, `HistoryBackedHolds` and the refinement `ImplementsLedgerHolds`.

- `NeverOvercharged` compares two totals and is not inductive: the strengthening adds what this round
  has still to charge, `spent + bill <= value` for each customer still to be billed (`Backed`). An
  abandoned round drops its bill, never its value.
- Fates: for each bid, how often it was billed, whether it was dropped and whether it may still be
  billed add up to at most one more than the failures (`Fates`). A step that opens a bid again is a
  failure, and pays for it. It needs that a bid is stored under one port only, and that what is stored of
  the batch is under the port being handled (`InPlace`).
- Balance: `Balanced` carries the equation through the round, each account taken with what is still to
  be written to it (`Total`).
- History: `HistoryAmount` is a sum over records that replace one another and over their allocations.
  `Recorded` says that with what this round charged and has not recorded yet it is within `spent`,
  and that the bill is the sum of the amounts published.
- Refinement: the ledger settles a port's accounts in one step, at once. The accounts are mapped to what is
  written plus what is due (`Due`, `DueUtility`), so every write of an account is a stutter. The theorem
  is stated for behaviours in which nothing fails, as the run `runner_reliable` has it.

**CreditsProofs.** `TypeCorrect`, `NeverInflatedHolds`, `EntriesFromTheStartHolds`, `ExactHolds`, `KeptHolds`,
for any scenarios, balances and number of pods. `FInv` holds whatever fails: an entry never shows more than
was billed, nor does what a runner holds of one; a customer that the loop of a pod has passed has an entry
(`Created`), and entries are never removed, so whoever may bid, has bid or is to be billed has one
(`Billable`). The exactness of writers without locks rests on this. As long as pods do not crowd, one
pod at most is between Get and Put of its loop, and it holds a customer that has no entry (`Missing`); nobody
is billed without one, so the two programs are never at the same entry, and what a runner holds is
fresh (`HeldFresh`). The mutant that lets anyone bid breaks it, and so does the first failed call.

**MarketProofs.** For any customers, valuations, balances, traffic and mixture of the eight
strategies, whatever is read and whatever fails: `TypeOKHolds`, `FollowersNeverLeadHolds`,
`NeverAtALossHolds`, `NoGainAboveHolds`, `SpendingLowersBidsHolds`.

- The outcome of an auction, for any book: the clearing price is the reservation price or the price of a bid,
  what is asked at it reaches the capacity unless it is the reservation price, and what is asked at
  any higher price, one that nobody bid included, does not (`ClearingFacts`). A bid wins nothing below
  the price, no more than it asks for at it and all of it above (`WonFacts`). `OutcomeFits` draws from them
  what the runner's proofs assume of the auction they call (`OutcomeAssumption`), and `AwardsFitCapacity`
  that the awards, rounded shares included, add up to no more than the capacity.
- The strategies: one lemma for each, that its answer is a bid the gateway accepts (`AnswerFits`);
  that the followers' price is the last one and `valuation_based`'s its valuation, each floored.
- The inductive invariant `IInv`: types, and what every bid in a book or on its way has in common with
  the strategy it is from (`BidsKept`). With the first of `ClearingFacts` the prices of the history are then
  led by some bid of a strategy that sets prices, and the followers read no others.
- `NoGainAbove`: with one bid raised no less is asked for at any price, so the price does not fall
  (`RaisedAsks`). If it reaches the valuation, nothing won is a gain; if not, the bid was above the price
  before and after, and wins the same units for no less.
- `SpendingLowersBids`: the rounded price is monotone in what is left of the balance, through the tiers of
  `budget_aware` (`TierPriceFalls`) and the scaling of `throughput_optimizer` (`ScaledFalls`). Below its
  last tier `budget_aware` asks for the reservation price, which may be more than its average would give:
  the floor at the end makes them equal.

**ScenarioProofs.** `LoadedHasOneOwner`: in any file that is loaded, with any number of switches, entries and ports,
exactly one customer's agent bids for each port of each switch. It is the customer that `CustomerForIngressPort`
finds for that switch and port (`AgentFound`); the gateway asks for the first switch only:
two claims of one port would be equal pairs of an entry and a place in it (`OneEntry`), so the first
customer found is the only one (`LookUp`); the defaults change valuations only.

**ExchangeProofs.** For any files, clients, requests, word size and number of races, crashes and
failures: `TypeOKHolds`, `OwnersAreServedHolds`, `OwnPortsOnlyHolds`, `AcceptedIsKeptHolds`,
`RunnerGoesUnheardHolds`, `EgressFitsHolds`, `NoCapacityIdleHolds`, `UtilityCoversPricesHolds` and
`ShownAdvancesHolds`. Assumed of the workloads: files of the right type whose first switch has a name.

- `AcceptedIsKept` alone is not inductive: a later bid under the same key could be another
  customer's. The strengthening `GInv` says that the customer of every request past the checks
  (`HandlersOK`), of every bid stored (`BidsOK`) and of every bid acknowledged and not cleared (`AcceptedOK`)
  is the owner of its ingress port: the key determines the customer. `HandlersOK` says as well that who is
  answered 403 is not the owner; with `LoadedHasOneOwner` this is `OwnersAreServed`.
- `RunnerGoesUnheard` says for any auctions what `exchange_unheard` shows: until somebody else writes results,
  in JSON, the table is empty (`Unheard`) and traffic that is not random is sent in full.
- The switch: the second pass shares what the first leaves by rounded proportions. Each share is at most
  the exact one and what the flow still offers, and the sum of what rounding takes away is less than
  one byte per flow; the sums need that tables and results allot numbers (`SwInv`). Where what is due exceeds
  the capacity already, the second pass adds nothing.
- The scrape: `MInv` orders what is stored by what is written when: a record's number is within those
  of the accounts of its winners as soon as it is in the history (`HistoryOK`), later intervals have
  later numbers, and what a lone scrape has read is covered by, and not ahead of, what it has still to
  read (`Calm`). The other order of the runner's writes, or of the sections, breaks it.

**TelemetryProofs.** `TypeCorrect`, `RateIsRealHolds` and `NeverGoesBackHolds`, for any word size, partitions, duplicates,
failures and restarts, and any traffic that does not wrap twice in `MaxReports` intervals
(`WrapAssumption`). Whatever report the consumer holds or has stored is still on the topic
(`Handling`, `Showing`), so that it is enough to know what any two reports of one boot on the topic
say of each other: between them less than a word was counted per `MaxReports` intervals (`Growth`).
`DeltaRecovers` is the arithmetic: two remainders determine a difference less than a word.
`NeverGoesBack` is strengthened with the order of things (`OInv`): within a partition times only grow
(`Sorted`), the report in hand is the last one committed (`Held`), so nothing read later is older than
what is shown (`Onward`). A copy of the report shown either finds itself as the last one and is passed
over, or finds the one before and gives the same rate again.

**Only model-checked.** Liveness under fairness (`BidsLeave`, `ShowsTheLatest`, `ShowsTheLastRound`),
which is out of the provers' reach. The violations of section 4 are TLC's counterexamples.

## 6 What is not modelled

- The values in the Q table: any action may be explored at any time, so any is possible; the state and
  the reward it is fed are modelled. The rounding of floating point, in the strategies and in the
  shares of the dummy switch.
- `algo/uniform.go`, called by no program; TLS set-up; the text of the generated manifests; dashboards.
- The inside of Atomix and Kafka: a call takes effect at once, or fails (having taken effect or not
  where the code could tell the difference).
- The runner's failures inside `Exchange`: `AuctionRunner` has them, and the accounts `Exchange` shows
  are what a round without failures writes.
- A second switch is part of the scenarios only: nothing serves its ports (section 2). `AuctionRunner` has one
  runner pod at a time, `Gateway` one process; pods that overlap are in `Credits`. A pod that dies leaves no
  call in flight that takes effect later.
- Words: in the runs and theorems of the shares of tied bids, sums and products fit the word (`NoWrap`).
- Hazards without a property, of which section 4 has more: products that wrap
  (`reservation.go:83`); bids lost to a list read in part (`runner.go:80`) and winners left unbilled
  (`runner.go:222`); a balance that stays when the scenario changes (`atomix.go:255`); the stale gauge of a
  loser (`server.go:374`); bids for a port that is never auctioned (`server.go:183`), which stay in their
  map; an `auction_interval` below a second, which would divide by zero (`runner.go:321`); what a strategy
  should bid after a failed `fetchCredits` (`agent/main.go:189`). Covered in part: the rate across a restart of the
  switch (`consumer.go:229`), and the interval for which no rate is shown after a failed Get
  (`consumer.go:131`).

## 7 The plan

Done: the modules above, the auction and its runner first; every program is modelled, and every safety
property the runs check is proved.

Left, proofs:

1. The refutation of `NoBidDropped` turned around: without a bid between List and Clear, every bid for an
   auctioned port is billed or refused by an auction.
2. The safety part of the liveness properties: that the runner and the consumer never stand still short of
   what the fairness leads to.
