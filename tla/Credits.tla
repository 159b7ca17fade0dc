------------------------------ MODULE Credits ------------------------------
(***************************************************************************)
(* The credits map and its two writers: the API, which creates the entries *)
(* of its scenario's customers each time it starts (api/main.go,           *)
(* api/atomix.go), and the auction runner, which adds to total_spent       *)
(* (auction/runner/runner.go).  Both read with a Get and write with a Put, *)
(* no call is a compare-and-set, and both take any error of Get for a      *)
(* missing entry.                                                          *)
(*                                                                         *)
(* Each is a Deployment of one replica that sets no strategy: while it is  *)
(* rolled over, the new pod starts before the old one stops.  A pod that   *)
(* dies leaves no call in flight.  The amounts are arbitrary here; where   *)
(* they come from is in AuctionRunner.                                     *)
(***************************************************************************)
EXTENDS Integers, Sequences, FiniteSets

CONSTANTS
  Customers,
  Scenarios,      \* the successive scenarios: each the sequence of its customers,
                  \*   [id, balance], every customer once (seen, in main)
  Amounts,        \* what a customer may owe for one auction
  ApiPods, RunnerPods,
  MaxRounds,      \* bound: auctions
  MaxStops,       \* bound: pods stopped
  MaxFaults       \* bound: failed calls

ASSUME ScenarioAssumption ==
  Scenarios \in Seq(Seq([id : Customers, balance : Nat])) /\ Len(Scenarios) > 0
ASSUME AmountAssumption == Amounts \subseteq Nat
ASSUME PodAssumption == ApiPods # {} /\ RunnerPods # {}
ASSUME LimitAssumption == MaxRounds \in Nat /\ MaxStops \in Nat /\ MaxFaults \in Nat

VARIABLES
  credits,   \* the entries of credits-map
  deployed,  \* the scenario in the config map
  api,       \* of each pod [pc, scenario, toInit]: where it is, what it has loaded,
             \*   and the customers its start-up loop has still to visit
  bids,      \* customers with a bid in the map
  runner,    \* of each pod [pc, due, owes, customer, cred]: where it is, whom it has
             \*   still to bill and how much (spendByCustomer), and the customer and
             \*   the entry it holds between Get and Put
  billed,    \* history: what each customer was billed for, whatever became of the entry
  opened,    \* history: the balance each entry was first created with
  crowded,   \* history: two pods have been in their start-up loops, or in auctions, at once
  rounds, stops, faults

vars == <<credits, deployed, api, bids, runner, billed, opened, crowded, rounds, stops, faults>>

Entry == [spent : Nat, balance : Nat]
NoEntry == [spent |-> 0, balance |-> 0]   \* the zero value of CustomerCredits
InAuctionOf(s) == {Scenarios[s][k].id : k \in DOMAIN Scenarios[s]}

Put(c, entry) ==
  credits' = [k \in DOMAIN credits \cup {c} |-> IF k = c THEN entry ELSE credits[k]]

Fault == faults < MaxFaults /\ faults' = faults + 1

Starting(s) == [pc |-> "init", scenario |-> s, toInit |-> Scenarios[s]]
NoApi == [pc |-> "stopped", scenario |-> 1, toInit |-> <<>>]

Idle ==
  [pc |-> "idle", due |-> {}, owes |-> [c \in Customers |-> 0], customer |-> "none",
   cred |-> NoEntry]
NoRunner == [Idle EXCEPT !.pc = "stopped"]

Api(p, state) == api' = [api EXCEPT ![p] = state]
Runner(r, state) == runner' = [runner EXCEPT ![r] = state]

Init ==
  /\ credits = [c \in {} |-> NoEntry]
  /\ deployed = 1
  /\ \E p \in ApiPods : api = [q \in ApiPods |-> IF q = p THEN Starting(1) ELSE NoApi]
  /\ bids = {}
  /\ \E r \in RunnerPods : runner = [q \in RunnerPods |-> IF q = r THEN Idle ELSE NoRunner]
  /\ billed = [c \in Customers |-> 0] /\ opened = [c \in Customers |-> 0]
  /\ crowded = FALSE
  /\ rounds = 0 /\ stops = 0 /\ faults = 0

-----------------------------------------------------------------------------
(***************************************************************************)
(* InitCustomerIfMissing, for each customer of the scenario, before the    *)
(* server listens.  A failing Put is fatal.                                *)
(***************************************************************************)
Current(p) == Head(api[p].toInit)
Visited(p) == [api[p] EXCEPT !.pc = "init", !.toInit = Tail(@)]

GetEntry(p) ==
  /\ api[p].pc = "init"
  /\ api[p].toInit # <<>>
  /\ Api(p, IF Current(p).id \in DOMAIN credits THEN Visited(p)
            ELSE [api[p] EXCEPT !.pc = "put"])
  /\ UNCHANGED <<credits, deployed, bids, runner, billed, opened, crowded, rounds, stops, faults>>

GetEntryFails(p) ==
  /\ Fault
  /\ api[p].pc = "init"
  /\ api[p].toInit # <<>>
  /\ Api(p, [api[p] EXCEPT !.pc = "put"])
  /\ UNCHANGED <<credits, deployed, bids, runner, billed, opened, crowded, rounds, stops>>

CreateEntry(p) ==
  /\ api[p].pc = "put"
  /\ Put(Current(p).id, [spent |-> 0, balance |-> Current(p).balance])
  /\ opened' = IF Current(p).id \in DOMAIN credits THEN opened
               ELSE [opened EXCEPT ![Current(p).id] = Current(p).balance]
  /\ Api(p, Visited(p))
  /\ UNCHANGED <<deployed, bids, runner, billed, crowded, rounds, stops, faults>>

CreateEntryFails(p) ==
  /\ Fault
  /\ api[p].pc = "put"
  /\ Api(p, NoApi)
  /\ UNCHANGED <<credits, deployed, bids, runner, billed, opened, crowded, rounds, stops>>

MutantListenFirst(p) ==  \* serves before the start-up loop is done
  /\ api[p].pc = "init"
  /\ Api(p, [api[p] EXCEPT !.pc = "serving"])
  /\ UNCHANGED <<credits, deployed, bids, runner, billed, opened, crowded, rounds, stops, faults>>

Listen(p) ==
  /\ api[p].pc = "init"
  /\ api[p].toInit = <<>>
  /\ Api(p, [api[p] EXCEPT !.pc = "serving"])
  /\ UNCHANGED <<credits, deployed, bids, runner, billed, opened, crowded, rounds, stops, faults>>

(***************************************************************************)
(* POST /bids: only the owner of an ingress port of the scenario may bid.  *)
(***************************************************************************)
Store(c) ==
  /\ bids' = bids \cup {c}
  /\ UNCHANGED <<credits, deployed, api, runner, billed, opened, crowded, rounds, stops, faults>>

MutantAnyBidder(p, c) == api[p].pc = "serving" /\ Store(c)

PostBid(p, c) ==
  /\ api[p].pc = "serving"
  /\ c \in InAuctionOf(api[p].scenario)
  /\ Store(c)

-----------------------------------------------------------------------------
(***************************************************************************)
(* An auction: the customers that won something owe an amount each.        *)
(***************************************************************************)
Busy(r) == runner[r].pc \in {"get", "put"}

RunAuction(r) ==
  /\ runner[r].pc = "idle"
  /\ bids # {}
  /\ rounds < MaxRounds
  /\ rounds' = rounds + 1
  /\ \E winners \in SUBSET bids : \E owes \in [winners -> Amounts] :
       Runner(r, [Idle EXCEPT !.pc = "get", !.due = winners,
         !.owes = [c \in Customers |-> IF c \in winners THEN owes[c] ELSE 0]])
  /\ crowded' = (crowded \/ \E q \in RunnerPods : Busy(q))
  /\ UNCHANGED <<credits, deployed, api, bids, billed, opened, stops, faults>>

(***************************************************************************)
(* updateCredits: the loop over spendByCustomer, in any order.             *)
(***************************************************************************)
Hold(r, c, cred) ==
  /\ runner[r].pc = "get"
  /\ c \in runner[r].due
  /\ Runner(r, [runner[r] EXCEPT !.pc = "put", !.customer = c, !.cred = cred])
  /\ UNCHANGED <<credits, deployed, api, bids, billed, opened, crowded, rounds, stops>>

GetCredits(r, c) ==
  /\ Hold(r, c, IF c \in DOMAIN credits THEN credits[c] ELSE NoEntry)
  /\ UNCHANGED faults

GetCreditsFails(r, c) == Fault /\ Hold(r, c, NoEntry)

Owed(r) == runner[r].owes[runner[r].customer]

MutantRefund(r) == [runner[r].cred EXCEPT !.spent = @ - Owed(r)]
MutantAddTwice(r) == [runner[r].cred EXCEPT !.spent = @ + Owed(r) + Owed(r)]
MutantFreshEntry(r) == [NoEntry EXCEPT !.spent = runner[r].cred.spent + Owed(r)]
Charged(r) == [runner[r].cred EXCEPT !.spent = @ + Owed(r)]

PutCredits(r) ==
  /\ runner[r].pc = "put"
  /\ Put(runner[r].customer, Charged(r))
  /\ billed' = [billed EXCEPT ![runner[r].customer] = @ + Owed(r)]
  /\ Runner(r, [runner[r] EXCEPT !.pc = "get", !.due = @ \ {runner[r].customer}])
  /\ UNCHANGED <<deployed, api, bids, opened, crowded, rounds, stops, faults>>

(***************************************************************************)
(* A failing Put ends the loop, the others are not billed.                 *)
(***************************************************************************)
PutCreditsFails(r) ==
  /\ Fault
  /\ runner[r].pc = "put"
  /\ Runner(r, [Idle EXCEPT !.pc = "get"])
  /\ UNCHANGED <<credits, deployed, api, bids, billed, opened, crowded, rounds, stops>>

EndAuction(r) ==
  /\ runner[r].pc = "get"
  /\ runner[r].due = {}
  /\ Runner(r, Idle)
  /\ bids' = {}
  /\ UNCHANGED <<credits, deployed, api, billed, opened, crowded, rounds, stops, faults>>

ClearFails(r) ==
  /\ Fault
  /\ runner[r].pc = "get"
  /\ runner[r].due = {}
  /\ Runner(r, Idle)
  /\ UNCHANGED <<credits, deployed, api, bids, billed, opened, crowded, rounds, stops>>

-----------------------------------------------------------------------------
(***************************************************************************)
(* A new scenario is loaded in the config map; a pod reads it when it      *)
(* starts.  A pod may start while another runs, and stop at any point.     *)
(***************************************************************************)
LoadScenario ==
  /\ deployed < Len(Scenarios)
  /\ deployed' = deployed + 1
  /\ UNCHANGED <<credits, api, bids, runner, billed, opened, crowded, rounds, stops, faults>>

StartApi(p) ==
  /\ api[p].pc = "stopped"
  /\ Api(p, Starting(deployed))
  /\ crowded' = (crowded \/ \E q \in ApiPods : api[q].pc \in {"init", "put"})
  /\ UNCHANGED <<credits, deployed, bids, runner, billed, opened, rounds, stops, faults>>

StopApi(p) ==
  /\ api[p].pc # "stopped"
  /\ stops < MaxStops /\ stops' = stops + 1
  /\ Api(p, NoApi)
  /\ UNCHANGED <<credits, deployed, bids, runner, billed, opened, crowded, rounds, faults>>

StartRunner(r) ==
  /\ runner[r].pc = "stopped"
  /\ Runner(r, Idle)
  /\ UNCHANGED <<credits, deployed, api, bids, billed, opened, crowded, rounds, stops, faults>>

StopRunner(r) ==
  /\ runner[r].pc # "stopped"
  /\ stops < MaxStops /\ stops' = stops + 1
  /\ Runner(r, NoRunner)
  /\ UNCHANGED <<credits, deployed, api, bids, billed, opened, crowded, rounds, faults>>

ApiPod(p) ==
  \/ GetEntry(p) \/ GetEntryFails(p) \/ CreateEntry(p) \/ CreateEntryFails(p) \/ Listen(p)
  \/ StartApi(p) \/ StopApi(p)
  \/ \E c \in Customers : PostBid(p, c)

RunnerPod(r) ==
  \/ RunAuction(r) \/ PutCredits(r) \/ PutCreditsFails(r) \/ EndAuction(r) \/ ClearFails(r)
  \/ StartRunner(r) \/ StopRunner(r)
  \/ \E c \in Customers : GetCredits(r, c) \/ GetCreditsFails(r, c)

Next ==
  \/ \E p \in ApiPods : ApiPod(p)
  \/ \E r \in RunnerPods : RunnerPod(r)
  \/ LoadScenario

Spec == Init /\ [][Next]_vars

-----------------------------------------------------------------------------
(***************************************************************************)
(* Type invariant.                                                         *)
(***************************************************************************)
ApiState ==
  [pc : {"init", "put", "serving", "stopped"}, scenario : DOMAIN Scenarios,
   toInit : Seq([id : Customers, balance : Nat])]
RunnerState ==
  [pc : {"idle", "get", "put", "stopped"}, customer : Customers \cup {"none"}, cred : Entry,
   due : SUBSET Customers, owes : [Customers -> Nat]]

TypeOK ==
  /\ DOMAIN credits \subseteq Customers /\ credits \in [DOMAIN credits -> Entry]
  /\ deployed \in DOMAIN Scenarios
  /\ api \in [ApiPods -> ApiState]
  /\ bids \subseteq Customers
  /\ runner \in [RunnerPods -> RunnerState]
  /\ \A r \in RunnerPods : runner[r].pc = "put" => runner[r].customer \in runner[r].due
  /\ billed \in [Customers -> Nat] /\ opened \in [Customers -> Nat]
  /\ crowded \in BOOLEAN
  /\ rounds \in 0..MaxRounds /\ stops \in 0..MaxStops /\ faults \in 0..MaxFaults

(***************************************************************************)
(* Whatever fails, stops and overlaps, a customer's total_spent never      *)
(* shows more than it was billed for.                                      *)
(***************************************************************************)
NeverInflated == \A c \in DOMAIN credits : credits[c].spent <= billed[c]

(***************************************************************************)
(* As long as no call has failed and no two pods of a kind have been in    *)
(* their start-up loops or in auctions at once, the entries are exact      *)
(* although nothing excludes the API and the runner, or a pod that starts  *)
(* and one that still serves, from each other: every bill is in            *)
(* total_spent, and the balance is the one the entry was created with, so  *)
(* no Put ever undid another's.                                            *)
(***************************************************************************)
Calm == faults = 0 /\ ~crowded

EntriesExact ==
  \A c \in Customers :
    IF c \in DOMAIN credits
    THEN credits[c] = [spent |-> billed[c], balance |-> opened[c]]
    ELSE billed[c] = 0

Exact == Calm => EntriesExact

(***************************************************************************)
(* "Ensure every customer from the scenario has a credits entry ... from   *)
(* the start" (api/main.go): an API that serves shows every customer of    *)
(* the scenario it has loaded, and whoever has a bid in, or is about to be *)
(* billed, has its entry.  Whatever fails, stops and overlaps, and         *)
(* whichever scenario the bid was accepted under, the runner never makes   *)
(* up an entry for a customer without one, which would show no budget.     *)
(***************************************************************************)
EntriesFromTheStart ==
  /\ \A p \in ApiPods :
       api[p].pc = "serving" => InAuctionOf(api[p].scenario) \subseteq DOMAIN credits
  /\ bids \cup UNION {runner[r].due : r \in RunnerPods} \subseteq DOMAIN credits

(***************************************************************************)
(* "total_spent is never overwritten on redeploy" (api/atomix.go, above    *)
(* InitCustomerIfMissing): no step of the API changes what is shown as     *)
(* spent.                                                                  *)
(***************************************************************************)
NeverOverwritten ==
  [][api' # api => \A c \in DOMAIN credits : credits'[c].spent = credits[c].spent]_vars

(***************************************************************************)
(* "Existing entries are left unchanged" (the same line): the API changes  *)
(* nothing of an entry as long as no call has failed and no two pods have  *)
(* been in their start-up loops at once, whatever the runner writes        *)
(* between the Get and the Put of InitCustomerIfMissing, and whoever still *)
(* serves.                                                                 *)
(***************************************************************************)
EntriesKept == api' # api => \A c \in DOMAIN credits : credits'[c] = credits[c]

KeptWithoutFaults == [][Calm' => EntriesKept]_vars
=============================================================================
