------------------------------ MODULE Gateway ------------------------------
(***************************************************************************)
(* The API gateway as one process (api/server.go, api/atomix.go): handlers *)
(* that store bids, and scrapes of /metrics, which any number of clients   *)
(* may ask for at once on two ports.  They share the Go map of the handles *)
(* of bid maps, which no lock protects, and the Prometheus gauges.         *)
(*                                                                         *)
(* The auction runner and the telemetry processor are the environment: the *)
(* runner writes credits, utility and history in that order, then clears   *)
(* the bids.  An account stands for the last round it includes, a flow for *)
(* its last report: 0 is also what a gauge never set shows.                *)
(***************************************************************************)
EXTENDS Scenario, FiniteSets, FiniteSetsExt

CONSTANTS
  Handlers,        \* goroutines that may serve a POST at once
  Scrapers,        \* clients of /metrics
  Requests,        \* bids posted: [customer, ingress, egress, units, price],
                   \*   where customer "" is a request without a customer header
  Wide,            \* 2^32 in the code: ports are 64 bits in a bid
  Outcomes,        \* what rounds allocate: units for some ingress ports
  MeteredFlows     \* the flows telemetry reports

ASSUME WideAssumption == Wide \in Nat \ {0}
ASSUME RequestAssumption ==
  \A r \in Requests : /\ r.ingress \in Nat /\ r.egress \in Nat
                      /\ r.units \in Nat /\ r.price \in Int

VARIABLES
  left,       \* bounds, chosen at first: [posts, rounds, reports, faults, failed,
              \*   scrapers]: what is left of each, the failures so far, the scrapers at work
  handler,    \* where each handler is: [pc, request, answer]
  maps,       \* AtomixBidStore.maps: the egress ports with a handle
  bids,       \* the bids-<port> maps: for each port, what each ingress key holds
  accepted,   \* history: the requests answered 202 since their port was last cleared
  round,      \* where the runner is: [pc, port, won, interval, number]
  store,      \* throughput-map, credits-map and utility-map
  history,    \* auction-history
  scrape,     \* where each scrape is: [pc, todo, read, latest, alone]
  gauge,      \* flow, credits and utility gauges
  shown,      \* the clearing price gauge of each port: the round it is of
  won,        \* the allocation gauges: for each port, units for some customers
  deaths      \* how often the process has died

gatewayVars ==
  <<left, handler, maps, bids, accepted, round, store, history, scrape, gauge, shown, won, deaths>>

-----------------------------------------------------------------------------
Truncated(port) == port % Wide
Ports == Range(scene.switches[1].egress)
Bound(field) == left[field] > 0 /\ left' = [left EXCEPT ![field] = @ - 1]
Fails == left.faults > 0 /\ left' = [left EXCEPT !.faults = @ - 1, !.failed = @ + 1]

Metered(kind) == IF kind = "flows" THEN MeteredFlows ELSE Agents(scene)
Kinds == {"flows", "credits", "utility"}
Nothing == [kind \in Kinds |-> [key \in Metered(kind) |-> 0]]

IdleHandler == [pc |-> "idle", request |-> <<>>, answer |-> 0]
IdleScrape == [pc |-> "idle", todo |-> {}, read |-> <<>>, latest |-> {}, alone |-> FALSE]
NoRound == [pc |-> "idle", port |-> 0, won |-> <<>>, interval |-> 0, number |-> 0]

GatewayInit(bounds) ==
  /\ left = bounds
  /\ handler = [h \in Handlers |-> IdleHandler]
  /\ maps = {}
  /\ bids = [p \in {Truncated(r.egress) : r \in Requests} \cup Ports |-> <<>>]
  /\ accepted = {}
  /\ round = NoRound
  /\ store = Nothing
  /\ history = {}
  /\ scrape = [w \in Scrapers |-> IdleScrape]
  /\ gauge = Nothing
  /\ shown = [p \in Ports |-> 0]
  /\ won = [p \in Ports |-> <<>>]
  /\ deaths = 0

-----------------------------------------------------------------------------
(***************************************************************************)
(* POST /bids up to the store: the status of a refusal, or 0.  Ownership   *)
(* is that of the port modulo Wide, on the first switch.                   *)
(***************************************************************************)
MutantAnyPort(r) == r.customer \in Agents(scene)
Owned(r) ==
  \/ scene.switches = <<>>
  \/ scene.switches[1].id = ""
  \/ CustomerForIngressPort(scene, scene.switches[1].id, Truncated(r.ingress)) = r.customer

Anonymous(r) == r.customer = ""
Positive(r) == r.units > 0 /\ r.price > 0

Refusal(r) ==
  CASE Anonymous(r)                                 -> 401
    [] ~Anonymous(r) /\ ~Positive(r)                -> 400
    [] ~Anonymous(r) /\ Positive(r) /\ ~Owned(r)    -> 403
    [] OTHER                                        -> 0

At(h, pc) == handler[h].pc = pc
Goto(h, pc) == handler' = [handler EXCEPT ![h].pc = pc]
Answer(h, status) ==
  handler' = [handler EXCEPT ![h] = [pc |-> "idle", request |-> @.request, answer |-> status]]

AsideBids ==
  UNCHANGED <<scene, round, store, history, scrape, gauge, shown, won, deaths>>

Receive(h, r) ==
  /\ At(h, "idle")
  /\ Bound("posts")
  /\ handler' = [handler EXCEPT ![h] =
       [pc |-> IF Refusal(r) = 0 THEN "lookup" ELSE "idle", request |-> r, answer |-> Refusal(r)]]
  /\ UNCHANGED <<maps, bids, accepted>>
  /\ AsideBids

(***************************************************************************)
(* getOrCreateMap.  A handler at "assign" is writing the Go map: another   *)
(* that reads or writes it meanwhile may see it or not, may undo it, or    *)
(* has the Go runtime stop the process (Race).                             *)
(***************************************************************************)
Egress(h) == Truncated(handler[h].request.egress)
Writing(h) == At(h, "assign")

Lookup(h) ==
  /\ At(h, "lookup")
  /\ \/ Egress(h) \in maps /\ Goto(h, "put")
     \/ Egress(h) \notin maps /\ Goto(h, "create")
     \/ Egress(h) \notin maps /\ Goto(h, "put")
        /\ \E k \in Handlers : Writing(k) /\ Egress(k) = Egress(h)
  /\ UNCHANGED <<left, maps, bids, accepted>>
  /\ AsideBids

Create(h) ==
  /\ At(h, "create")
  /\ Goto(h, "assign")
  /\ UNCHANGED <<left, maps, bids, accepted>>
  /\ AsideBids

CreateFails(h) ==
  /\ At(h, "create")
  /\ Fails
  /\ Answer(h, 500)
  /\ UNCHANGED <<maps, bids, accepted>>
  /\ AsideBids

Assign(h) ==
  /\ Writing(h)
  /\ \/ maps' = maps \cup {Egress(h)}
     \/ maps' = maps /\ \E k \in Handlers \ {h} : Writing(k)
  /\ Goto(h, "put")
  /\ UNCHANGED <<left, bids, accepted>>
  /\ AsideBids

(***************************************************************************)
(* Put, keyed by the port with all its bits, and the 202: between the two  *)
(* the handler only counts and logs.  A Put that fails may have stored the *)
(* bid.                                                                    *)
(***************************************************************************)
Stored(r) ==
  bids' = [bids EXCEPT ![Truncated(r.egress)] =
    [key \in DOMAIN @ \cup {r.ingress} |->
       IF key = r.ingress THEN [units |-> r.units, price |-> r.price, customer |-> r.customer]
       ELSE @[key]]]

Acknowledged(h) ==
  /\ Answer(h, 202)
  /\ accepted' = accepted \cup {handler[h].request}

Put(h) ==
  /\ At(h, "put")
  /\ Stored(handler[h].request)
  /\ Acknowledged(h)
  /\ UNCHANGED <<left, maps>>
  /\ AsideBids

PutFails(h) ==
  /\ At(h, "put")
  /\ Fails
  /\ Stored(handler[h].request) \/ UNCHANGED bids
  /\ Answer(h, 500)
  /\ UNCHANGED <<maps, accepted>>
  /\ AsideBids

-----------------------------------------------------------------------------
(***************************************************************************)
(* The process dies, by a race on the Go map or otherwise, and starts      *)
(* again with no handles and no gauges.                                    *)
(***************************************************************************)
MutantBidsInMemory ==  \* the maps hold the bids themselves
  /\ handler' = [h \in Handlers |-> IdleHandler]
  /\ maps' = {}
  /\ bids' = [p \in DOMAIN bids |-> <<>>]
  /\ scrape' = [w \in Scrapers |-> IdleScrape]
  /\ gauge' = Nothing
  /\ shown' = [p \in Ports |-> 0]
  /\ won' = [p \in Ports |-> <<>>]
  /\ deaths' = deaths + 1
  /\ UNCHANGED <<scene, accepted, round, store, history>>

Dies ==
  /\ handler' = [h \in Handlers |-> IdleHandler]
  /\ maps' = {}
  /\ scrape' = [w \in Scrapers |-> IdleScrape]
  /\ gauge' = Nothing
  /\ shown' = [p \in Ports |-> 0]
  /\ won' = [p \in Ports |-> <<>>]
  /\ deaths' = deaths + 1
  /\ UNCHANGED <<scene, bids, accepted, round, store, history>>

Race ==
  /\ \E h, k \in Handlers : h # k /\ Writing(h) /\ (At(k, "lookup") \/ Writing(k))
  /\ Dies
  /\ UNCHANGED left

Crash == Fails /\ Dies

-----------------------------------------------------------------------------
(***************************************************************************)
(* The runner: a round settles the accounts of who is allocated anything,  *)
(* stores its record under its interval and port, and clears the bids of   *)
(* the port.  AuctionRunner models it in full, with its failures.  The     *)
(* customer stored with a bid is the owner of its port (OwnPortsOnly).     *)
(***************************************************************************)
AsideRounds == UNCHANGED <<scene, handler, maps, scrape, gauge, shown, won, deaths>>

Winner(port) == CustomerForIngressPort(scene, scene.switches[1].id, Truncated(port))
Winners(alloc) == {Winner(q) : q \in {r \in DOMAIN alloc : alloc[r] > 0}} \ {""}

Round(p, alloc, interval) ==
  /\ round.pc = "idle"
  /\ Bound("rounds")
  /\ round' = [pc |-> "credits", port |-> p, won |-> alloc, interval |-> interval,
               number |-> round.number + 1]
  /\ UNCHANGED <<bids, accepted, store, history>>
  /\ AsideRounds

Settle(kind, next) ==
  /\ round.pc = kind
  /\ store' = [store EXCEPT ![kind] =
       [c \in DOMAIN @ |-> IF c \in Winners(round.won) THEN round.number ELSE @[c]]]
  /\ round' = [round EXCEPT !.pc = next]
  /\ UNCHANGED <<left, bids, accepted, history>>
  /\ AsideRounds

StoreHistory ==
  /\ round.pc = "history"
  /\ history' =
       {r \in history : <<r.interval, r.port>> # <<round.interval, round.port>>} \cup
       {[interval |-> round.interval, port |-> round.port, number |-> round.number,
         won |-> round.won]}
  /\ round' = [round EXCEPT !.pc = "clear"]
  /\ UNCHANGED <<left, bids, accepted, store>>
  /\ AsideRounds

ClearBids ==
  /\ round.pc = "clear"
  /\ accepted' = {r \in accepted : Truncated(r.egress) # round.port}
  /\ bids' = [bids EXCEPT ![round.port] = <<>>]
  /\ round' = [round EXCEPT !.pc = "idle"]
  /\ UNCHANGED <<left, store, history>>
  /\ AsideRounds

Telemetry(flow) ==
  /\ Bound("reports")
  /\ store' = [store EXCEPT !["flows"][flow] = @ + 1]
  /\ UNCHANGED <<bids, accepted, round, history>>
  /\ AsideRounds

Runner == Settle("credits", "utility") \/ Settle("utility", "history") \/ StoreHistory \/ ClearBids

Environment == Runner \/ \E f \in MeteredFlows : Telemetry(f)

-----------------------------------------------------------------------------
(***************************************************************************)
(* GET /metrics: the sections of getMetrics one after the other, each      *)
(* with a List and then, for each key, a Get.  A List that fails leaves    *)
(* the section out.                                                        *)
(***************************************************************************)
AsideScrapes == UNCHANGED <<scene, handler, maps, bids, accepted, round, store, history, deaths>>

MutantUtilityFirst(section) ==  \* refreshUtilityMetrics before refreshAuctionMetrics
  CASE section = "begin" -> "flows" [] section = "flows" -> "credits"
    [] section = "credits" -> "utility" [] section = "utility" -> "history"
    [] section = "history" -> "serve"
After(section) ==
  CASE section = "begin" -> "flows" [] section = "flows" -> "credits"
    [] section = "credits" -> "history" [] section = "history" -> "utility"
    [] section = "utility" -> "serve"

Active(w) == scrape[w].pc # "idle"
Records(keys) == {r \in history : <<r.interval, r.port>> \in keys}
Listed(section) ==
  CASE section \in Kinds   -> DOMAIN store[section]
    [] section = "history" -> {<<r.interval, r.port>> : r \in history}
    [] OTHER               -> {}

Enter(w, section, alone) ==
  scrape' = [v \in Scrapers |->
    IF v = w THEN [pc |-> section, todo |-> Listed(section), read |-> <<>>, latest |-> {},
                   alone |-> alone]
    ELSE [scrape[v] EXCEPT !.alone = @ /\ Active(w)]]

Begin(w) ==
  /\ w \in left.scrapers
  /\ ~Active(w)
  /\ Enter(w, "begin", \A v \in Scrapers : ~Active(v))
  /\ UNCHANGED <<left, gauge, shown, won>>
  /\ AsideScrapes

MayLeave(w) ==
  /\ Active(w) /\ scrape[w].pc # "serve"
  /\ scrape[w].todo = {} /\ scrape[w].read = <<>> /\ scrape[w].latest = {}

NextSection(w) ==
  /\ MayLeave(w)
  /\ Enter(w, After(scrape[w].pc), scrape[w].alone)
  /\ UNCHANGED <<left, gauge, shown, won>>
  /\ AsideScrapes

ListFails(w) ==
  /\ MayLeave(w) /\ After(scrape[w].pc) # "serve"
  /\ Fails
  /\ scrape' = [scrape EXCEPT ![w].pc = After(scrape[w].pc)]
  /\ UNCHANGED <<gauge, shown, won>>
  /\ AsideScrapes

(***************************************************************************)
(* refreshMetrics, refreshCreditsMetrics, refreshUtilityMetrics: a Get     *)
(* that fails is taken for an entry of zero.                               *)
(***************************************************************************)
ReadAs(w, key, value) ==
  /\ scrape[w].read = <<>>
  /\ scrape' = [scrape EXCEPT ![w].todo = @ \ {key}, ![w].read = <<key, value>>]
  /\ UNCHANGED <<gauge, shown, won>>
  /\ AsideScrapes

GetEntry(w, key)      == ReadAs(w, key, store[scrape[w].pc][key]) /\ UNCHANGED left
GetEntryFails(w, key) == Fails /\ ReadAs(w, key, 0)

SetGauge(w) ==
  /\ scrape[w].pc \in Kinds /\ scrape[w].read # <<>>
  /\ gauge' = [gauge EXCEPT ![scrape[w].pc][scrape[w].read[1]] = scrape[w].read[2]]
  /\ scrape' = [scrape EXCEPT ![w].read = <<>>]
  /\ UNCHANGED <<left, shown, won>>
  /\ AsideScrapes

(***************************************************************************)
(* refreshAuctionMetrics: the latest record of each port, by interval; a   *)
(* record that cannot be read is passed over.                              *)
(***************************************************************************)
MutantLastRead(r, latest) == {r} \cup {q \in latest : q.port # r.port}
Newest(r, latest) ==
  IF \E q \in latest : q.port = r.port /\ q.interval >= r.interval
  THEN latest
  ELSE {r} \cup {q \in latest : q.port # r.port}

Passed(w, key, latest) ==
  /\ scrape' = [scrape EXCEPT ![w].todo = @ \ {key}, ![w].latest = latest]
  /\ UNCHANGED <<gauge, shown, won>>
  /\ AsideScrapes

GetRecord(w, key) ==
  /\ \E r \in Records({key}) : Passed(w, key, Newest(r, scrape[w].latest))
  /\ UNCHANGED left
GetRecordFails(w, key) == Fails /\ Passed(w, key, scrape[w].latest)

(***************************************************************************)
(* The gauges of the ports read.  Those of customers with nothing in the   *)
(* record are left as they are.                                            *)
(***************************************************************************)
OwnPorts(alloc, c) == {q \in DOMAIN alloc : alloc[q] > 0 /\ Winner(q) = c}
MutantOnePort(alloc, c) == alloc[CHOOSE q \in OwnPorts(alloc, c) : TRUE]
Total(alloc, c) == SumFunctionOnSet(alloc, OwnPorts(alloc, c))

SetRecord(w, r) ==
  /\ scrape[w].pc = "history"
  /\ scrape[w].todo = {}
  /\ r \in scrape[w].latest
  /\ shown' = [shown EXCEPT ![r.port] = r.number]
  /\ won' = [won EXCEPT ![r.port] =
       [c \in DOMAIN @ \cup Winners(r.won) |->
          IF c \in Winners(r.won) THEN Total(r.won, c) ELSE @[c]]]
  /\ scrape' = [scrape EXCEPT ![w].latest = scrape[w].latest \ {r}]
  /\ UNCHANGED <<left, gauge>>
  /\ AsideScrapes

(***************************************************************************)
(* The gauges are written into the answer.                                 *)
(***************************************************************************)
Serve(w) ==
  /\ scrape[w].pc = "serve"
  /\ scrape' = [scrape EXCEPT ![w] = IdleScrape]
  /\ UNCHANGED <<left, gauge, shown, won>>
  /\ AsideScrapes

-----------------------------------------------------------------------------
Handle(h) == Lookup(h) \/ Create(h) \/ Assign(h) \/ Put(h)

Scrape(w) ==
  \/ Begin(w) \/ NextSection(w) \/ SetGauge(w) \/ Serve(w)
  \/ scrape[w].pc \in Kinds /\ \E key \in scrape[w].todo : GetEntry(w, key)
  \/ scrape[w].pc = "history" /\ \E key \in scrape[w].todo : GetRecord(w, key)
  \/ \E r \in scrape[w].latest : SetRecord(w, r)

Failure ==
  \/ \E h \in Handlers : CreateFails(h) \/ PutFails(h)
  \/ \E w \in Scrapers :
       \/ ListFails(w)
       \/ scrape[w].pc \in Kinds /\ \E key \in scrape[w].todo : GetEntryFails(w, key)
       \/ scrape[w].pc = "history" /\ \E key \in scrape[w].todo : GetRecordFails(w, key)
  \/ Race \/ Crash

GatewayFairness ==
  /\ \A h \in Handlers : WF_gatewayVars(Handle(h))
  /\ \A w \in Scrapers : WF_gatewayVars(Scrape(w))
  /\ WF_gatewayVars(Runner)

GatewayNext ==  \* but for Round, in which the runner publishes its results too
  \/ \E h \in Handlers : Handle(h) \/ (\E r \in Requests : Receive(h, r))
  \/ \E w \in Scrapers : Scrape(w)
  \/ Environment
  \/ Failure

-----------------------------------------------------------------------------
(***************************************************************************)
(* Type invariant.                                                         *)
(***************************************************************************)
GatewayTypeOK ==
  /\ \A h \in Handlers :
       /\ handler[h].pc \in {"idle", "lookup", "create", "assign", "put"}
       /\ handler[h].answer \in {0, 202, 400, 401, 403, 500}
       /\ ~At(h, "idle") => handler[h].request \in Requests
  /\ maps \subseteq DOMAIN bids
  /\ round.pc \in {"idle", "credits", "utility", "history", "clear"}
  /\ \A kind \in Kinds : \A key \in Metered(kind) : gauge[kind][key] \in 0..store[kind][key]
  /\ \A w \in Scrapers : scrape[w].pc \in {"idle", "begin", "history", "serve"} \cup Kinds
  /\ \A p \in Ports : shown[p] \in 0..round.number /\ DOMAIN won[p] \subseteq Agents(scene)

(***************************************************************************)
(* Whichever port a bid names, and however many bits it has: the port the  *)
(* runner publishes for it, which is the port modulo Wide, is one of the   *)
(* customer who pays for it.                                               *)
(***************************************************************************)
OwnPortsOnly ==
  \A p \in DOMAIN bids : \A key \in DOMAIN bids[p] :
    <<scene.switches[1].id, Truncated(key)>> \in AgentPorts(scene, bids[p][key].customer)

(***************************************************************************)
(* "every ingress port is assigned to exactly one customer" (customer.go): *)
(* no bid of an agent is refused for its owner.  Whatever file has been    *)
(* accepted, the gateway takes the port of the first switch for that of    *)
(* the customer whose agent bids for it.                                   *)
(***************************************************************************)
OwnersAreServed ==
  \A h \in Handlers :
    handler[h].answer = 403 =>
      <<scene.switches[1].id, Truncated(handler[h].request.ingress)>>
        \notin AgentPorts(scene, handler[h].request.customer)

(***************************************************************************)
(* A bid answered 202 is in the map of its port, or another of the same    *)
(* customer in its place, until the runner clears the map: whatever        *)
(* handlers race on the Go map, whatever calls fail meanwhile, and however *)
(* often the process dies after it.                                        *)
(***************************************************************************)
AcceptedIsKept ==
  \A r \in accepted :
    /\ r.ingress \in DOMAIN bids[Truncated(r.egress)]
    /\ bids[Truncated(r.egress)][r.ingress].customer = r.customer

(***************************************************************************)
(* What a scrape answers that no other scrape overlaps and no failure      *)
(* disturbs agrees with itself: for a round whose price is shown, the      *)
(* utility of its winners includes it (the runner writes the utility       *)
(* before the history, and the scrape reads them the other way round).     *)
(***************************************************************************)
UtilityCoversPrices ==
  \A w \in Scrapers, p \in Ports :
    scrape[w].pc = "serve" /\ scrape[w].alone /\ left.failed = 0 =>
      \A r \in history : r.port = p /\ r.number = shown[p] =>
        \A c \in Winners(r.won) : gauge["utility"][c] >= r.number

(***************************************************************************)
(* As long as scrapes do not overlap, nothing fails and the process lives, *)
(* no gauge goes back: neither the totals nor the round that is shown.     *)
(***************************************************************************)
Undisturbed == left.failed = 0 /\ \A w \in Scrapers : Active(w) => scrape[w].alone

ShownAdvances ==
  [][Undisturbed /\ Undisturbed' /\ deaths' = deaths =>
       /\ \A p \in Ports : shown'[p] >= shown[p]
       /\ \A kind \in Kinds : \A key \in Metered(kind) : gauge'[kind][key] >= gauge[kind][key]
    ]_gatewayVars

(***************************************************************************)
(* Overlapping scrapes, failed calls and restarts leave no trace: once the *)
(* rounds are over, scrapes show the last round of each port, what each of *)
(* its winners won in it over all its ports, and the accounts as they are. *)
(***************************************************************************)
LastRecord(p) == {r \in history : r.port = p /\ \A q \in history : q.port = p => q.interval <= r.interval}

Units(r, c) ==
  SumFunctionOnSet(r.won,
                   {q \in DOMAIN r.won :
                      <<scene.switches[1].id, Truncated(q)>> \in AgentPorts(scene, c)})

ShowsTheLastRound ==
  <>[](left.scrapers # {} =>
         /\ gauge = store
         /\ \A p \in Ports : \A r \in LastRecord(p) :
              /\ shown[p] = r.number
              /\ \A c \in Winners(r.won) : c \in DOMAIN won[p] /\ won[p][c] = Units(r, c))
=============================================================================
