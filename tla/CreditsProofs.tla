--------------------------- MODULE CreditsProofs ---------------------------
(***************************************************************************)
(* Proofs about the writers of the credits map, for any customers,         *)
(* succession of scenarios, amounts, and number of pods that start, stop   *)
(* and overlap.                                                            *)
(***************************************************************************)
EXTENDS Credits, SequenceTheorems, TLAPS

(***************************************************************************)
(* Whatever fails.  What a runner holds between Get and Put is no more     *)
(* than what has been billed.  A customer of a scenario an API pod has     *)
(* loaded has its entry, or the pod has still to visit it; so whoever may  *)
(* bid through a pod that serves has its entry, and entries are never      *)
(* removed.                                                                *)
(***************************************************************************)
HeldBacked ==
  \A r \in RunnerPods : runner[r].pc = "put" => runner[r].cred.spent <= billed[runner[r].customer]
ToInit == \A p \in ApiPods : api[p].pc = "put" => api[p].toInit # <<>>

ToVisit(a) == {a.toInit[k].id : k \in 1..Len(a.toInit)}
CreatedBy(a) ==
  a.pc # "stopped" =>
    \A c \in InAuctionOf(a.scenario) :
      c \in DOMAIN credits \/ (a.pc \in {"init", "put"} /\ c \in ToVisit(a))
Created == \A p \in ApiPods : CreatedBy(api[p])

Billable == \A r \in RunnerPods : runner[r].due \subseteq DOMAIN credits
KnownBidders == bids \subseteq DOMAIN credits

FInv ==
  TypeOK /\ ToInit /\ NeverInflated /\ HeldBacked /\ Created /\ Billable /\ KnownBidders

LEMMA IdleType == Idle \in RunnerState /\ NoRunner \in RunnerState
  BY DEF Idle, NoRunner, NoEntry, Entry, RunnerState

LEMMA StartingType ==
  ASSUME NEW s \in DOMAIN Scenarios
  PROVE  Starting(s) \in ApiState /\ CreatedBy(Starting(s))
<1>1. Scenarios[s] \in Seq([id : Customers, balance : Nat])
  BY ScenarioAssumption, ElementOfSeq
<1> QED
  BY <1>1, LenProperties DEF Starting, ApiState, CreatedBy, InAuctionOf, ToVisit

LEMMA NoApiType == NoApi \in ApiState
<1>1. 1 \in DOMAIN Scenarios
  BY ScenarioAssumption, LenProperties
<1> QED
  BY <1>1 DEF NoApi, ApiState

LEMMA VisitedType ==
  ASSUME NEW p \in ApiPods, api[p] \in ApiState, api[p].toInit # <<>>
  PROVE  /\ Visited(p) \in ApiState
         /\ Visited(p).pc = "init" /\ Visited(p).scenario = api[p].scenario
         /\ Visited(p).toInit = Tail(api[p].toInit)
         /\ Current(p) \in [id : Customers, balance : Nat]
<1>1. api[p].toInit \in Seq([id : Customers, balance : Nat])
  BY DEF ApiState
<1>2. /\ Tail(api[p].toInit) \in Seq([id : Customers, balance : Nat])
      /\ Head(api[p].toInit) \in [id : Customers, balance : Nat]
  BY <1>1, HeadTailProperties
<1> QED
  BY <1>2 DEF Visited, Current, ApiState

(***************************************************************************)
(* Writing an entry of the map.                                            *)
(***************************************************************************)
LEMMA PutType ==
  ASSUME NEW c \in Customers, NEW entry \in Entry, Put(c, entry),
         DOMAIN credits \subseteq Customers, credits \in [DOMAIN credits -> Entry]
  PROVE  /\ DOMAIN credits' = DOMAIN credits \cup {c}
         /\ DOMAIN credits' \subseteq Customers /\ credits' \in [DOMAIN credits' -> Entry]
         /\ credits'[c] = entry
         /\ \A d \in DOMAIN credits : d # c => credits'[d] = credits[d]
  BY DEF Put

LEMMA ChargedType ==
  ASSUME TypeOK, NEW r \in RunnerPods, runner[r].pc = "put"
  PROVE  /\ runner[r].customer \in Customers
         /\ Owed(r) \in Nat
         /\ Charged(r) \in Entry
         /\ Charged(r).spent = runner[r].cred.spent + Owed(r)
         /\ Charged(r).balance = runner[r].cred.balance
         /\ runner[r].cred.spent \in Nat
<1>1. /\ runner[r].customer \in Customers /\ runner[r].owes \in [Customers -> Nat]
      /\ runner[r].cred \in Entry
  BY DEF TypeOK, RunnerState
<1>2. Owed(r) \in Nat
  BY <1>1 DEF Owed
<1> QED
  BY <1>1, <1>2 DEF Charged, Entry

LEMMA FInvInit == Init => FInv
<1> SUFFICES ASSUME Init PROVE FInv
  OBVIOUS
<1>1. 1 \in DOMAIN Scenarios
  BY ScenarioAssumption, LenProperties
<1>2. PICK p \in ApiPods : api = [q \in ApiPods |-> IF q = p THEN Starting(1) ELSE NoApi]
  BY DEF Init
<1>3. PICK r \in RunnerPods : runner = [q \in RunnerPods |-> IF q = r THEN Idle ELSE NoRunner]
  BY DEF Init
<1>4. api \in [ApiPods -> ApiState] /\ ToInit /\ Created
  <2>1. \A q \in ApiPods : api[q].pc # "put" /\ (api[q] = Starting(1) \/ api[q].pc = "stopped")
    BY <1>2 DEF Starting, NoApi
  <2> QED
    BY <1>1, <1>2, <2>1, StartingType, NoApiType DEF ToInit, Created, CreatedBy
<1>5. /\ runner \in [RunnerPods -> RunnerState]
      /\ \A q \in RunnerPods : runner[q].pc # "put" /\ runner[q].due = {}
  BY <1>3, IdleType DEF Idle, NoRunner
<1>6. DOMAIN credits = {} /\ credits \in [DOMAIN credits -> Entry]
  BY DEF Init
<1>7. TypeOK
  <2>1. /\ deployed = 1 /\ bids = {} /\ crowded \in BOOLEAN /\ rounds = 0 /\ stops = 0 /\ faults = 0
        /\ billed \in [Customers -> Nat] /\ opened \in [Customers -> Nat]
    BY DEF Init
  <2> QED
    BY <1>1, <1>4, <1>5, <1>6, <2>1, LimitAssumption DEF TypeOK
<1> QED
  BY <1>4, <1>5, <1>6, <1>7 DEF Init, FInv, NeverInflated, HeldBacked, Billable, KnownBidders

-----------------------------------------------------------------------------
(***************************************************************************)
(* A step of one API pod that leaves the map alone.                        *)
(***************************************************************************)
LEMMA ApiFrame ==
  ASSUME FInv, NEW p \in ApiPods, NEW a \in ApiState, Api(p, a), CreatedBy(a),
         a.pc = "put" => a.toInit # <<>>,
         UNCHANGED <<credits, deployed, bids, runner, billed, opened, rounds>>,
         crowded' \in BOOLEAN, faults' \in 0..MaxFaults, stops' \in 0..MaxStops
  PROVE  FInv'
<1>1. /\ api' \in [ApiPods -> ApiState] /\ api'[p] = a
      /\ \A q \in ApiPods : q # p => api'[q] = api[q]
  BY DEF Api, FInv, TypeOK
<1>2. Created'
  <2> SUFFICES ASSUME NEW q \in ApiPods PROVE CreatedBy(api[q])'
    BY DEF Created
  <2> QED
    BY <1>1 DEF FInv, Created, CreatedBy, ToVisit
<1>3. ToInit'
  BY <1>1 DEF FInv, ToInit
<1> QED
  BY <1>1, <1>2, <1>3 DEF FInv, TypeOK, NeverInflated, HeldBacked, Billable, KnownBidders

(***************************************************************************)
(* Going on to the next customer of the scenario.                          *)
(***************************************************************************)
LEMMA VisitedCreated ==
  ASSUME NEW p \in ApiPods, api[p] \in ApiState, api[p].toInit # <<>>, CreatedBy(api[p]),
         api[p].pc # "stopped",
         NEW c \in InAuctionOf(api[p].scenario),
         c \notin DOMAIN credits, c # Current(p).id
  PROVE  c \in ToVisit(Visited(p))
<1>1. api[p].toInit \in Seq([id : Customers, balance : Nat])
  BY DEF ApiState
<1>2. PICK k \in 1..Len(api[p].toInit) : c = api[p].toInit[k].id
  BY DEF CreatedBy, ToVisit
<1>3. k # 1
  BY <1>1, <1>2 DEF Current
<1>4. k - 1 \in 1..Len(Tail(api[p].toInit)) /\ Tail(api[p].toInit)[k - 1] = api[p].toInit[k]
  BY <1>1, <1>3, HeadTailProperties, LenProperties
<1> QED
  BY <1>2, <1>4, VisitedType DEF ToVisit

LEMMA ApiStep ==
  ASSUME FInv, NEW p \in ApiPods,
         GetEntry(p) \/ GetEntryFails(p) \/ CreateEntryFails(p) \/ Listen(p) \/ StartApi(p)
           \/ StopApi(p)
  PROVE  FInv'
<1>1. UNCHANGED <<credits, deployed, bids, runner, billed, opened, rounds>>
  BY DEF GetEntry, GetEntryFails, CreateEntryFails, Listen, StartApi, StopApi
<1>2. /\ faults' \in 0..MaxFaults /\ stops' \in 0..MaxStops /\ crowded' \in BOOLEAN
  <2>1. faults \in 0..MaxFaults /\ stops \in 0..MaxStops /\ crowded \in BOOLEAN
    BY DEF FInv, TypeOK
  <2>2. /\ faults' = faults \/ (faults < MaxFaults /\ faults' = faults + 1)
        /\ stops' = stops \/ (stops < MaxStops /\ stops' = stops + 1)
        /\ crowded' = crowded \/ crowded' \in BOOLEAN
    BY DEF GetEntry, GetEntryFails, CreateEntryFails, Listen, StartApi, StopApi, Fault
  <2> QED
    BY <2>1, <2>2, LimitAssumption
<1>3. api[p] \in ApiState /\ CreatedBy(api[p]) /\ deployed \in DOMAIN Scenarios
  BY DEF FInv, TypeOK, Created
<1>4. CASE GetEntry(p)
  <2>1. CASE Current(p).id \in DOMAIN credits
    <3>1. Visited(p) \in ApiState /\ Visited(p).pc = "init" /\ CreatedBy(Visited(p))
      BY <1>3, <1>4, <2>1, VisitedType, VisitedCreated DEF GetEntry, CreatedBy
    <3> QED
      BY <1>1, <1>2, <1>4, <2>1, <3>1, ApiFrame DEF GetEntry
  <2>2. CASE Current(p).id \notin DOMAIN credits
    <3> DEFINE a == [api[p] EXCEPT !.pc = "put"]
    <3>1. a \in ApiState /\ a.pc = "put" /\ a.toInit # <<>> /\ CreatedBy(a) /\ Api(p, a)
      BY <1>3, <1>4, <2>2 DEF GetEntry, CreatedBy, ToVisit, ApiState
    <3> HIDE DEF a
    <3> QED
      BY <1>1, <1>2, <3>1, ApiFrame
  <2> QED
    BY <2>1, <2>2
<1>5. CASE GetEntryFails(p)
  <2> DEFINE a == [api[p] EXCEPT !.pc = "put"]
  <2>1. a \in ApiState /\ a.pc = "put" /\ a.toInit # <<>> /\ CreatedBy(a) /\ Api(p, a)
    BY <1>3, <1>5 DEF GetEntryFails, CreatedBy, ToVisit, ApiState
  <2> HIDE DEF a
  <2> QED
    BY <1>1, <1>2, <2>1, ApiFrame
<1>6. CASE Listen(p)
  <2> DEFINE a == [api[p] EXCEPT !.pc = "serving"]
  <2>1. ToVisit(api[p]) = {}
    BY <1>6, EmptySeq, LenProperties DEF Listen, ToVisit
  <2>2. a \in ApiState /\ a.pc = "serving" /\ CreatedBy(a) /\ Api(p, a)
    BY <1>3, <1>6, <2>1 DEF Listen, CreatedBy, ApiState
  <2> HIDE DEF a
  <2> QED
    BY <1>1, <1>2, <2>2, ApiFrame
<1>7. CASE StartApi(p)
  <2>1. Starting(deployed).pc = "init" /\ Api(p, Starting(deployed))
    BY <1>7 DEF StartApi, Starting
  <2> QED
    BY <1>1, <1>2, <1>3, <2>1, StartingType, ApiFrame
<1>8. CASE CreateEntryFails(p) \/ StopApi(p)
  <2>1. NoApi.pc = "stopped" /\ CreatedBy(NoApi) /\ Api(p, NoApi)
    BY <1>8 DEF CreateEntryFails, StopApi, NoApi, CreatedBy
  <2> QED
    BY <1>1, <1>2, <2>1, NoApiType, ApiFrame
<1> QED
  BY <1>4, <1>5, <1>6, <1>7, <1>8

LEMMA CreateStep ==
  ASSUME FInv, NEW p \in ApiPods, CreateEntry(p)
  PROVE  /\ FInv'
         /\ Current(p).id \in Customers /\ Current(p).balance \in Nat
         /\ DOMAIN credits' = DOMAIN credits \cup {Current(p).id}
         /\ credits'[Current(p).id] = [spent |-> 0, balance |-> Current(p).balance]
         /\ \A d \in DOMAIN credits : d # Current(p).id => credits'[d] = credits[d]
         /\ api'[p].pc = "init" /\ \A q \in ApiPods : q # p => api'[q] = api[q]
<1> DEFINE c == Current(p).id
           e == [spent |-> 0, balance |-> Current(p).balance]
<1>1. api[p] \in ApiState /\ api[p].toInit # <<>> /\ api[p].pc = "put" /\ CreatedBy(api[p])
  BY DEF CreateEntry, FInv, TypeOK, ToInit, Created
<1>2. c \in Customers /\ e \in Entry /\ Current(p).balance \in Nat
  BY <1>1, VisitedType DEF Entry
<1>3. Put(c, e) /\ UNCHANGED <<deployed, bids, runner, billed, crowded, rounds, stops, faults>>
  BY DEF CreateEntry
<1>4. opened' \in [Customers -> Nat]
  <2>1. opened' = opened \/ opened' = [opened EXCEPT ![Current(p).id] = Current(p).balance]
    BY DEF CreateEntry
  <2> QED
    BY <1>2, <2>1 DEF FInv, TypeOK
<1>5. /\ Visited(p) \in ApiState /\ Visited(p).pc = "init"
      /\ Visited(p).scenario = api[p].scenario /\ Api(p, Visited(p))
  BY <1>1, VisitedType DEF CreateEntry
<1>6. /\ api' \in [ApiPods -> ApiState] /\ api'[p] = Visited(p)
      /\ \A q \in ApiPods : q # p => api'[q] = api[q]
  BY <1>5 DEF Api, FInv, TypeOK
<1> HIDE DEF c, e
<1>7. /\ DOMAIN credits' = DOMAIN credits \cup {c} /\ DOMAIN credits' \subseteq Customers
      /\ credits' \in [DOMAIN credits' -> Entry]
      /\ credits'[c] = e /\ \A d \in DOMAIN credits : d # c => credits'[d] = credits[d]
  BY <1>2, <1>3, PutType DEF FInv, TypeOK
<1>8. NeverInflated'
  <2> SUFFICES ASSUME NEW d \in DOMAIN credits' PROVE credits'[d].spent <= billed[d]
    BY <1>3 DEF NeverInflated
  <2>1. CASE d = c
    BY <2>1, <1>2, <1>7 DEF FInv, TypeOK, e
  <2>2. CASE d # c
    BY <2>2, <1>7 DEF FInv, NeverInflated
  <2> QED
    BY <2>1, <2>2
<1>9. Created'
  <2> SUFFICES ASSUME NEW q \in ApiPods PROVE CreatedBy(api[q])'
    BY DEF Created
  <2>1. CASE q = p
    <3> SUFFICES ASSUME NEW d \in InAuctionOf(api[p].scenario), d \notin DOMAIN credits'
                 PROVE  d \in ToVisit(Visited(p))
      BY <1>5, <1>6, <2>1 DEF CreatedBy, InAuctionOf, ToVisit
    <3>1. d \notin DOMAIN credits /\ d # Current(p).id
      BY <1>7 DEF c
    <3> QED
      BY <1>1, <3>1, VisitedCreated
  <2>2. CASE q # p
    BY <1>6, <1>7, <2>2 DEF FInv, Created, CreatedBy, ToVisit
  <2> QED
    BY <2>1, <2>2
<1>10. ToInit' /\ HeldBacked' /\ Billable' /\ KnownBidders'
  BY <1>3, <1>5, <1>6, <1>7 DEF FInv, ToInit, HeldBacked, Billable, KnownBidders
<1>11. TypeOK'
  BY <1>3, <1>4, <1>6, <1>7 DEF FInv, TypeOK
<1> QED
  BY <1>2, <1>5, <1>6, <1>7, <1>8, <1>9, <1>10, <1>11 DEF FInv, c, e

LEMMA BidStep ==
  ASSUME FInv, (\E p \in ApiPods, c \in Customers : PostBid(p, c)) \/ LoadScenario
  PROVE  FInv' /\ UNCHANGED <<credits, api, runner, billed, opened, crowded, faults>>
<1>1. ASSUME NEW p \in ApiPods, NEW c \in Customers, PostBid(p, c) PROVE FInv'
  <2>1. c \in DOMAIN credits
    BY <1>1 DEF PostBid, FInv, Created, CreatedBy
  <2> QED
    BY <1>1, <2>1 DEF PostBid, Store, FInv, TypeOK, ToInit, NeverInflated, HeldBacked, Created,
       CreatedBy, ToVisit, Billable, KnownBidders
<1>2. ASSUME LoadScenario PROVE FInv'
  <2>1. deployed' \in DOMAIN Scenarios
    BY <1>2, ScenarioAssumption, LenProperties DEF LoadScenario, FInv, TypeOK
  <2> QED
    BY <1>2, <2>1 DEF LoadScenario, FInv, TypeOK, ToInit, NeverInflated, HeldBacked, Created,
       CreatedBy, ToVisit, Billable, KnownBidders
<1> QED
  BY <1>1, <1>2 DEF PostBid, Store, LoadScenario

-----------------------------------------------------------------------------
(***************************************************************************)
(* A step of one runner pod that leaves the map and the bills alone.       *)
(***************************************************************************)
LEMMA RunnerFrame ==
  ASSUME FInv, NEW r \in RunnerPods, NEW s \in RunnerState, Runner(r, s),
         s.pc = "put" => s.customer \in s.due /\ s.cred.spent <= billed[s.customer],
         s.due \subseteq DOMAIN credits,
         UNCHANGED <<credits, deployed, api, billed, opened>>, bids' \subseteq bids,
         crowded' \in BOOLEAN, faults' \in 0..MaxFaults, stops' \in 0..MaxStops,
         rounds' \in 0..MaxRounds
  PROVE  FInv'
<1>1. /\ runner' \in [RunnerPods -> RunnerState] /\ runner'[r] = s
      /\ \A q \in RunnerPods : q # r => runner'[q] = runner[q]
  BY DEF Runner, FInv, TypeOK
<1>2. TypeOK'
  BY <1>1 DEF FInv, TypeOK
<1>3. HeldBacked'
  BY <1>1 DEF FInv, HeldBacked
<1>4. Billable' /\ KnownBidders'
  BY <1>1 DEF FInv, Billable, KnownBidders
<1> QED
  BY <1>2, <1>3, <1>4 DEF FInv, ToInit, NeverInflated, Created, CreatedBy, ToVisit

LEMMA AuctionStep ==
  ASSUME FInv, NEW r \in RunnerPods,
         RunAuction(r) \/ PutCreditsFails(r) \/ EndAuction(r) \/ ClearFails(r) \/ StartRunner(r)
           \/ StopRunner(r)
  PROVE  /\ FInv' /\ UNCHANGED <<credits, api, billed, opened>>
         /\ runner'[r].pc # "put" /\ \A q \in RunnerPods : q # r => runner'[q] = runner[q]
<1>1. UNCHANGED <<credits, deployed, api, billed, opened>> /\ bids' \subseteq bids
  BY DEF RunAuction, PutCreditsFails, EndAuction, ClearFails, StartRunner, StopRunner
<1>2. /\ faults' \in 0..MaxFaults /\ stops' \in 0..MaxStops /\ rounds' \in 0..MaxRounds
      /\ crowded' \in BOOLEAN
  <2>1. /\ faults \in 0..MaxFaults /\ stops \in 0..MaxStops /\ rounds \in 0..MaxRounds
        /\ crowded \in BOOLEAN
    BY DEF FInv, TypeOK
  <2>2. /\ faults' = faults \/ (faults < MaxFaults /\ faults' = faults + 1)
        /\ stops' = stops \/ (stops < MaxStops /\ stops' = stops + 1)
        /\ rounds' = rounds \/ (rounds < MaxRounds /\ rounds' = rounds + 1)
        /\ crowded' = crowded \/ crowded' \in BOOLEAN
    BY DEF RunAuction, PutCreditsFails, EndAuction, ClearFails, StartRunner, StopRunner, Fault
  <2> QED
    BY <2>1, <2>2, LimitAssumption
<1>3. PICK s \in RunnerState :
        Runner(r, s) /\ s.pc # "put" /\ s.due \subseteq DOMAIN credits
  <2>1. CASE RunAuction(r)
    <3>1. PICK winners \in SUBSET bids : \E owes \in [winners -> Amounts] :
            Runner(r, [Idle EXCEPT !.pc = "get", !.due = winners,
              !.owes = [c \in Customers |-> IF c \in winners THEN owes[c] ELSE 0]])
      BY <2>1 DEF RunAuction
    <3>2. PICK owes \in [winners -> Amounts] :
            Runner(r, [Idle EXCEPT !.pc = "get", !.due = winners,
              !.owes = [c \in Customers |-> IF c \in winners THEN owes[c] ELSE 0]])
      BY <3>1
    <3>3. winners \subseteq Customers /\ winners \subseteq DOMAIN credits
      BY DEF FInv, TypeOK, KnownBidders
    <3> DEFINE o == [c \in Customers |-> IF c \in winners THEN owes[c] ELSE 0]
    <3>4. o \in [Customers -> Nat]
      BY <3>2, AmountAssumption
    <3> HIDE DEF o
    <3> DEFINE s == [Idle EXCEPT !.pc = "get", !.due = winners, !.owes = o]
    <3>5. s \in RunnerState /\ s.pc = "get" /\ s.due = winners
      BY <3>3, <3>4, IdleType DEF RunnerState, Idle
    <3>6. Runner(r, s)
      BY <3>2 DEF o
    <3> QED
      BY <3>3, <3>5, <3>6
  <2>2. CASE PutCreditsFails(r)
    <3> DEFINE s == [Idle EXCEPT !.pc = "get"]
    <3>1. s \in RunnerState /\ s.pc = "get" /\ s.due = {} /\ Runner(r, s)
      BY <2>2, IdleType DEF PutCreditsFails, Idle, RunnerState
    <3> QED
      BY <3>1
  <2>3. CASE EndAuction(r) \/ ClearFails(r) \/ StartRunner(r)
    BY <2>3, IdleType DEF EndAuction, ClearFails, StartRunner, Idle
  <2>4. CASE StopRunner(r)
    BY <2>4, IdleType DEF StopRunner, Idle, NoRunner
  <2> QED
    BY <2>1, <2>2, <2>3, <2>4
<1>4. /\ runner'[r] = s /\ \A q \in RunnerPods : q # r => runner'[q] = runner[q]
  BY <1>3 DEF Runner, FInv, TypeOK
<1> QED
  BY <1>1, <1>2, <1>3, <1>4, RunnerFrame

LEMMA GetStep ==
  ASSUME FInv, NEW r \in RunnerPods, NEW c \in Customers,
         GetCredits(r, c) \/ GetCreditsFails(r, c)
  PROVE  /\ FInv' /\ UNCHANGED <<credits, api, bids, billed, opened, crowded>>
         /\ c \in DOMAIN credits /\ runner'[r].customer = c
         /\ GetCredits(r, c) => runner'[r].cred = credits[c]
         /\ Busy(r) /\ \A q \in RunnerPods : q # r => runner'[q] = runner[q]
<1>1. c \in DOMAIN credits /\ c \in runner[r].due /\ Busy(r)
  BY DEF GetCredits, GetCreditsFails, Hold, FInv, Billable, Busy
<1>2. PICK cred \in {NoEntry, credits[c]} :
        Hold(r, c, cred) /\ (GetCredits(r, c) => cred = credits[c])
  BY <1>1 DEF GetCredits, GetCreditsFails
<1>3. cred \in Entry /\ cred.spent <= billed[c]
  BY <1>1, <1>2 DEF FInv, TypeOK, NeverInflated, NoEntry, Entry
<1>4. faults' \in 0..MaxFaults
  BY LimitAssumption DEF GetCredits, GetCreditsFails, Fault, FInv, TypeOK
<1> DEFINE s == [runner[r] EXCEPT !.pc = "put", !.customer = c, !.cred = cred]
<1>5. /\ Runner(r, s)
      /\ UNCHANGED <<credits, deployed, api, bids, billed, opened, crowded, rounds, stops>>
  BY <1>2 DEF Hold
<1>6. /\ s \in RunnerState /\ s.customer = c /\ s.cred = cred /\ s.due = runner[r].due
  BY <1>3 DEF FInv, TypeOK, RunnerState
<1> HIDE DEF s
<1>7. runner'[r] = s /\ \A q \in RunnerPods : q # r => runner'[q] = runner[q]
  BY <1>5 DEF Runner, FInv, TypeOK
<1>8. FInv'
  <2>1. /\ s.due \subseteq DOMAIN credits /\ bids' \subseteq bids
        /\ crowded' \in BOOLEAN /\ stops' \in 0..MaxStops /\ rounds' \in 0..MaxRounds
    BY <1>5, <1>6 DEF FInv, TypeOK, Billable
  <2> QED
    BY <1>1, <1>3, <1>4, <1>5, <1>6, <2>1, RunnerFrame
<1> QED
  BY <1>1, <1>2, <1>5, <1>6, <1>7, <1>8

LEMMA PutStep ==
  ASSUME FInv, NEW r \in RunnerPods, PutCredits(r)
  PROVE  /\ FInv'
         /\ DOMAIN credits' = DOMAIN credits
         /\ runner[r].customer \in DOMAIN credits
         /\ credits'[runner[r].customer] = Charged(r)
         /\ \A d \in DOMAIN credits : d # runner[r].customer => credits'[d] = credits[d]
         /\ billed' = [billed EXCEPT ![runner[r].customer] = @ + Owed(r)]
         /\ runner'[r].pc = "get" /\ \A q \in RunnerPods : q # r => runner'[q] = runner[q]
<1> DEFINE c == runner[r].customer
           owed == Owed(r)
           e == Charged(r)
           s == [runner[r] EXCEPT !.pc = "get", !.due = @ \ {c}]
<1>1. /\ runner[r].pc = "put" /\ Put(c, e) /\ billed' = [billed EXCEPT ![c] = @ + owed]
      /\ Runner(r, s)
      /\ UNCHANGED <<deployed, api, bids, opened, crowded, rounds, stops, faults>>
  BY DEF PutCredits
<1>2. /\ c \in Customers /\ owed \in Nat /\ e \in Entry /\ e.spent = runner[r].cred.spent + owed
      /\ runner[r].cred.spent \in Nat
  BY <1>1, ChargedType DEF FInv
<1>3. runner[r].cred.spent <= billed[c] /\ c \in DOMAIN credits
  BY <1>1 DEF FInv, HeldBacked, TypeOK, Billable
<1>4. s \in RunnerState /\ s.pc = "get" /\ s.due \subseteq runner[r].due
  BY <1>1 DEF FInv, TypeOK, RunnerState
<1>5. /\ runner' \in [RunnerPods -> RunnerState] /\ runner'[r] = s
      /\ \A q \in RunnerPods : q # r => runner'[q] = runner[q]
  BY <1>1, <1>4 DEF Runner, FInv, TypeOK
<1> HIDE DEF c, owed, e, s
<1>6. /\ DOMAIN credits' = DOMAIN credits /\ credits' \in [DOMAIN credits' -> Entry]
      /\ credits'[c] = e /\ \A d \in DOMAIN credits : d # c => credits'[d] = credits[d]
  <2>1. DOMAIN credits \subseteq Customers /\ credits \in [DOMAIN credits -> Entry]
    BY DEF FInv, TypeOK
  <2> QED
    BY <1>1, <1>2, <1>3, <2>1, PutType
<1>7. billed \in [Customers -> Nat] /\ billed' \in [Customers -> Nat]
  BY <1>1, <1>2 DEF FInv, TypeOK
<1>8. billed'[c] = billed[c] + owed /\ \A d \in Customers : d # c => billed'[d] = billed[d]
  BY <1>1, <1>2, <1>7
<1>9. NeverInflated'
  <2> SUFFICES ASSUME NEW d \in DOMAIN credits PROVE credits'[d].spent <= billed'[d]
    BY <1>6 DEF NeverInflated
  <2>1. d \in Customers
    BY DEF FInv, TypeOK
  <2>2. CASE d = c
    BY <2>2, <1>2, <1>3, <1>6, <1>7, <1>8
  <2>3. CASE d # c
    BY <2>1, <2>3, <1>6, <1>8 DEF FInv, NeverInflated
  <2> QED
    BY <2>2, <2>3
<1>10. HeldBacked'
  <2> SUFFICES ASSUME NEW q \in RunnerPods, q # r, runner[q].pc = "put"
               PROVE  runner[q].cred.spent <= billed'[runner[q].customer]
    BY <1>4, <1>5 DEF HeldBacked
  <2>1. runner[q].customer \in Customers /\ runner[q].cred.spent \in Nat
    BY ChargedType DEF FInv
  <2>2. runner[q].cred.spent <= billed[runner[q].customer]
    BY DEF FInv, HeldBacked
  <2> QED
    BY <2>1, <2>2, <1>2, <1>7, <1>8
<1>11. Billable' /\ KnownBidders' /\ ToInit' /\ Created'
  BY <1>1, <1>4, <1>5, <1>6
     DEF FInv, Billable, KnownBidders, ToInit, Created, CreatedBy, ToVisit
<1>12. TypeOK'
  BY <1>1, <1>4, <1>5, <1>6, <1>7 DEF FInv, TypeOK
<1> QED
  BY <1>1, <1>3, <1>4, <1>5, <1>6, <1>9, <1>10, <1>11, <1>12 DEF FInv, c, owed, e

(***************************************************************************)
(* The invariant that holds whatever fails.                                *)
(***************************************************************************)
LEMMA FInvStep == ASSUME FInv, Next PROVE FInv'
<1>1. ASSUME NEW p \in ApiPods, ApiPod(p) PROVE FInv'
  BY <1>1, ApiStep, CreateStep, BidStep DEF ApiPod
<1>2. ASSUME NEW r \in RunnerPods, RunnerPod(r) PROVE FInv'
  BY <1>2, AuctionStep, GetStep, PutStep DEF RunnerPod
<1> QED
  BY <1>1, <1>2, BidStep DEF Next

LEMMA Inductive == Spec => []FInv
<1>1. FInv /\ [Next]_vars => FInv'
  <2>1. FInv /\ UNCHANGED vars => FInv'
    BY DEF vars, FInv, TypeOK, ToInit, NeverInflated, HeldBacked, Created, CreatedBy, ToVisit,
       Billable, KnownBidders
  <2> QED
    BY <2>1, FInvStep
<1> QED
  BY <1>1, FInvInit, PTL DEF Spec

(***************************************************************************)
(* Type correctness.                                                       *)
(***************************************************************************)
THEOREM TypeCorrect == Spec => []TypeOK
<1>1. FInv => TypeOK
  BY DEF FInv
<1> QED
  BY <1>1, Inductive, PTL

(***************************************************************************)
(* Whatever fails and however often the pods restart, total_spent never    *)
(* shows more than the customer was billed for.                            *)
(***************************************************************************)
THEOREM NeverInflatedHolds == Spec => []NeverInflated
<1>1. FInv => NeverInflated
  BY DEF FInv
<1> QED
  BY <1>1, Inductive, PTL

(***************************************************************************)
(* Whatever fails, stops and overlaps: an API that serves shows every      *)
(* customer of its scenario, and nobody bids or is billed without an       *)
(* entry.                                                                  *)
(***************************************************************************)
THEOREM EntriesFromTheStartHolds == Spec => []EntriesFromTheStart
<1>1. FInv => EntriesFromTheStart
  BY DEF FInv, EntriesFromTheStart, Created, CreatedBy, Billable, KnownBidders
<1> QED
  BY <1>1, Inductive, PTL

-----------------------------------------------------------------------------
(***************************************************************************)
(* Until a call fails or pods crowd.  One API pod at most is in its        *)
(* start-up loop and one runner at most in an auction, so an entry about   *)
(* to be created is still missing when it is, because whoever is billed    *)
(* has its entry already; and the entry a runner holds is still the one in *)
(* the map.                                                                *)
(***************************************************************************)
InStartUp(p) == api[p].pc \in {"init", "put"}
Alone ==
  /\ \A p, q \in ApiPods : InStartUp(p) /\ InStartUp(q) => p = q
  /\ \A r, q \in RunnerPods : Busy(r) /\ Busy(q) => r = q
Missing == \A p \in ApiPods : api[p].pc = "put" => Current(p).id \notin DOMAIN credits
HeldFresh ==
  \A r \in RunnerPods : runner[r].pc = "put" => runner[r].cred = credits[runner[r].customer]

CalmInv == Calm /\ FInv /\ EntriesExact /\ Alone /\ Missing /\ HeldFresh

LEMMA CalmInit == Init => CalmInv
<1> SUFFICES ASSUME Init PROVE CalmInv
  OBVIOUS
<1>1. PICK p \in ApiPods : api = [q \in ApiPods |-> IF q = p THEN Starting(1) ELSE NoApi]
  BY DEF Init
<1>2. PICK r \in RunnerPods : runner = [q \in RunnerPods |-> IF q = r THEN Idle ELSE NoRunner]
  BY DEF Init
<1>3. \A q \in ApiPods : api[q].pc # "put" /\ (InStartUp(q) => q = p)
  BY <1>1 DEF Starting, NoApi, InStartUp
<1>4. \A q \in RunnerPods : runner[q].pc # "put" /\ ~Busy(q)
  BY <1>2 DEF Idle, NoRunner, Busy
<1> QED
  BY <1>3, <1>4, FInvInit DEF Init, CalmInv, Calm, EntriesExact, Alone, Missing, HeldFresh

(***************************************************************************)
(* The steps of an API pod.                                                *)
(***************************************************************************)
LEMMA CalmApiStep ==
  ASSUME CalmInv, NEW p \in ApiPods, Calm', FInv',
         GetEntry(p) \/ Listen(p) \/ StartApi(p) \/ StopApi(p)
  PROVE  CalmInv' /\ EntriesKept
<1>1. UNCHANGED <<credits, runner, billed, opened>>
  BY DEF GetEntry, Listen, StartApi, StopApi
<1>2. \A q \in ApiPods : q # p => api'[q] = api[q]
  BY DEF GetEntry, Listen, StartApi, StopApi, Api, CalmInv, FInv, TypeOK
<1>3. /\ api'[p].pc \in {"init", "put"} =>
           InStartUp(p) \/ \A q \in ApiPods : ~InStartUp(q)
      /\ api'[p].pc = "put" => Head(api'[p].toInit).id \notin DOMAIN credits
  <2>1. api[p] \in ApiState /\ p \in DOMAIN api
    BY DEF CalmInv, FInv, TypeOK
  <2>2. CASE GetEntry(p)
    <3>1. CASE Current(p).id \in DOMAIN credits
      BY <2>1, <2>2, <3>1, VisitedType DEF GetEntry, Api, InStartUp
    <3>2. CASE Current(p).id \notin DOMAIN credits
      <4>1. api'[p] = [api[p] EXCEPT !.pc = "put"]
        BY <2>1, <2>2, <3>2 DEF GetEntry, Api
      <4>2. api'[p].toInit = api[p].toInit
        BY <2>1, <4>1 DEF ApiState
      <4> QED
        BY <2>2, <3>2, <4>2 DEF GetEntry, Current, InStartUp
    <3> QED
      BY <3>1, <3>2
  <2>3. CASE Listen(p)
    <3>1. api'[p] = [api[p] EXCEPT !.pc = "serving"]
      BY <2>1, <2>3 DEF Listen, Api
    <3>2. api'[p].pc = "serving"
      BY <2>1, <3>1 DEF ApiState
    <3> QED
      BY <3>2
  <2>4. CASE StartApi(p)
    <3>1. api'[p].pc = "init"
      BY <2>1, <2>4 DEF StartApi, Api, Starting
    <3>2. \A q \in ApiPods : ~InStartUp(q)
      BY <2>4 DEF StartApi, Calm, InStartUp
    <3> QED
      BY <3>1, <3>2
  <2>5. CASE StopApi(p)
    BY <2>1, <2>5 DEF StopApi, Api, NoApi
  <2> QED
    BY <2>2, <2>3, <2>4, <2>5
<1>4. Alone'
  <2>1. \A q, s \in ApiPods : InStartUp(q)' /\ InStartUp(s)' => q = s
    BY <1>2, <1>3 DEF CalmInv, Alone, InStartUp
  <2> QED
    BY <1>1, <2>1 DEF CalmInv, Alone, Busy
<1>5. Missing'
  BY <1>1, <1>2, <1>3 DEF CalmInv, Missing, Current
<1> QED
  BY <1>1, <1>4, <1>5 DEF CalmInv, EntriesExact, HeldFresh, EntriesKept

LEMMA CalmCreateStep ==
  ASSUME CalmInv, NEW p \in ApiPods, CreateEntry(p)
  PROVE  CalmInv' /\ EntriesKept
<1> DEFINE c == Current(p).id
<1>1. c \in Customers /\ c \notin DOMAIN credits /\ Current(p).balance \in Nat
  BY CreateStep DEF CalmInv, Missing, CreateEntry
<1>2. /\ DOMAIN credits' = DOMAIN credits \cup {c}
      /\ credits'[c] = [spent |-> 0, balance |-> Current(p).balance]
      /\ \A d \in DOMAIN credits : credits'[d] = credits[d]
      /\ api'[p].pc = "init" /\ \A q \in ApiPods : q # p => api'[q] = api[q]
  BY <1>1, CreateStep DEF CalmInv
<1>3. opened' = [opened EXCEPT ![c] = Current(p).balance] /\ UNCHANGED <<runner, billed, crowded, faults>>
  BY <1>1 DEF CreateEntry
<1>4. InStartUp(p) /\ Calm'
  BY <1>3 DEF CreateEntry, InStartUp, Calm, CalmInv
<1>5. EntriesExact'
  <2>1. billed[c] = 0 /\ opened' \in [Customers -> Nat] /\ opened'[c] = Current(p).balance
    BY <1>1, <1>3 DEF CalmInv, EntriesExact, FInv, TypeOK
  <2> HIDE DEF c
  <2>2. \A d \in Customers : d # c => opened'[d] = opened[d]
    BY <1>1, <1>3 DEF CalmInv, FInv, TypeOK
  <2> SUFFICES ASSUME NEW d \in Customers
               PROVE  IF d \in DOMAIN credits'
                      THEN credits'[d] = [spent |-> billed[d], balance |-> opened'[d]]
                      ELSE billed[d] = 0
    BY <1>3 DEF EntriesExact
  <2>3. CASE d = c
    BY <2>1, <2>3, <1>2
  <2>4. CASE d # c
    BY <2>2, <2>4, <1>2 DEF CalmInv, EntriesExact
  <2> QED
    BY <2>3, <2>4
<1>6. Alone'
  BY <1>2, <1>3, <1>4 DEF CalmInv, Alone, InStartUp, Busy
<1>7. Missing'
  <2> SUFFICES ASSUME NEW q \in ApiPods, q # p, api[q].pc = "put" PROVE FALSE
    BY <1>2 DEF Missing
  <2> QED
    BY <1>4 DEF CalmInv, Alone, InStartUp
<1>8. HeldFresh'
  <2> SUFFICES ASSUME NEW r \in RunnerPods, runner[r].pc = "put"
               PROVE  runner[r].cred = credits'[runner[r].customer]
    BY <1>3 DEF HeldFresh
  <2>1. runner[r].customer \in DOMAIN credits
    BY DEF CalmInv, FInv, TypeOK, Billable
  <2> QED
    BY <1>2, <2>1 DEF CalmInv, HeldFresh
<1> QED
  BY <1>2, <1>4, <1>5, <1>6, <1>7, <1>8, CreateStep DEF CalmInv, EntriesKept

(***************************************************************************)
(* The steps of a runner pod, which leave the API alone.                   *)
(***************************************************************************)
LEMMA CalmAuctionStep ==
  ASSUME CalmInv, NEW r \in RunnerPods, Calm',
         RunAuction(r) \/ EndAuction(r) \/ StartRunner(r) \/ StopRunner(r)
  PROVE  CalmInv'
<1>1. /\ FInv' /\ UNCHANGED <<credits, api, billed, opened>>
      /\ runner'[r].pc # "put" /\ \A q \in RunnerPods : q # r => runner'[q] = runner[q]
  BY AuctionStep DEF CalmInv
<1>2. Busy(r)' => \A q \in RunnerPods : q # r => ~Busy(q)
  <2>1. CASE RunAuction(r)
    BY <2>1 DEF RunAuction, Calm
  <2>2. CASE EndAuction(r) \/ StartRunner(r) \/ StopRunner(r)
    <3>1. runner'[r] \in {Idle, NoRunner}
      BY <2>2 DEF EndAuction, StartRunner, StopRunner, Runner, CalmInv, FInv, TypeOK
    <3> QED
      BY <3>1 DEF Busy, Idle, NoRunner
  <2> QED
    BY <2>1, <2>2
<1>3. Alone'
  BY <1>1, <1>2 DEF CalmInv, Alone, InStartUp, Busy
<1>4. HeldFresh'
  BY <1>1 DEF CalmInv, HeldFresh
<1> QED
  BY <1>1, <1>3, <1>4 DEF CalmInv, EntriesExact, Missing, Current

LEMMA CalmGetStep ==
  ASSUME CalmInv, NEW r \in RunnerPods, NEW c \in Customers, GetCredits(r, c)
  PROVE  CalmInv'
<1>1. /\ FInv' /\ UNCHANGED <<credits, api, billed, opened, crowded>>
      /\ runner'[r].customer = c /\ runner'[r].cred = credits[c]
      /\ Busy(r) /\ \A q \in RunnerPods : q # r => runner'[q] = runner[q]
  BY GetStep DEF CalmInv
<1>2. Calm'
  BY <1>1 DEF GetCredits, CalmInv, Calm
<1>3. Alone'
  BY <1>1 DEF CalmInv, Alone, InStartUp, Busy
<1>4. HeldFresh'
  BY <1>1 DEF CalmInv, HeldFresh
<1> QED
  BY <1>1, <1>2, <1>3, <1>4 DEF CalmInv, EntriesExact, Missing, Current

LEMMA CalmPutStep ==
  ASSUME CalmInv, NEW r \in RunnerPods, PutCredits(r)
  PROVE  CalmInv'
<1> DEFINE c == runner[r].customer
           owed == Owed(r)
<1>1. /\ FInv' /\ DOMAIN credits' = DOMAIN credits /\ c \in DOMAIN credits
      /\ credits'[c] = Charged(r)
      /\ \A d \in DOMAIN credits : d # c => credits'[d] = credits[d]
      /\ billed' = [billed EXCEPT ![c] = @ + owed]
      /\ runner'[r].pc = "get" /\ \A q \in RunnerPods : q # r => runner'[q] = runner[q]
  BY PutStep DEF CalmInv
<1>2. runner[r].pc = "put" /\ UNCHANGED <<api, opened, crowded, faults>>
  BY DEF PutCredits
<1>3. /\ c \in Customers /\ owed \in Nat /\ Charged(r) \in Entry
      /\ Charged(r).spent = runner[r].cred.spent + owed
      /\ Charged(r).balance = runner[r].cred.balance
      /\ billed \in [Customers -> Nat]
  BY <1>2, ChargedType DEF CalmInv, FInv, TypeOK
<1>4. runner[r].cred = credits[c]
  BY <1>2 DEF CalmInv, HeldFresh
<1>5. credits[c] = [spent |-> billed[c], balance |-> opened[c]]
  BY <1>1, <1>3 DEF CalmInv, EntriesExact
<1> HIDE DEF c, owed
<1>6. Charged(r) = [spent |-> billed[c] + owed, balance |-> opened[c]]
  BY <1>3, <1>4, <1>5 DEF Entry
<1>7. EntriesExact'
  <2> SUFFICES ASSUME NEW d \in Customers
               PROVE  IF d \in DOMAIN credits'
                      THEN credits'[d] = [spent |-> billed'[d], balance |-> opened[d]]
                      ELSE billed'[d] = 0
    BY <1>2 DEF EntriesExact
  <2>1. CASE d = c
    BY <2>1, <1>1, <1>3, <1>6
  <2>2. CASE d # c
    <3>1. billed'[d] = billed[d]
      BY <2>2, <1>1, <1>3
    <3> QED
      BY <3>1, <2>2, <1>1 DEF CalmInv, EntriesExact
  <2> QED
    BY <2>1, <2>2
<1>8. Alone'
  BY <1>1, <1>2 DEF CalmInv, Alone, InStartUp, Busy
<1>9. HeldFresh'
  <2> SUFFICES ASSUME NEW q \in RunnerPods, q # r, runner[q].pc = "put" PROVE FALSE
    BY <1>1 DEF HeldFresh
  <2> QED
    BY <1>2 DEF CalmInv, Alone, Busy
<1> QED
  BY <1>1, <1>2, <1>7, <1>8, <1>9 DEF CalmInv, Calm, Missing, Current

LEMMA CalmStep == ASSUME CalmInv, Next, Calm' PROVE CalmInv' /\ EntriesKept
<1>1. ~Fault /\ FInv'
  BY FInvStep DEF CalmInv, Calm, Fault
<1>2. ASSUME NEW p \in ApiPods, ApiPod(p) PROVE CalmInv' /\ EntriesKept
  <2>1. ASSUME NEW c \in Customers, PostBid(p, c) PROVE CalmInv' /\ api' = api
    <3>1. FInv' /\ UNCHANGED <<credits, api, runner, billed, opened, crowded, faults>>
      BY <2>1, BidStep DEF CalmInv
    <3> QED
      BY <3>1 DEF CalmInv, Calm, EntriesExact, Alone, InStartUp, Busy, Missing, Current, HeldFresh
  <2> QED
    BY <1>1, <1>2, <2>1, CalmApiStep, CalmCreateStep
       DEF ApiPod, GetEntryFails, CreateEntryFails, EntriesKept
<1>3. ASSUME NEW r \in RunnerPods, RunnerPod(r) PROVE CalmInv' /\ api' = api
  <2>1. api' = api
    BY <1>3 DEF RunnerPod, RunAuction, PutCredits, PutCreditsFails, EndAuction, ClearFails,
       StartRunner, StopRunner, GetCredits, GetCreditsFails, Hold
  <2> QED
    BY <1>1, <1>3, <2>1, CalmAuctionStep, CalmGetStep, CalmPutStep
       DEF RunnerPod, PutCreditsFails, ClearFails, GetCreditsFails
<1>4. CASE LoadScenario
  <2>1. FInv' /\ UNCHANGED <<credits, api, runner, billed, opened, crowded, faults>>
    BY <1>4, BidStep DEF CalmInv
  <2> QED
    BY <2>1 DEF CalmInv, Calm, EntriesExact, Alone, InStartUp, Busy, Missing, Current, HeldFresh,
       EntriesKept
<1> QED
  BY <1>2, <1>3, <1>4 DEF Next, EntriesKept

(***************************************************************************)
(* The steps taken before that are among those of CalmStep.                *)
(***************************************************************************)
LEMMA CalmBefore == ASSUME TypeOK, Next, Calm' PROVE Calm
<1>1. faults \in Nat
  BY LimitAssumption DEF TypeOK
<1>2. (Fault \/ faults' = faults) /\ (crowded' \/ ~crowded)
  <2>1. ASSUME NEW p \in ApiPods, ApiPod(p)
        PROVE  (Fault \/ faults' = faults) /\ (crowded' \/ ~crowded)
    <3>1. CASE StartApi(p)
      BY <3>1 DEF StartApi
    <3>2. CASE ~StartApi(p)
      BY <2>1, <3>2 DEF ApiPod, GetEntry, GetEntryFails, CreateEntry, CreateEntryFails, Listen,
         StopApi, PostBid, Store
    <3> QED
      BY <3>1, <3>2
  <2>2. ASSUME NEW r \in RunnerPods, RunnerPod(r)
        PROVE  (Fault \/ faults' = faults) /\ (crowded' \/ ~crowded)
    <3>1. CASE RunAuction(r)
      <4>1. faults' = faults /\ crowded' = (crowded \/ \E q \in RunnerPods : Busy(q))
        BY <3>1 DEF RunAuction
      <4> QED
        BY <4>1
    <3>2. CASE ~RunAuction(r)
      <4>1. Fault \/ faults' = faults
        BY <2>2, <3>2 DEF RunnerPod, PutCredits, PutCreditsFails, EndAuction, ClearFails,
           StartRunner, StopRunner, GetCredits, GetCreditsFails
      <4>2. crowded' = crowded
        BY <2>2, <3>2 DEF RunnerPod, PutCredits, PutCreditsFails, EndAuction, ClearFails,
           StartRunner, StopRunner, GetCredits, GetCreditsFails, Hold
      <4> QED
        BY <4>1, <4>2
    <3> QED
      BY <3>1, <3>2
  <2>3. CASE LoadScenario
    BY <2>3 DEF LoadScenario
  <2> QED
    BY <2>1, <2>2, <2>3 DEF Next
<1> QED
  BY <1>1, <1>2 DEF Calm, Fault

Quiet == FInv /\ (Calm => CalmInv)

LEMMA QuietStep == ASSUME Quiet, [Next]_vars PROVE Quiet' /\ (vars' = vars \/ (Calm' => EntriesKept))
<1>1. CASE UNCHANGED vars
  BY <1>1 DEF Quiet, vars, CalmInv, Calm, FInv, TypeOK, ToInit, NeverInflated, HeldBacked, Created,
     CreatedBy, ToVisit, Billable, KnownBidders, EntriesExact, Alone, InStartUp, Busy, Missing,
     Current, HeldFresh
<1>2. CASE Next
  <2>1. FInv'
    BY <1>2, FInvStep DEF Quiet
  <2>2. ASSUME Calm' PROVE CalmInv' /\ EntriesKept
    <3>1. CalmInv
      BY <1>2, <2>2, CalmBefore DEF Quiet, FInv
    <3> QED
      BY <1>2, <2>2, <3>1, CalmStep
  <2> QED
    BY <2>1, <2>2 DEF Quiet
<1> QED
  BY <1>1, <1>2

LEMMA QuietInductive == Spec => []Quiet
<1>1. Init => Quiet
  BY CalmInit DEF Quiet, CalmInv
<1>2. Quiet /\ [Next]_vars => Quiet'
  BY QuietStep
<1> QED
  BY <1>1, <1>2, PTL DEF Spec

(***************************************************************************)
(* Until a call fails or pods crowd, and although the API, old pods of it, *)
(* and the runner write the same map with nothing but Get and Put,         *)
(* total_spent is the sum of the bills and the balance is the one the      *)
(* entry was created with.                                                 *)
(***************************************************************************)
THEOREM ExactHolds == Spec => []Exact
<1>1. Quiet => Exact
  BY DEF Quiet, CalmInv, Exact
<1> QED
  BY <1>1, QuietInductive, PTL

(***************************************************************************)
(* Until a call fails or pods crowd, a redeployed API never changes an     *)
(* entry.                                                                  *)
(***************************************************************************)
THEOREM KeptHolds == Spec => KeptWithoutFaults
<1>1. Quiet /\ [Next]_vars => [Calm' => EntriesKept]_vars
  BY QuietStep
<1> QED
  BY <1>1, QuietInductive, PTL DEF Spec, KeptWithoutFaults
=============================================================================
