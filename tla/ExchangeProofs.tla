--------------------------- MODULE ExchangeProofs ---------------------------
(***************************************************************************)
(* Proofs about the gateway among the other programs, for any scenario     *)
(* files, clients, requests, word size and number of crashes and failures. *)
(***************************************************************************)
EXTENDS Exchange, ScenarioProofs, SumTheorems, SequenceTheorems

(***************************************************************************)
(* The customer of a bid is always the owner of its ingress port: so the   *)
(* key of an entry determines its customer, and whatever replaces an       *)
(* acknowledged bid is of the same customer.                               *)
(***************************************************************************)
Owner(s, port) == CustomerForIngressPort(s, s.switches[1].id, Truncated(port))

SceneOK ==
  /\ scene \in Scenarios /\ ValidCustomers(scene)
  /\ scene.switches # <<>> /\ scene.switches[1].id # ""

Statuses == {0, 202, 400, 401, 403, 500}
HandlerType ==
  handler \in [Handlers -> [pc : {"idle", "lookup", "create", "assign", "put"},
                            request : Requests \cup {<<>>},
                            answer : Statuses]]
Rightful(r) == r \in Requests /\ r.customer # "" /\ Owner(scene, r.ingress) = r.customer
Wrongful(r) == Owner(scene, r.ingress) # r.customer
HandlersOK ==
  \A h \in Handlers : /\ handler[h].pc # "idle" => Rightful(handler[h].request)
                      /\ handler[h].answer = 403 => Wrongful(handler[h].request)

RoundOK ==
  /\ round \in [pc : {"idle", "credits", "utility", "history", "clear"}, port : Ports \cup {0},
                won : Outcomes \cup {<<>>}, interval : Nat, number : Nat]
  /\ round.pc # "idle" => round.port \in Ports

BidsOK ==
  /\ DOMAIN bids = {Truncated(r.egress) : r \in Requests} \cup Ports
  /\ \A p \in DOMAIN bids : \A key \in DOMAIN bids[p] :
       bids[p][key].customer # "" /\ Owner(scene, key) = bids[p][key].customer
AcceptedOK == \A r \in accepted : Rightful(r)

GInv == SceneOK /\ HandlerType /\ HandlersOK /\ RoundOK /\ BidsOK /\ AcceptedOK /\ AcceptedIsKept

-----------------------------------------------------------------------------
LEMMA InitScene ==
  ASSUME NEW load \in Workloads, Load(load.files)
  PROVE  SceneOK
<1>1. load.files \subseteq Scenarios
  BY WorkloadAssumption
<1>2. scene \in Scenarios /\ ValidCustomers(scene)
  BY <1>1, LoadedHasOneOwner
<1>3. PICK s \in load.files : scene = WithValuations(s)
  BY DEF Load
<1>4. scene.switches = s.switches
  BY <1>1, <1>3, ValuationsOnly
<1> QED
  BY <1>2, <1>4, WorkloadAssumption DEF SceneOK

LEMMA GInvInit == Init => GInv
<1> SUFFICES ASSUME NEW load \in Workloads, Load(load.files), GatewayInit(load.gateway)
             PROVE  GInv
  BY DEF Init
<1>1. SceneOK
  BY InitScene
<1>2. HandlerType /\ HandlersOK /\ AcceptedOK /\ AcceptedIsKept
  BY DEF GatewayInit, IdleHandler, HandlerType, Statuses, HandlersOK, AcceptedOK, AcceptedIsKept
<1>3. RoundOK
  BY DEF GatewayInit, NoRound, RoundOK
<1>4. BidsOK
  <2>1. /\ DOMAIN bids = {Truncated(r.egress) : r \in Requests} \cup Ports
        /\ \A p \in DOMAIN bids : bids[p] = <<>>
    BY DEF GatewayInit
  <2>2. DOMAIN <<>> = {}
    OBVIOUS
  <2> QED
    BY <2>1, <2>2 DEF BidsOK
<1> QED
  BY <1>1, <1>2, <1>3, <1>4 DEF GInv

-----------------------------------------------------------------------------
LEMMA HasMap ==
  ASSUME BidsOK, NEW r \in Requests
  PROVE  Truncated(r.egress) \in DOMAIN bids
  BY DEF BidsOK

LEMMA BidOwner ==
  ASSUME BidsOK, NEW port \in DOMAIN bids, NEW n \in DOMAIN bids[port]
  PROVE  bids[port][n].customer # "" /\ Owner(scene, n) = bids[port][n].customer
  BY DEF BidsOK

LEMMA AnswerIs ==
  ASSUME HandlerType, NEW h \in Handlers, NEW status \in Statuses, Answer(h, status)
  PROVE  /\ handler'[h].pc = "idle" /\ handler'[h].request = handler[h].request
         /\ handler'[h].answer = status
         /\ \A k \in Handlers \ {h} : handler'[k] = handler[k]
         /\ HandlerType'
<1> DEFINE answered == [pc |-> "idle", request |-> handler[h].request, answer |-> status]
<1>1. handler' = [handler EXCEPT ![h] = answered]
  BY DEF Answer
<1>2. answered \in [pc : {"idle", "lookup", "create", "assign", "put"},
                     request : Requests \cup {<<>>}, answer : Statuses]
  BY DEF HandlerType
<1>3. answered.pc = "idle" /\ answered.request = handler[h].request /\ answered.answer = status
  OBVIOUS
<1> HIDE DEF answered
<1> QED
  BY <1>1, <1>2, <1>3 DEF HandlerType

LEMMA HandlersFit ==
  ASSUME scene' = scene,
         \A h \in Handlers : /\ handler'[h].pc # "idle" => Rightful(handler'[h].request)
                             /\ handler'[h].answer = 403 => Wrongful(handler'[h].request)
  PROVE  HandlersOK'
<1> SUFFICES ASSUME NEW h \in Handlers
             PROVE  /\ handler'[h].pc # "idle" => Rightful(handler[h].request)'
                    /\ handler'[h].answer = 403 => Wrongful(handler[h].request)'
  BY DEF HandlersOK
<1>1. Owner(scene, handler[h].request.ingress)' = Owner(scene, handler'[h].request.ingress)
  BY DEF Owner
<1>2. Rightful(handler[h].request)' <=> Rightful(handler'[h].request)
  BY <1>1 DEF Rightful
<1>3. Wrongful(handler[h].request)' <=> Wrongful(handler'[h].request)
  BY <1>1 DEF Wrongful
<1> QED
  BY <1>2, <1>3

LEMMA AcceptedFit ==
  ASSUME scene' = scene, \A r \in accepted' : Rightful(r)
  PROVE  AcceptedOK'
<1> SUFFICES ASSUME NEW r \in accepted' PROVE Rightful(r)'
  BY DEF AcceptedOK
<1>1. Owner(scene, r.ingress)' = Owner(scene, r.ingress)
  BY DEF Owner
<1> QED
  BY <1>1 DEF Rightful

-----------------------------------------------------------------------------
(***************************************************************************)
(* Steps that leave handlers and bids alone.                               *)
(***************************************************************************)
LEMMA Unmoved ==
  ASSUME GInv, UNCHANGED <<scene, handler, bids, accepted>>, RoundOK'
  PROVE  GInv'
<1>1. SceneOK' /\ HandlerType' /\ AcceptedOK'
  BY DEF GInv, SceneOK, HandlerType, AcceptedOK, Rightful, Owner
<1>2. HandlersOK'
  BY DEF GInv, HandlersOK, Rightful, Wrongful, Owner
<1>3. BidsOK'
  BY DEF GInv, BidsOK, Owner, Ports
<1>4. AcceptedIsKept'
  BY DEF GInv, AcceptedIsKept
<1> QED
  BY <1>1, <1>2, <1>3, <1>4 DEF GInv

LEMMA RoundUnmoved ==
  ASSUME GInv, UNCHANGED <<scene, round>>
  PROVE  RoundOK'
  BY DEF GInv, RoundOK, Ports

(***************************************************************************)
(* Steps of one handler that store no bid and acknowledge none.            *)
(***************************************************************************)
LEMMA HandlerMoves ==
  ASSUME GInv, UNCHANGED <<scene, bids, accepted, round>>, HandlerType',
         \A h \in Handlers :
           \/ handler'[h] = handler[h]
           \/ /\ handler'[h].pc = "idle"
              /\ handler'[h].answer = 403 => Wrongful(handler'[h].request)
           \/ handler'[h].answer # 403 /\ Rightful(handler'[h].request)
  PROVE  GInv'
<1>1. SceneOK' /\ AcceptedOK' /\ RoundOK'
  BY RoundUnmoved DEF GInv, SceneOK, AcceptedOK, Rightful, Owner
<1>2. scene' = scene
  OBVIOUS
<1>3. \A h \in Handlers : /\ handler'[h].pc # "idle" => Rightful(handler'[h].request)
                          /\ handler'[h].answer = 403 => Wrongful(handler'[h].request)
  BY DEF GInv, HandlersOK
<1>4. HandlersOK'
  BY <1>2, <1>3, HandlersFit
<1>5. BidsOK'
  BY DEF GInv, BidsOK, Owner, Ports
<1>6. AcceptedIsKept'
  BY DEF GInv, AcceptedIsKept
<1> QED
  BY <1>1, <1>4, <1>5, <1>6 DEF GInv

-----------------------------------------------------------------------------
LEMMA ReceiveStep ==
  ASSUME GInv, NEW h \in Handlers, NEW r \in Requests, Receive(h, r)
  PROVE  GInv'
<1>1. UNCHANGED <<scene, bids, accepted, round>>
  BY DEF Receive, AsideBids
<1>2. Refusal(r) \in {0, 400, 401, 403}
  BY DEF Refusal
<1>3. handler' = [handler EXCEPT ![h] =
         [pc |-> IF Refusal(r) = 0 THEN "lookup" ELSE "idle", request |-> r, answer |-> Refusal(r)]]
  BY DEF Receive
<1>4. HandlerType'
  <2> DEFINE received == [pc |-> IF Refusal(r) = 0 THEN "lookup" ELSE "idle", request |-> r,
                          answer |-> Refusal(r)]
  <2>1. received \in [pc : {"idle", "lookup", "create", "assign", "put"},
                       request : Requests \cup {<<>>}, answer : Statuses]
    BY <1>2 DEF Statuses
  <2>2. handler' = [handler EXCEPT ![h] = received]
    BY <1>3
  <2> HIDE DEF received
  <2> QED
    BY <2>1, <2>2 DEF GInv, HandlerType
<1>5. Refusal(r) = 0 => r.customer # "" /\ Owned(r)
  <2>1. Refusal(r) = 0 => ~Anonymous(r) /\ Owned(r)
    BY DEF Refusal
  <2> QED
    BY <2>1 DEF Anonymous
<1>6. Owned(r) => Owner(scene, r.ingress) = r.customer
  BY DEF Owned, Owner, GInv, SceneOK
<1>7. /\ handler'[h].request = r /\ handler'[h].answer = Refusal(r)
      /\ handler'[h].pc = IF Refusal(r) = 0 THEN "lookup" ELSE "idle"
      /\ \A k \in Handlers \ {h} : handler'[k] = handler[k]
  BY <1>3 DEF GInv, HandlerType
<1>8. handler'[h].pc # "idle" => handler'[h].answer # 403 /\ Rightful(handler'[h].request)
  <2>1. CASE Refusal(r) # 0
    BY <1>7, <2>1
  <2>2. CASE Refusal(r) = 0
    <3>1. Rightful(r)
      BY <1>5, <1>6, <2>2 DEF Rightful
    <3>2. handler'[h].answer = 0 /\ handler'[h].request = r
      BY <1>7, <2>2
    <3> QED
      BY <3>1, <3>2
  <2> QED
    BY <2>1, <2>2
<1>9. handler'[h].answer = 403 => Wrongful(handler'[h].request)
  <2>1. Refusal(r) = 403 => ~Owned(r)
    BY DEF Refusal
  <2>2. ~Owned(r) => Owner(scene, r.ingress) # r.customer
    BY DEF Owned, Owner
  <2> QED
    BY <1>7, <2>1, <2>2 DEF Wrongful
<1> QED
  BY <1>1, <1>4, <1>7, <1>8, <1>9, HandlerMoves

(***************************************************************************)
(* A handler at work goes on, or gives up.                                 *)
(***************************************************************************)
LEMMA GotoStep ==
  ASSUME GInv, NEW h \in Handlers, ~At(h, "idle"), UNCHANGED <<scene, bids, accepted, round>>,
         NEW pc \in {"lookup", "create", "assign", "put"}, Goto(h, pc)
  PROVE  GInv'
<1>1. /\ handler'[h].pc = pc /\ handler'[h].request = handler[h].request
      /\ handler'[h].answer = handler[h].answer
      /\ \A k \in Handlers \ {h} : handler'[k] = handler[k]
      /\ HandlerType'
  BY DEF GInv, HandlerType, Goto
<1>2. Rightful(handler[h].request) /\ handler[h].answer # 403
  BY DEF GInv, HandlersOK, Rightful, Wrongful, At
<1>3. Rightful(handler'[h].request) /\ handler'[h].answer # 403
  BY <1>1, <1>2
<1> QED
  BY <1>1, <1>3, HandlerMoves

LEMMA RefuseStep ==
  ASSUME GInv, NEW h \in Handlers, UNCHANGED <<scene, bids, accepted, round>>, Answer(h, 500)
  PROVE  GInv'
<1>1. /\ handler'[h].pc = "idle" /\ handler'[h].answer = 500
      /\ \A k \in Handlers \ {h} : handler'[k] = handler[k]
      /\ HandlerType'
  BY AnswerIs DEF GInv, Statuses
<1> QED
  BY <1>1, HandlerMoves

(***************************************************************************)
(* Storing a bid: what else is stored is kept, and under the same key only *)
(* a bid of the same customer is replaced.                                 *)
(***************************************************************************)
LEMMA StoreBid ==
  ASSUME GInv, NEW h \in Handlers, At(h, "put"), UNCHANGED <<scene, round>>,
         Stored(handler[h].request), NEW status \in Statuses \ {403}, Answer(h, status),
         accepted' \in {accepted, accepted \cup {handler[h].request}}
  PROVE  GInv'
<1> DEFINE r == handler[h].request
           p == Truncated(r.egress)
           entry == [units |-> r.units, price |-> r.price, customer |-> r.customer]
<1>1. r \in Requests /\ r.customer # "" /\ Owner(scene, r.ingress) = r.customer
  BY DEF GInv, HandlersOK, Rightful, At
<1>2. p \in DOMAIN bids
  BY <1>1, HasMap DEF GInv
<1>3. /\ DOMAIN bids' = DOMAIN bids
      /\ bids'[p] = [key \in DOMAIN bids[p] \cup {r.ingress} |->
                       IF key = r.ingress THEN entry ELSE bids[p][key]]
      /\ \A q \in DOMAIN bids \ {p} : bids'[q] = bids[q]
  BY <1>2 DEF Stored
<1>4. /\ handler'[h].pc = "idle" /\ handler'[h].request = r /\ handler'[h].answer = status
      /\ \A k \in Handlers \ {h} : handler'[k] = handler[k]
      /\ HandlerType' /\ status # 403
  BY AnswerIs DEF GInv
<1>13. accepted' \subseteq accepted \cup {r}
  OBVIOUS
<1> HIDE DEF r, p
<1>5. DOMAIN bids'[p] = DOMAIN bids[p] \cup {r.ingress} /\ bids'[p][r.ingress].customer = r.customer
  BY <1>3
<1>6. \A key \in DOMAIN bids[p] : key # r.ingress => bids'[p][key] = bids[p][key]
  BY <1>3
<1>7. scene' = scene
  OBVIOUS
<1>8. \A q \in DOMAIN bids : \A key \in DOMAIN bids[q] :
        key \in DOMAIN bids'[q] /\ bids'[q][key].customer = bids[q][key].customer
  <2> SUFFICES ASSUME NEW q \in DOMAIN bids, NEW key \in DOMAIN bids[q]
               PROVE  key \in DOMAIN bids'[q] /\ bids'[q][key].customer = bids[q][key].customer
    OBVIOUS
  <2>1. CASE q # p
    BY <1>3, <2>1
  <2>2. CASE q = p /\ key # r.ingress
    BY <1>5, <1>6, <2>2
  <2>3. CASE q = p /\ key = r.ingress
    <3>1. BidsOK
      BY DEF GInv
    <3>2. bids[q][key].customer = Owner(scene, key)
      BY <3>1, BidOwner
    <3>3. bids[q][key].customer = r.customer
      BY <1>1, <2>3, <3>2
    <3> QED
      BY <1>5, <2>3, <3>3
  <2> QED
    BY <2>1, <2>2, <2>3
<1>9. BidsOK'
  <2>1. DOMAIN bids' = ({Truncated(q.egress) : q \in Requests} \cup Ports)'
    BY <1>3 DEF GInv, BidsOK, Ports
  <2>2. ASSUME NEW q \in DOMAIN bids', NEW key \in DOMAIN bids'[q]
        PROVE  bids'[q][key].customer # "" /\ Owner(scene, key) = bids'[q][key].customer
    <3>1. CASE q = p /\ key = r.ingress
      BY <1>1, <1>5, <3>1
    <3>2. CASE ~(q = p /\ key = r.ingress)
      <4>1. q \in DOMAIN bids /\ key \in DOMAIN bids[q]
        BY <1>3, <1>5, <2>2, <3>2
      <4>2. BidsOK
        BY DEF GInv
      <4>3. bids[q][key].customer # "" /\ Owner(scene, key) = bids[q][key].customer
        BY <4>1, <4>2, BidOwner
      <4>4. bids'[q][key].customer = bids[q][key].customer
        BY <1>8, <4>1
      <4> QED
        BY <4>3, <4>4
    <3> QED
      BY <3>1, <3>2
  <2>3. \A q \in DOMAIN bids' : \A key \in DOMAIN bids'[q] :
          bids'[q][key].customer # "" /\ Owner(scene, key) = bids'[q][key].customer
    BY <2>2
  <2> QED
    BY <1>7, <2>1, <2>3 DEF BidsOK
<1>10. AcceptedIsKept'
  <2> SUFFICES ASSUME NEW b \in accepted'
               PROVE  /\ b.ingress \in DOMAIN bids'[Truncated(b.egress)]
                      /\ bids'[Truncated(b.egress)][b.ingress].customer = b.customer
    BY DEF AcceptedIsKept
  <2>1. CASE b = r
    BY <1>5, <2>1 DEF p
  <2>2. CASE b \in accepted
    <3> DEFINE q == Truncated(b.egress)
    <3>1. q \in DOMAIN bids
      BY <2>2, HasMap DEF GInv, AcceptedOK, Rightful
    <3>2. b.ingress \in DOMAIN bids[q] /\ bids[q][b.ingress].customer = b.customer
      BY <2>2 DEF GInv, AcceptedIsKept
    <3> HIDE DEF q
    <3>3. b.ingress \in DOMAIN bids'[q] /\ bids'[q][b.ingress].customer = b.customer
      BY <1>8, <3>1, <3>2
    <3> QED
      BY <3>3 DEF q
  <2> QED
    BY <1>13, <2>1, <2>2
<1>11. HandlersOK'
  <2>1. \A k \in Handlers : /\ handler'[k].pc # "idle" => Rightful(handler'[k].request)
                            /\ handler'[k].answer = 403 => Wrongful(handler'[k].request)
    BY <1>4 DEF GInv, HandlersOK
  <2> QED
    BY <1>7, <2>1, HandlersFit
<1>12. SceneOK' /\ RoundOK'
  BY RoundUnmoved DEF GInv, SceneOK
<1>14. AcceptedOK'
  <2>1. \A b \in accepted : Rightful(b)
    BY DEF GInv, AcceptedOK
  <2>2. Rightful(r)
    BY <1>1 DEF Rightful
  <2>3. \A b \in accepted' : Rightful(b)
    BY <1>13, <2>1, <2>2
  <2> QED
    BY <1>7, <2>3, AcceptedFit
<1> QED
  BY <1>4, <1>9, <1>10, <1>11, <1>12, <1>14 DEF GInv

LEMMA HandlerStep ==
  ASSUME GInv, NEW h \in Handlers, Handle(h) \/ CreateFails(h) \/ PutFails(h)
  PROVE  GInv'
<1>1. CASE Lookup(h)
  <2>1. ~At(h, "idle") /\ UNCHANGED <<scene, bids, accepted, round>>
    BY <1>1 DEF Lookup, AsideBids, At
  <2>2. Goto(h, "put") \/ Goto(h, "create")
    BY <1>1 DEF Lookup
  <2> QED
    BY <2>1, <2>2, GotoStep
<1>2. CASE Create(h)
  BY <1>2, GotoStep DEF Create, AsideBids, At
<1>3. CASE Assign(h)
  BY <1>3, GotoStep DEF Assign, Writing, AsideBids, At
<1>4. CASE Put(h)
  BY <1>4, StoreBid DEF Put, Acknowledged, AsideBids, Statuses
<1>5. CASE CreateFails(h)
  BY <1>5, RefuseStep DEF CreateFails, AsideBids
<1>6. CASE PutFails(h)
  <2>1. CASE Stored(handler[h].request)
    BY <1>6, <2>1, StoreBid DEF PutFails, AsideBids, Statuses
  <2>2. CASE UNCHANGED bids
    BY <1>6, <2>2, RefuseStep DEF PutFails, AsideBids
  <2> QED
    BY <1>6, <2>1, <2>2 DEF PutFails
<1> QED
  BY <1>1, <1>2, <1>3, <1>4, <1>5, <1>6 DEF Handle

(***************************************************************************)
(* The process dies: what it acknowledged is in the store.                 *)
(***************************************************************************)
LEMMA DiesStep ==
  ASSUME GInv, Dies
  PROVE  GInv'
<1>1. UNCHANGED <<scene, bids, accepted, round>> /\ handler' = [h \in Handlers |-> IdleHandler]
  BY DEF Dies
<1>2. HandlerType'
  BY <1>1 DEF HandlerType, IdleHandler, Statuses
<1>3. \A h \in Handlers : handler'[h].pc = "idle" /\ handler'[h].answer = 0
  BY <1>1 DEF IdleHandler
<1> QED
  BY <1>1, <1>2, <1>3, HandlerMoves

(***************************************************************************)
(* The runner.                                                             *)
(***************************************************************************)
LEMMA ClearStep ==
  ASSUME GInv, ClearBids
  PROVE  GInv'
<1> DEFINE port == round.port
<1>1. /\ UNCHANGED <<scene, handler>>
      /\ accepted' = {r \in accepted : Truncated(r.egress) # port}
      /\ bids' = [bids EXCEPT ![port] = <<>>]
  BY DEF ClearBids, AsideRounds
<1>2. port \in DOMAIN bids
  BY DEF ClearBids, GInv, RoundOK, BidsOK
<1>3. RoundOK'
  BY DEF ClearBids, AsideRounds, GInv, RoundOK, Ports
<1> HIDE DEF port
<1>4. /\ DOMAIN bids' = DOMAIN bids /\ DOMAIN bids'[port] = {}
      /\ \A q \in DOMAIN bids \ {port} : bids'[q] = bids[q]
  BY <1>1, <1>2
<1>5. scene' = scene
  BY <1>1
<1>6. BidsOK'
  <2>1. DOMAIN bids' = ({Truncated(q.egress) : q \in Requests} \cup Ports)'
    BY <1>1, <1>4 DEF GInv, BidsOK, Ports
  <2>2. ASSUME NEW q \in DOMAIN bids', NEW key \in DOMAIN bids'[q]
        PROVE  bids'[q][key].customer # "" /\ Owner(scene, key) = bids'[q][key].customer
    BY <1>4, <2>2 DEF GInv, BidsOK
  <2> QED
    BY <1>5, <2>1, <2>2 DEF BidsOK
<1>7. AcceptedOK'
  BY <1>1, <1>5 DEF GInv, AcceptedOK, Rightful, Owner
<1>8. AcceptedIsKept'
  <2> SUFFICES ASSUME NEW b \in accepted'
               PROVE  /\ b.ingress \in DOMAIN bids'[Truncated(b.egress)]
                      /\ bids'[Truncated(b.egress)][b.ingress].customer = b.customer
    BY DEF AcceptedIsKept
  <2> DEFINE q == Truncated(b.egress)
  <2>1. b \in accepted /\ q # port
    BY <1>1
  <2>2. b.ingress \in DOMAIN bids[q] /\ bids[q][b.ingress].customer = b.customer
    BY <2>1 DEF GInv, AcceptedIsKept
  <2>3. q \in DOMAIN bids
    BY <2>1, HasMap DEF GInv, AcceptedOK, Rightful
  <2> HIDE DEF q
  <2>4. bids'[q] = bids[q]
    BY <1>4, <2>1, <2>3
  <2> QED
    BY <2>2, <2>4 DEF q
<1>9. SceneOK' /\ HandlerType' /\ HandlersOK'
  BY <1>1 DEF GInv, SceneOK, HandlerType, HandlersOK, Rightful, Wrongful, Owner
<1> QED
  BY <1>3, <1>6, <1>7, <1>8, <1>9 DEF GInv

LEMMA RunnerStep ==
  ASSUME GInv, Runner
  PROVE  GInv'
<1>1. ASSUME NEW kind \in {"credits", "utility"}, NEW next \in {"utility", "history"},
             Settle(kind, next)
      PROVE  GInv'
  <2>1. RoundOK'
    BY <1>1 DEF Settle, AsideRounds, GInv, RoundOK, Ports
  <2> QED
    BY <1>1, <2>1, Unmoved DEF Settle, AsideRounds
<1>2. ASSUME StoreHistory PROVE GInv'
  <2>1. RoundOK'
    BY <1>2 DEF StoreHistory, AsideRounds, GInv, RoundOK, Ports
  <2> QED
    BY <1>2, <2>1, Unmoved DEF StoreHistory, AsideRounds
<1> QED
  BY <1>1, <1>2, ClearStep DEF Runner

LEMMA AuctionStep ==
  ASSUME GInv, NEW p \in Ports, NEW alloc \in Outcomes, NEW d \in 0..1,
         Auction(p, alloc, round.interval + d)
  PROVE  GInv'
<1>1. Round(p, alloc, round.interval + d)
  BY DEF Auction
<1>2. RoundOK'
  BY <1>1 DEF Round, AsideRounds, GInv, RoundOK, Ports
<1> QED
  BY <1>1, <1>2, Unmoved DEF Round, AsideRounds

(***************************************************************************)
(* Scrapes read.                                                           *)
(***************************************************************************)
LEMMA ScrapeStep ==
  ASSUME GInv, NEW w \in Scrapers,
         \/ Scrape(w) \/ ListFails(w)
         \/ \E key \in scrape[w].todo : GetEntryFails(w, key) \/ GetRecordFails(w, key)
  PROVE  GInv'
<1>1. AsideScrapes
  <2>1. CASE Scrape(w)
    BY <2>1 DEF Scrape, Begin, NextSection, SetGauge, Serve, GetEntry, ReadAs, GetRecord, Passed,
                SetRecord
  <2> QED
    BY <2>1 DEF ListFails, GetEntryFails, ReadAs, GetRecordFails, Passed
<1> QED
  BY <1>1, RoundUnmoved, Unmoved DEF AsideScrapes

-----------------------------------------------------------------------------
LEMMA GatewayStep ==
  ASSUME GInv, GatewayNext
  PROVE  GInv'
<1>1. CASE \E h \in Handlers : Handle(h) \/ (\E r \in Requests : Receive(h, r))
  BY <1>1, HandlerStep, ReceiveStep
<1>2. CASE \E w \in Scrapers : Scrape(w)
  BY <1>2, ScrapeStep
<1>3. CASE Environment
  <2>1. CASE Runner
    BY <2>1, RunnerStep
  <2>2. CASE \E f \in MeteredFlows : Telemetry(f)
    BY <2>2, RoundUnmoved, Unmoved DEF Telemetry, AsideRounds
  <2> QED
    BY <1>3, <2>1, <2>2 DEF Environment
<1>4. CASE Failure
  <2>1. CASE \E h \in Handlers : CreateFails(h) \/ PutFails(h)
    BY <2>1, HandlerStep
  <2>2. CASE \E w \in Scrapers :
               \/ ListFails(w)
               \/ scrape[w].pc \in Kinds /\ \E key \in scrape[w].todo : GetEntryFails(w, key)
               \/ scrape[w].pc = "history" /\ \E key \in scrape[w].todo : GetRecordFails(w, key)
    BY <2>2, ScrapeStep
  <2>3. CASE Race \/ Crash
    BY <2>3, DiesStep DEF Race, Crash
  <2> QED
    BY <1>4, <2>1, <2>2, <2>3 DEF Failure
<1> QED
  BY <1>1, <1>2, <1>3, <1>4 DEF GatewayNext

LEMMA SceneStays ==
  ASSUME [Next]_vars
  PROVE  scene' = scene
<1>1. CASE \E p \in Ports, alloc \in Outcomes, d \in 0..1 : Auction(p, alloc, round.interval + d)
  BY <1>1 DEF Auction, Round, AsideRounds
<1>2. CASE GatewayNext
  BY <1>2 DEF GatewayNext, Handle, Lookup, Create, Assign, Put, Receive, AsideBids, Scrape, Begin,
     NextSection, SetGauge, Serve, GetEntry, ReadAs, GetRecord, Passed, SetRecord, AsideScrapes,
     Environment, Runner, Settle, StoreHistory, ClearBids, Telemetry, AsideRounds, Failure,
     CreateFails, PutFails, ListFails, GetEntryFails, GetRecordFails, Race, Crash, Dies
<1>3. CASE SwitchNext
  BY <1>3 DEF SwitchNext, OtherResult, ReadResult, CommitResultFails, AsideReader, Tick,
     SwitchRestarts
<1>4. CASE UNCHANGED vars
  BY <1>4 DEF vars
<1> QED
  BY <1>1, <1>2, <1>3, <1>4 DEF Next

LEMMA GInvStep == GInv /\ [Next]_vars => GInv'
<1> SUFFICES ASSUME GInv, [Next]_vars PROVE GInv'
  OBVIOUS
<1>1. CASE \E p \in Ports, alloc \in Outcomes, d \in 0..1 : Auction(p, alloc, round.interval + d)
  BY <1>1, AuctionStep
<1>2. CASE GatewayNext
  BY <1>2, GatewayStep
<1>3. CASE UNCHANGED gatewayVars
  BY <1>3, SceneStays, RoundUnmoved, Unmoved DEF gatewayVars
<1>4. CASE UNCHANGED vars
  BY <1>3, <1>4 DEF vars
<1> QED
  BY <1>1, <1>2, <1>3, <1>4 DEF Next

LEMMA GInvHolds == Spec => []GInv
<1>1. Init => GInv
  BY GInvInit
<1> QED
  BY <1>1, GInvStep, PTL DEF Spec

-----------------------------------------------------------------------------
(***************************************************************************)
(* The gateway refuses no agent its own port of the first switch, in       *)
(* whatever file the programs have loaded.                                 *)
(***************************************************************************)
THEOREM OwnersAreServedHolds == Spec => []OwnersAreServed
<1>1. ASSUME GInv PROVE OwnersAreServed
  <2> SUFFICES ASSUME NEW h \in Handlers, handler[h].answer = 403,
                      <<scene.switches[1].id, Truncated(handler[h].request.ingress)>>
                        \in AgentPorts(scene, handler[h].request.customer)
               PROVE  FALSE
    BY DEF OwnersAreServed
  <2> DEFINE port == Truncated(handler[h].request.ingress)
             customer == handler[h].request.customer
  <2>3. scene \in Scenarios /\ ValidCustomers(scene)
    BY <1>1 DEF GInv, SceneOK
  <2>4. <<scene.switches[1].id, port>> \in AgentPorts(scene, customer)
    OBVIOUS
  <2> HIDE DEF port, customer
  <2>5. CustomerForIngressPort(scene, scene.switches[1].id, port) = customer
    BY <2>3, <2>4, AgentFound
  <2>1. Owner(scene, handler[h].request.ingress) = handler[h].request.customer
    BY <2>5 DEF Owner, port, customer
  <2>2. Wrongful(handler[h].request)
    BY <1>1 DEF GInv, HandlersOK
  <2> QED
    BY <2>1, <2>2 DEF Wrongful
<1> QED
  BY <1>1, GInvHolds, PTL

(***************************************************************************)
(* Bids are for ports of the customer who pays, however many bits the port *)
(* has in the request.                                                     *)
(***************************************************************************)
THEOREM OwnPortsOnlyHolds == Spec => []OwnPortsOnly
<1>1. ASSUME GInv, NEW customer, NEW ingress, customer # "", Owner(scene, ingress) = customer
      PROVE  <<scene.switches[1].id, Truncated(ingress)>> \in AgentPorts(scene, customer)
  BY <1>1, FoundOwns DEF Owner, GInv, SceneOK
<1>2. ASSUME GInv PROVE OwnPortsOnly
  <2>1. ASSUME NEW p \in DOMAIN bids, NEW key \in DOMAIN bids[p]
        PROVE  <<scene.switches[1].id, Truncated(key)>> \in AgentPorts(scene, bids[p][key].customer)
    BY <1>1, <1>2 DEF GInv, BidsOK
  <2> QED
    BY <2>1 DEF OwnPortsOnly
<1> QED
  BY <1>2, GInvHolds, PTL

(***************************************************************************)
(* A bid answered 202 is kept until the runner clears it.                  *)
(***************************************************************************)
THEOREM AcceptedIsKeptHolds == Spec => []AcceptedIsKept
<1>1. GInv => AcceptedIsKept
  BY DEF GInv
<1> QED
  BY <1>1, GInvHolds, PTL

-----------------------------------------------------------------------------
(***************************************************************************)
(* Without a result in JSON the table stays empty, so all that a flow      *)
(* offers is sure, nothing is in excess of it, and all of it is sent.      *)
(***************************************************************************)
AllSent == Enforced => \A f \in SwitchFlows : forwarded[f].tx = forwarded[f].rx
Unheard == (\A n \in DOMAIN results : results[n].format # "json") => DOMAIN table = {} /\ AllSent

UInv ==
  /\ scene \in Scenarios
  /\ offset \in [position : Nat, committed : Nat]
  /\ results \in Seq(Range(results))
  /\ Unheard

LEMMA TickUnheard ==
  ASSUME scene \in Scenarios, DOMAIN table = {}, Tick
  PROVE  AllSent'
<1>1. PICK rx \in Demands(ticks') :
        \E tx \in Sent(rx, Sure(rx)) :
          forwarded' = [f \in SwitchFlows |-> [rx |-> rx[f], kbps |-> AllocatedKbps(f), tx |-> tx[f]]]
  BY DEF Tick
<1>2. PICK tx \in Sent(rx, Sure(rx)) :
        forwarded' = [f \in SwitchFlows |-> [rx |-> rx[f], kbps |-> AllocatedKbps(f), tx |-> tx[f]]]
  BY <1>1
<1>3. scene' = scene
  BY DEF Tick
<1> SUFFICES ASSUME Enforced, NEW f \in SwitchFlows PROVE tx[f] = rx[f]
  <2>1. SwitchFlows' = SwitchFlows /\ (Enforced' => Enforced)
    BY <1>3 DEF SwitchFlows, Enforced, Traffic
  <2> QED
    BY <1>2, <2>1 DEF AllSent
<1>4. tx = [g \in SwitchFlows |-> Sure(rx)[g] + BestEffort(rx, Sure(rx))[g]]
  BY DEF Sent, Enforced
<1>5. Sure(rx)[f] = rx[f]
  BY DEF Sure, AllocatedKbps
<1>6. rx[f] \in Int
  <2> DEFINE rate == Rate(ticks')
  <2>1. rx = [g \in SwitchFlows |-> AtLeastOne(rate * PerKbps)]
    BY DEF Demands, Enforced
  <2>2. Traffic.rate \in Int /\ Traffic.spikeRate \in Int
    BY DEF Traffic, WithDefaults, Or, Scenarios
  <2>3. rate \in Int
    BY <2>2 DEF Rate
  <2> HIDE DEF rate
  <2>4. AtLeastOne(rate * PerKbps) \in Int
    BY <2>3, SwitchAssumption DEF AtLeastOne
  <2> QED
    BY <2>1, <2>4
<1>7. Excess(rx, Sure(rx))[f] = 0
  <2>1. Excess(rx, Sure(rx))[f] = rx[f] - Sure(rx)[f]
    BY DEF Excess
  <2> QED
    BY <1>5, <1>6, <2>1
<1>8. BestEffort(rx, Sure(rx))[f] = 0
  BY <1>7 DEF BestEffort
<1> QED
  BY <1>4, <1>5, <1>6, <1>8

LEMMA ResultsSeq ==
  ASSUME NEW p, NEW alloc \in Outcomes
  PROVE  /\ Results(p, alloc) \in Seq(Range(Results(p, alloc)))
         /\ \A n \in DOMAIN Results(p, alloc) : Results(p, alloc)[n].format = "protobuf"
<1> DEFINE S == DOMAIN alloc
<1>1. IsFiniteSet(S)
  BY OutcomeAssumption
<1>2. Cardinality(S) \in Nat /\ ExistsBijection(1..Cardinality(S), S)
  BY <1>1, FS_CardinalityType
<1> HIDE DEF S
<1>3. \E f \in [1..Cardinality(S) -> S] : IsInjective(f)
  BY <1>2 DEF ExistsBijection, Bijection, Injection
<1>4. SetToSeq(S) \in [1..Cardinality(S) -> S]
  BY <1>3 DEF SetToSeq
<1>5. /\ DOMAIN Results(p, alloc) = 1..Cardinality(S)
      /\ \A n \in DOMAIN Results(p, alloc) : Results(p, alloc)[n].format = "protobuf"
  BY <1>4 DEF Results, S
<1>6. Results(p, alloc) = [n \in 1..Cardinality(S) |-> Results(p, alloc)[n]]
  BY <1>4 DEF Results, S
<1>7. \A n \in 1..Cardinality(S) : Results(p, alloc)[n] \in Range(Results(p, alloc))
  BY <1>5 DEF Range
<1> QED
  BY <1>2, <1>5, <1>6, <1>7

LEMMA PublishSeq ==
  ASSUME results \in Seq(Range(results)), NEW batch, batch \in Seq(Range(batch)), Publish(batch)
  PROVE  /\ results' \in Seq(Range(results'))
         /\ \A n \in DOMAIN results : n \in DOMAIN results' /\ results'[n] = results[n]
         /\ \A n \in DOMAIN batch :
              Len(results) + n \in DOMAIN results' /\ results'[Len(results) + n] = batch[n]
<1> DEFINE All == Range(results) \cup Range(batch)
<1>1. results \in Seq(All) /\ batch \in Seq(All)
  OBVIOUS
<1>2. results' = results \o batch
  BY DEF Publish
<1> HIDE DEF All
<1>3. /\ results' \in Seq(All)
      /\ Len(results') = Len(results) + Len(batch)
      /\ \A i \in 1..(Len(results) + Len(batch)) :
           results'[i] = IF i <= Len(results) THEN results[i] ELSE batch[i - Len(results)]
  BY <1>1, <1>2, ConcatProperties
<1>4. /\ Len(results) \in Nat /\ Len(batch) \in Nat
      /\ DOMAIN results = 1..Len(results) /\ DOMAIN batch = 1..Len(batch)
      /\ DOMAIN results' = 1..Len(results')
  BY <1>1, <1>3, LenProperties
<1>5. /\ \A n \in DOMAIN results : n \in DOMAIN results' /\ results'[n] = results[n]
      /\ \A n \in DOMAIN batch :
           Len(results) + n \in DOMAIN results' /\ results'[Len(results) + n] = batch[n]
  <2>1. ASSUME NEW n \in DOMAIN results PROVE n \in DOMAIN results' /\ results'[n] = results[n]
    BY <1>3, <1>4
  <2>2. ASSUME NEW n \in DOMAIN batch
        PROVE  Len(results) + n \in DOMAIN results' /\ results'[Len(results) + n] = batch[n]
    <3> DEFINE i == Len(results) + n
    <3>1. n \in 1..Len(batch) /\ i \in 1..(Len(results) + Len(batch)) /\ ~(i <= Len(results))
          /\ i - Len(results) = n
      BY <1>4
    <3> HIDE DEF i
    <3>2. i \in DOMAIN results' /\ results'[i] = batch[n]
      BY <1>3, <1>4, <3>1
    <3> QED
      BY <3>2 DEF i
  <2> QED
    BY <2>1, <2>2
<1>6. results' \in Seq(Range(results'))
  <2>1. results' = [n \in 1..Len(results') |-> results'[n]]
    BY <1>3
  <2>2. \A n \in 1..Len(results') : results'[n] \in Range(results')
    BY <1>4 DEF Range
  <2>3. Len(results') \in Nat
    BY <1>3, LenProperties
  <2> QED
    BY <2>1, <2>2, <2>3
<1> QED
  BY <1>5, <1>6

LEMMA UInvInit == Init => UInv
<1> SUFFICES ASSUME NEW load \in Workloads, Load(load.files), SwitchInit(load.switch) PROVE UInv
  BY DEF Init
<1>1. scene \in Scenarios
  BY InitScene DEF SceneOK
<1>2. results = <<>> /\ results \in Seq(Range(results)) /\ offset \in [position : Nat, committed : Nat]
  BY EmptySeq DEF SwitchInit
<1>3. DOMAIN table = {}
  BY DEF SwitchInit
<1>4. AllSent
  BY DEF SwitchInit, NoTraffic, AllSent
<1> QED
  BY <1>1, <1>2, <1>3, <1>4 DEF UInv, Unheard

LEMMA UInvStep == UInv /\ [Next]_vars => UInv'
<1> SUFFICES ASSUME UInv, [Next]_vars PROVE UInv'
  OBVIOUS
<1>1. scene' = scene
  BY SceneStays
<1>2. ASSUME UNCHANGED <<forwarded, table>>, results' \in Seq(Range(results')),
             \A n \in DOMAIN results : n \in DOMAIN results' /\ results'[n] = results[n],
             UNCHANGED offset
      PROVE  UInv'
  BY <1>1, <1>2 DEF UInv, Unheard, AllSent, Enforced, Traffic, SwitchFlows
<1>3. CASE UNCHANGED switchVars
  BY <1>3, <1>2 DEF switchVars, UInv
<1>4. CASE \E p \in Ports, alloc \in Outcomes, d \in 0..1 : Auction(p, alloc, round.interval + d)
  <2>1. PICK p \in Ports, alloc \in Outcomes : Publish(Results(p, alloc))
    BY <1>4 DEF Auction
  <2>2. Results(p, alloc) \in Seq(Range(Results(p, alloc)))
    BY ResultsSeq
  <2>3. UNCHANGED <<forwarded, table, offset>>
    BY <2>1 DEF Publish
  <2> HIDE DEF Results
  <2> QED
    BY <1>2, <2>1, <2>2, <2>3, PublishSeq DEF UInv
<1>5. CASE \E f \in SwitchFlows, kbps \in Kbps : OtherResult(f, kbps)
  <2>1. PICK f \in SwitchFlows, kbps \in Kbps : OtherResult(f, kbps)
    BY <1>5
  <2> DEFINE r == [format |-> "json", ingress |-> f[1], egress |-> f[2], kbps |-> kbps]
             batch == <<r>>
  <2>2. Publish(batch)
    BY <2>1 DEF OtherResult
  <2>3. batch \in Seq(Range(batch)) /\ 1 \in DOMAIN batch /\ batch[1].format = "json"
    BY DEF Range
  <2> HIDE DEF batch
  <2>4. UNCHANGED <<forwarded, table, offset>>
    BY <2>2 DEF Publish
  <2> QED
    BY <1>2, <2>2, <2>3, <2>4, PublishSeq DEF UInv
<1>6. CASE ReadResult \/ CommitResultFails
  <2>1. UNCHANGED <<results, forwarded>> /\ offset' \in [position : Nat, committed : Nat]
    BY <1>6 DEF ReadResult, CommitResultFails, AsideReader, UInv
  <2>2. ASSUME \A n \in DOMAIN results : results[n].format # "json"
        PROVE  DOMAIN table' = {} /\ AllSent'
    <3>1. table' = table
      <4>1. CASE CommitResultFails
        BY <4>1 DEF CommitResultFails
      <4>2. CASE ReadResult
        <5>1. offset.position + 1 \in DOMAIN results
          BY <4>2, LenProperties DEF ReadResult, More, UInv
        <5>2. ~Readable(results[offset.position + 1])
          BY <2>2, <5>1 DEF Readable
        <5> QED
          BY <4>2, <5>2 DEF ReadResult
      <4> QED
        BY <1>6, <4>1, <4>2
    <3> QED
      BY <1>1, <2>1, <2>2, <3>1 DEF UInv, Unheard, AllSent, Enforced, Traffic, SwitchFlows
  <2> QED
    BY <1>1, <2>1, <2>2 DEF UInv, Unheard
<1>7. CASE Tick
  <2>1. UNCHANGED <<results, offset, table>>
    BY <1>7 DEF Tick
  <2>2. DOMAIN table = {} => AllSent'
    BY <1>7, TickUnheard DEF UInv
  <2> QED
    BY <1>1, <2>1, <2>2 DEF UInv, Unheard
<1>8. CASE SwitchRestarts
  <2>1. UNCHANGED <<results, forwarded>> /\ DOMAIN table' = {}
    BY <1>8 DEF SwitchRestarts
  <2>2. offset' \in [position : Nat, committed : Nat]
    BY <1>8 DEF SwitchRestarts, UInv
  <2> QED
    BY <1>1, <2>1, <2>2 DEF UInv, Unheard, AllSent, Enforced, Traffic, SwitchFlows
<1>9. CASE UNCHANGED vars
  BY <1>3, <1>9 DEF vars
<1> QED
  BY <1>3, <1>4, <1>5, <1>6, <1>7, <1>8, <1>9 DEF Next, SwitchNext

(***************************************************************************)
(* What the runner publishes has no effect on any traffic: until someone   *)
(* else writes to the topic, in JSON, all traffic is sent that is not      *)
(* dropped at random, whatever the capacity and the allocations.           *)
(***************************************************************************)
RunnerGoesUnheard == (\A n \in DOMAIN results : results[n].format # "json") => AllSent

THEOREM RunnerGoesUnheardHolds == Spec => []RunnerGoesUnheard
<1>1. UInv => RunnerGoesUnheard
  BY DEF UInv, Unheard, RunnerGoesUnheard
<1> QED
  BY <1>1, UInvInit, UInvStep, PTL DEF Spec

-----------------------------------------------------------------------------
(***************************************************************************)
(* Division rounds down.                                                   *)
(***************************************************************************)
LEMMA Quotient ==
  ASSUME NEW a \in Nat, NEW b \in Nat \ {0}
  PROVE  a \div b \in Nat /\ b * (a \div b) <= a /\ a < b * (a \div b) + b
<1> DEFINE q == a \div b
           r == a % b
<1>1. q \in Int /\ r \in 0..(b-1) /\ a = b * q + r
  OBVIOUS
<1> QED
  BY <1>1

LEMMA OneShare ==
  ASSUME NEW e \in Nat, NEW total \in Nat, e <= total, NEW spare \in Nat, NEW share,
         share = IF e = 0 THEN 0 ELSE Lesser(e, (e * spare) \div total)
  PROVE  /\ share \in 0..e
         /\ total * share <= spare * e
         /\ share = e \/ (spare * e + 1 <= total * (share + 1) /\ spare < total)
<1>1. CASE e = 0
  BY <1>1
<1>2. CASE e > 0
  <2> DEFINE q == (e * spare) \div total
  <2>1. e * spare \in Nat /\ total \in Nat \ {0} /\ spare * e = e * spare
    BY <1>2
  <2>2. q \in Nat /\ total * q <= e * spare /\ e * spare < total * q + total
    BY <2>1, Quotient
  <2>3. share = Lesser(e, q)
    BY <1>2
  <2> HIDE DEF q
  <2>4. CASE e <= q
    <3>1. share = e
      BY <2>3, <2>4 DEF Lesser
    <3>2. total * e <= total * q
      BY <2>2, <2>4
    <3> QED
      BY <2>1, <2>2, <3>1, <3>2
  <2>5. CASE q < e
    <3>1. share = q
      BY <2>2, <2>3, <2>5 DEF Lesser
    <3>2. total * (q + 1) = total * q + total
      BY <2>2
    <3>3. q + 1 <= e
      BY <2>2, <2>5
    <3>4. total * (q + 1) <= total * e
      BY <2>2, <3>3
    <3>5. e * spare < e * total
      BY <2>1, <2>2, <3>2, <3>4
    <3>6. spare < total
      <4> SUFFICES ASSUME total <= spare PROVE FALSE
        OBVIOUS
      <4>1. e * total <= e * spare
        OBVIOUS
      <4> QED
        BY <2>1, <3>5, <4>1
    <3> QED
      BY <2>1, <2>2, <2>5, <3>1, <3>2, <3>6
  <2> QED
    BY <2>2, <2>4, <2>5
<1> QED
  BY <1>1, <1>2

LEMMA SharesFit ==
  ASSUME NEW S, IsFiniteSet(S), NEW e \in [S -> Nat], NEW spare \in Nat, NEW share,
         \A f \in S : share[f] = IF e[f] = 0 THEN 0
                                 ELSE Lesser(e[f], (e[f] * spare) \div SumFunctionOnSet(e, S))
  PROVE  /\ \A f \in S : share[f] \in 0..e[f]
         /\ SumFunctionOnSet(share, S) \in 0..spare
         /\ \/ \A f \in S : share[f] = e[f]
            \/ SumFunctionOnSet(share, S) > spare - Cardinality(S)
<1> DEFINE E == SumFunctionOnSet(e, S)
           Q == SumFunctionOnSet(share, S)
           N == Cardinality(S)
           part == [f \in S |-> E * share[f]]
           limit == [f \in S |-> spare * e[f]]
           one == [f \in S |-> 1]
           above == [f \in S |-> limit[f] + one[f]]
           next == [f \in S |-> share[f] + one[f]]
           most == [f \in S |-> E * next[f]]
<1>1. E \in Nat /\ N \in Nat /\ \A f \in S : e[f] \in Nat /\ e[f] <= E
  BY SumNat, SumHolds, FS_CardinalityType
<1>2. \A f \in S : /\ share[f] \in 0..e[f]
                   /\ E * share[f] <= spare * e[f]
                   /\ share[f] = e[f]
                      \/ (spare * e[f] + 1 <= E * (share[f] + 1) /\ spare < E)
  BY <1>1, OneShare
<1>3. Q \in Nat
  BY <1>2, SumNat
<1>4. SumFunctionOnSet(limit, S) = spare * E
  BY <1>1, SumTimes
<1>5. Q <= spare
  <2>1. SumFunctionOnSet(part, S) = E * Q
    BY <1>1, <1>2, SumTimes
  <2>2. \A f \in S : part[f] \in Int /\ limit[f] \in Int /\ part[f] <= limit[f]
    BY <1>1, <1>2
  <2>3. SumFunctionOnSet(part, S) <= SumFunctionOnSet(limit, S)
    BY <2>2, SumAtMost
  <2>4. CASE E = 0
    <3>1. \A f \in S : e[f] \in Int /\ share[f] = 0 * e[f]
      BY <1>1, <1>2, <2>4
    <3>2. Q = 0 * E
      BY <3>1, SumTimes
    <3> QED
      BY <1>1, <3>2
  <2>5. CASE E > 0
    <3> HIDE DEF E, Q, part, limit
    <3>1. E * Q <= spare * E
      BY <1>4, <2>1, <2>3
    <3> SUFFICES ASSUME spare + 1 <= Q PROVE FALSE
      BY <1>3
    <3>2. E * (spare + 1) <= E * Q
      BY <1>1, <1>3
    <3>3. E * (spare + 1) = spare * E + E
      BY <1>1
    <3> QED
      BY <1>1, <1>3, <2>5, <3>1, <3>2, <3>3
  <2> QED
    BY <1>1, <2>4, <2>5
<1>6. ASSUME \E f \in S : share[f] # e[f] PROVE Q > spare - N
  <2>1. spare < E /\ S # {}
    BY <1>2, <1>6
  <2>2. N > 0
    BY <1>1, <2>1, FS_EmptySet
  <2>3. SumFunctionOnSet(one, S) = N
    BY SumOnes
  <2>4. \A f \in S : spare * e[f] + 1 <= E * (share[f] + 1)
    <3> TAKE f \in S
    <3>1. CASE share[f] = e[f]
      <4>1. e[f] \in Nat /\ spare + 1 <= E
        BY <1>1, <2>1
      <4> DEFINE a == e[f]
      <4>2. (spare + 1) * (a + 1) <= E * (a + 1)
        BY <1>1, <4>1
      <4>3. (spare + 1) * (a + 1) = spare * a + a + spare + 1
        BY <4>1
      <4> QED
        <5> HIDE DEF a, E
        <5>1. spare * a \in Nat /\ E * (a + 1) \in Nat /\ a \in Nat
          BY <1>1, <4>1 DEF a
        <5>2. spare * a + 1 <= E * (a + 1)
          BY <4>2, <4>3, <5>1
        <5> QED
          BY <3>1, <5>2 DEF a
    <3> QED
      BY <1>2, <3>1
  <2>5. SumFunctionOnSet(above, S) = spare * E + N
    <3>1. \A f \in S : limit[f] \in Int /\ one[f] \in Int /\ above[f] = limit[f] + one[f]
      BY <1>1
    <3> QED
      BY <1>4, <2>3, <3>1, SumPlus
  <2>6. SumFunctionOnSet(next, S) = Q + N
    <3>1. \A f \in S : share[f] \in Int /\ one[f] \in Int /\ next[f] = share[f] + one[f]
      BY <1>1, <1>2
    <3> QED
      BY <2>3, <3>1, SumPlus
  <2>7. SumFunctionOnSet(most, S) = E * (Q + N)
    <3>1. \A f \in S : next[f] \in Int /\ most[f] = E * next[f]
      BY <1>1, <1>2
    <3>2. E \in Int
      BY <1>1
    <3> HIDE DEF next, most, E
    <3> QED
      BY <2>6, <3>1, <3>2, SumTimes
  <2>8. SumFunctionOnSet(above, S) <= SumFunctionOnSet(most, S)
    <3>1. \A f \in S : above[f] \in Int /\ most[f] \in Int /\ above[f] <= most[f]
      BY <1>1, <1>2, <2>4
    <3> QED
      BY <3>1, SumAtMost
  <2> HIDE DEF E, Q, N, above, most, next, limit, one, part
  <2>9. spare * E < E * (Q + N)
    BY <1>1, <1>3, <2>2, <2>5, <2>7, <2>8
  <2> SUFFICES ASSUME Q + N <= spare PROVE FALSE
    BY <1>1, <1>3
  <2>10. E * (Q + N) <= E * spare
    BY <1>1, <1>3
  <2> QED
    BY <1>1, <1>3, <2>9, <2>10
<1> QED
  BY <1>2, <1>3, <1>5, <1>6

-----------------------------------------------------------------------------
LEMMA FlowsFinite ==
  ASSUME scene \in Scenarios, scene.switches # <<>>
  PROVE  IsFiniteSet(SwitchFlows) /\ Capacity \in Nat
<1> DEFINE Switch == [id : STRING, ingress : Seq(Nat), egress : Seq(Nat), capacity : Nat]
<1>1. scene.switches \in Seq(Switch)
  BY DEF Scenarios
<1>2. scene.switches[1] \in Switch
  <2> HIDE DEF Switch
  <2>1. 1 \in DOMAIN scene.switches
    BY <1>1, EmptySeq, LenProperties
  <2> QED
    BY <1>1, <2>1, ElementOfSeq
<1>3. ASSUME NEW q, q \in Seq(Nat) PROVE IsFiniteSet(Range(q))
  <2>1. DOMAIN q = 1..Len(q) /\ Len(q) \in Nat
    BY <1>3
  <2>2. IsFiniteSet(DOMAIN q)
    BY <2>1, FS_Interval
  <2>3. q \in Surjection(DOMAIN q, Range(q))
    BY <1>3 DEF Surjection, Range
  <2> QED
    BY <2>2, <2>3, FS_Surjection
<1>4. IsFiniteSet(Range(scene.switches[1].ingress)) /\ IsFiniteSet(Range(scene.switches[1].egress))
  BY <1>2, <1>3
<1>5. IsFiniteSet(SwitchFlows)
  BY <1>4, FS_Product DEF SwitchFlows
<1>6. scene.switches[1].capacity \in Nat
  BY <1>2
<1> QED
  BY <1>5, <1>6, SwitchAssumption DEF Capacity

TableOK == \A f \in DOMAIN table : table[f] \in Nat

LEMMA DemandsNat ==
  ASSUME scene \in Scenarios, NEW count, NEW rx \in Demands(count)
  PROVE  rx \in [SwitchFlows -> Nat]
<1>1. CASE Traffic.pattern = "random"
  BY <1>1, SwitchAssumption DEF Demands
<1>2. CASE Traffic.pattern # "random"
  <2> DEFINE rate == Rate(count)
  <2>1. rx = [g \in SwitchFlows |-> AtLeastOne(rate * PerKbps)]
    BY <1>2 DEF Demands
  <2>2. Traffic.rate \in Int /\ Traffic.spikeRate \in Int
    BY DEF Traffic, WithDefaults, Or, Scenarios
  <2>3. rate \in Int
    BY <2>2 DEF Rate
  <2> HIDE DEF rate
  <2>4. AtLeastOne(rate * PerKbps) \in Nat
    BY <2>3, SwitchAssumption DEF AtLeastOne
  <2> QED
    BY <2>1, <2>4
<1> QED
  BY <1>1, <1>2

LEMMA SureNat ==
  ASSUME TableOK, NEW rx \in [SwitchFlows -> Nat]
  PROVE  /\ Sure(rx) \in [SwitchFlows -> Nat]
         /\ Excess(rx, Sure(rx)) \in [SwitchFlows -> Nat]
         /\ \A f \in SwitchFlows : /\ AllocatedKbps(f) \in Nat
                                   /\ Sure(rx)[f] + Excess(rx, Sure(rx))[f] = rx[f]
<1>1. ASSUME NEW f \in SwitchFlows
      PROVE  AllocatedKbps(f) \in Nat /\ Sure(rx)[f] \in 0..rx[f]
  <2>1. AllocatedKbps(f) \in Nat /\ rx[f] \in Nat
    BY DEF AllocatedKbps, TableOK
  <2>2. AllocatedKbps(f) * PerKbps \in Nat
    BY <2>1, SwitchAssumption
  <2> QED
    BY <2>1, <2>2 DEF Sure, Lesser
<1>2. Sure(rx) \in [SwitchFlows -> Nat]
  BY <1>1 DEF Sure
<1> QED
  BY <1>1, <1>2 DEF Excess

(***************************************************************************)
(* A tick of a producer that enforces allocations.                         *)
(***************************************************************************)
LEMMA EnforcedTick ==
  ASSUME scene \in Scenarios, scene.switches # <<>>, TableOK, NEW rx \in [SwitchFlows -> Nat],
         NEW tx, tx = [f \in SwitchFlows |-> Sure(rx)[f] + BestEffort(rx, Sure(rx))[f]]
  PROVE  /\ \A f \in SwitchFlows : tx[f] \in Sure(rx)[f]..rx[f]
         /\ SumOf(tx) <= IF SumOf(Sure(rx)) <= Capacity THEN Capacity ELSE SumOf(Sure(rx))
         /\ \/ \A f \in SwitchFlows : tx[f] = rx[f]
            \/ SumOf(tx) > Capacity - Cardinality(SwitchFlows)
<1> DEFINE S == SwitchFlows
           sure == Sure(rx)
           e == Excess(rx, sure)
           share == BestEffort(rx, sure)
<1>1. IsFiniteSet(S) /\ Capacity \in Nat /\ Cardinality(S) \in Nat
  BY FlowsFinite, FS_CardinalityType
<1>2. /\ sure \in [S -> Nat] /\ e \in [S -> Nat]
      /\ \A f \in S : sure[f] + e[f] = rx[f]
  BY SureNat
<1>3. SumOf(sure) \in Nat /\ Spare(sure) \in Nat
  BY <1>1, <1>2, SumNat DEF SumOf, Spare
<1>4. \A f \in S : share[f] = IF e[f] = 0 THEN 0
                                ELSE Lesser(e[f], (e[f] * Spare(sure)) \div SumFunctionOnSet(e, S))
  BY DEF BestEffort, SumOf
<1>5. \A f \in S : tx[f] = sure[f] + share[f]
  OBVIOUS
<1> HIDE DEF sure, e, share, S
<1>6. /\ \A f \in S : share[f] \in 0..e[f]
      /\ SumFunctionOnSet(share, S) \in 0..Spare(sure)
      /\ \/ \A f \in S : share[f] = e[f]
         \/ SumFunctionOnSet(share, S) > Spare(sure) - Cardinality(S)
  BY <1>1, <1>2, <1>3, <1>4, SharesFit
<1>7. SumFunctionOnSet(tx, S) = SumFunctionOnSet(sure, S) + SumFunctionOnSet(share, S)
  <2>1. \A f \in S : sure[f] \in Int /\ share[f] \in Int /\ tx[f] = sure[f] + share[f]
    <3> TAKE f \in S
    <3>1. sure[f] \in Nat /\ e[f] \in Nat
      BY <1>2 DEF S
    <3>2. share[f] \in 0..e[f]
      BY <1>6
    <3>3. tx[f] = sure[f] + share[f]
      BY <1>5
    <3> QED
      BY <3>1, <3>2, <3>3
  <2> QED
    BY <1>1, <2>1, SumPlus
<1>8. SumOf(tx) = SumOf(sure) + SumFunctionOnSet(share, S)
  BY <1>7 DEF SumOf, S
<1>9. \A f \in S : tx[f] \in sure[f]..rx[f] /\ (share[f] = e[f] => tx[f] = rx[f])
  <2> TAKE f \in S
  <2>1. sure[f] \in Nat /\ e[f] \in Nat /\ rx[f] \in Nat /\ sure[f] + e[f] = rx[f]
    BY <1>2 DEF S
  <2>2. share[f] \in 0..e[f] /\ tx[f] = sure[f] + share[f]
    BY <1>5, <1>6
  <2> QED
    BY <2>1, <2>2
<1>10. SumOf(tx) <= IF SumOf(sure) <= Capacity THEN Capacity ELSE SumOf(sure)
  <2>1. SumOf(sure) + Spare(sure) = IF SumOf(sure) <= Capacity THEN Capacity ELSE SumOf(sure)
    BY <1>1, <1>3 DEF Spare
  <2> QED
    BY <1>1, <1>3, <1>6, <1>8, <2>1
<1>11. (\A f \in S : tx[f] = rx[f]) \/ SumOf(tx) > Capacity - Cardinality(S)
  <2>1. SumOf(sure) + Spare(sure) >= Capacity
    BY <1>1, <1>3 DEF Spare
  <2>2. CASE \A f \in S : share[f] = e[f]
    BY <1>9, <2>2
  <2>3. CASE SumFunctionOnSet(share, S) > Spare(sure) - Cardinality(S)
    BY <1>1, <1>3, <1>6, <1>8, <2>1, <2>3
  <2> QED
    BY <1>6, <2>2, <2>3
<1> QED
  BY <1>9, <1>10, <1>11 DEF S, sure

(***************************************************************************)
(* What a tick of the switch leaves in forwarded and counters.             *)
(***************************************************************************)
Counters == [SwitchFlows -> [rx : Nat, tx : Nat]]
Forwarded == [SwitchFlows -> [rx : Nat, kbps : Nat, tx : Nat]]
FlowsOK ==
  /\ counters \in Counters /\ forwarded \in Forwarded
  /\ \A f \in SwitchFlows : counters[f].tx <= counters[f].rx

LEMMA TickFits ==
  ASSUME scene \in Scenarios, scene.switches # <<>>, TableOK, FlowsOK, Tick
  PROVE  FlowsOK' /\ EgressFits' /\ NoCapacityIdle'
<1>0. scene' = scene
  BY DEF Tick
<1> PICK rx \in Demands(ticks') : \E tx \in Sent(rx, Sure(rx)) :
        /\ forwarded' = [f \in SwitchFlows |-> [rx |-> rx[f], kbps |-> AllocatedKbps(f), tx |-> tx[f]]]
        /\ counters' = [f \in SwitchFlows |-> [rx |-> counters[f].rx + rx[f],
                                               tx |-> counters[f].tx + tx[f]]]
  BY DEF Tick
<1>1. PICK tx \in Sent(rx, Sure(rx)) :
        /\ forwarded' = [f \in SwitchFlows |-> [rx |-> rx[f], kbps |-> AllocatedKbps(f), tx |-> tx[f]]]
        /\ counters' = [f \in SwitchFlows |-> [rx |-> counters[f].rx + rx[f],
                                               tx |-> counters[f].tx + tx[f]]]
  OBVIOUS
<1>2. rx \in [SwitchFlows -> Nat]
  BY <1>1, DemandsNat
<1>3. /\ Sure(rx) \in [SwitchFlows -> Nat]
      /\ \A f \in SwitchFlows : AllocatedKbps(f) \in Nat /\ Sure(rx)[f] \in Nat
  BY <1>2, SureNat
<1>4. /\ SwitchFlows' = SwitchFlows /\ Capacity' = Capacity /\ Enforced' = Enforced
      /\ Traffic' = Traffic
  BY <1>0 DEF SwitchFlows, Capacity, Enforced, Traffic
<1>5. ASSUME Enforced
      PROVE  tx = [f \in SwitchFlows |-> Sure(rx)[f] + BestEffort(rx, Sure(rx))[f]]
  BY <1>1, <1>5 DEF Sent, Enforced
<1>6. \A f \in SwitchFlows : tx[f] \in 0..rx[f]
  <2>1. CASE Enforced
    <3>1. \A f \in SwitchFlows : tx[f] \in Sure(rx)[f]..rx[f] /\ rx[f] \in Nat
      BY <1>2, <1>5, <2>1, EnforcedTick
    <3> QED
      BY <1>3, <3>1
  <2>2. CASE ~Enforced
    <3>1. PICK drop \in [SwitchFlows -> RandomDrop] : tx = [f \in SwitchFlows |-> rx[f] - drop[f]]
      BY <1>1, <2>2 DEF Sent, Enforced
    <3>2. rx \in [SwitchFlows -> RandomDemand]
      BY <1>1, <2>2 DEF Demands, Enforced
    <3>3. \A f \in SwitchFlows : drop[f] \in Nat /\ rx[f] \in Nat /\ drop[f] <= rx[f]
      BY <3>1, <3>2, SwitchAssumption
    <3> QED
      BY <3>1, <3>3
  <2> QED
    BY <2>1, <2>2
<1>7. FlowsOK'
  <2>1. \A f \in SwitchFlows : /\ rx[f] \in Nat /\ tx[f] \in Nat /\ tx[f] <= rx[f]
                               /\ AllocatedKbps(f) \in Nat
                               /\ counters[f].rx \in Nat /\ counters[f].tx \in Nat
                               /\ counters[f].tx <= counters[f].rx
    BY <1>2, <1>3, <1>6 DEF FlowsOK, Counters
  <2>2. forwarded' \in Forwarded
    BY <1>1, <2>1 DEF Forwarded
  <2>3. \A f \in SwitchFlows : /\ counters[f].rx + rx[f] \in Nat /\ counters[f].tx + tx[f] \in Nat
                               /\ counters[f].tx + tx[f] <= counters[f].rx + rx[f]
    BY <2>1
  <2>4. counters' \in Counters /\ \A f \in SwitchFlows : counters'[f].tx <= counters'[f].rx
    BY <1>1, <2>3 DEF Counters
  <2> QED
    BY <1>4, <2>2, <2>4 DEF FlowsOK, Forwarded, Counters
<1>8. ASSUME NEW f \in SwitchFlows
      PROVE  /\ forwarded'[f].rx = rx[f] /\ forwarded'[f].tx = tx[f]
             /\ forwarded'[f].kbps = AllocatedKbps(f)
  BY <1>1
<1>9. ASSUME NEW f \in SwitchFlows PROVE Due(f)' = Sure(rx)[f]
  BY <1>8 DEF Due, Sure
<1>10. TotalDue' = SumOf(Sure(rx))
  <2>1. IsFiniteSet(SwitchFlows)
    BY FlowsFinite
  <2>2. TotalDue' = SumFunctionOnSet([f \in SwitchFlows |-> Due(f)'], SwitchFlows)
    BY <1>4 DEF TotalDue, SumOf
  <2> DEFINE due == [f \in SwitchFlows |-> Due(f)']
  <2>3. \A f \in SwitchFlows : due[f] = Sure(rx)[f]
    BY <1>9
  <2> HIDE DEF due
  <2> QED
    BY <2>1, <2>2, <2>3, SumSame DEF SumOf, due
<1>11. TotalSent' = SumOf(tx)
  <2>1. IsFiniteSet(SwitchFlows)
    BY FlowsFinite
  <2>2. TotalSent' = SumFunctionOnSet([f \in SwitchFlows |-> forwarded'[f].tx], SwitchFlows)
    BY <1>4 DEF TotalSent, SumOf
  <2> DEFINE sent == [f \in SwitchFlows |-> forwarded'[f].tx]
  <2>3. \A f \in SwitchFlows : sent[f] = tx[f]
    BY <1>8
  <2> HIDE DEF sent
  <2> QED
    BY <2>1, <2>2, <2>3, SumSame DEF SumOf, sent
<1>12. ASSUME Enforced
       PROVE  /\ \A f \in SwitchFlows : tx[f] \in Sure(rx)[f]..rx[f]
              /\ SumOf(tx) <= IF SumOf(Sure(rx)) <= Capacity THEN Capacity ELSE SumOf(Sure(rx))
              /\ \/ \A f \in SwitchFlows : tx[f] = rx[f]
                 \/ SumOf(tx) > Capacity - Cardinality(SwitchFlows)
  BY <1>2, <1>5, <1>12, EnforcedTick
<1>13. EgressFits'
  BY <1>4, <1>8, <1>9, <1>10, <1>11, <1>12 DEF EgressFits
<1>14. NoCapacityIdle'
  BY <1>4, <1>8, <1>11, <1>12 DEF NoCapacityIdle
<1> QED
  BY <1>7, <1>13, <1>14

-----------------------------------------------------------------------------
(***************************************************************************)
(* What the switch has read, and what it may: results in JSON allot a      *)
(* number, and the table holds what they allot.                            *)
(***************************************************************************)
ResultsOK == \A n \in DOMAIN results : results[n].format = "json" => results[n].kbps \in Nat
OffsetOK ==
  /\ offset \in [position : Nat, committed : Nat]
  /\ offset.committed <= offset.position /\ offset.position <= Len(results)

SwInv ==
  /\ scene \in Scenarios /\ scene.switches # <<>>
  /\ results \in Seq(Range(results))
  /\ ResultsOK /\ OffsetOK /\ TableOK /\ FlowsOK /\ EgressFits /\ NoCapacityIdle

LEMMA SwInvInit == Init => SwInv
<1> SUFFICES ASSUME NEW load \in Workloads, Load(load.files), SwitchInit(load.switch) PROVE SwInv
  BY DEF Init
<1>1. scene \in Scenarios /\ scene.switches # <<>>
  BY InitScene DEF SceneOK
<1>2. results = <<>> /\ results \in Seq(Range(results)) /\ Len(results) = 0 /\ DOMAIN results = {}
  BY EmptySeq DEF SwitchInit
<1>3. ResultsOK /\ OffsetOK
  BY <1>2 DEF SwitchInit, ResultsOK, OffsetOK
<1>4. TableOK
  BY DEF SwitchInit, TableOK
<1>5. FlowsOK
  BY DEF SwitchInit, FlowsOK, Counters, Forwarded, NoCounts, NoTraffic
<1>6. \A f \in SwitchFlows : forwarded[f].rx = 0 /\ forwarded[f].kbps = 0 /\ forwarded[f].tx = 0
  BY DEF SwitchInit, NoTraffic
<1>7. TotalDue = TotalSent /\ TotalDue \in Nat /\ Capacity \in Nat
  <2> DEFINE due == [f \in SwitchFlows |-> Due(f)]
             sent == [f \in SwitchFlows |-> forwarded[f].tx]
  <2>1. \A f \in SwitchFlows : due[f] = sent[f]
    BY <1>6 DEF Due
  <2>2. IsFiniteSet(SwitchFlows) /\ Capacity \in Nat
    BY <1>1, FlowsFinite
  <2>3. TotalDue = SumFunctionOnSet(due, SwitchFlows) /\ TotalSent = SumFunctionOnSet(sent, SwitchFlows)
    BY DEF TotalDue, TotalSent, SumOf
  <2>4. due \in [SwitchFlows -> Nat]
    BY <1>6 DEF Due
  <2> HIDE DEF due, sent
  <2>5. TotalDue \in Nat
    BY <2>2, <2>3, <2>4, SumNat
  <2> QED
    BY <2>1, <2>2, <2>3, <2>5, SumSame
<1>8. EgressFits
  BY <1>6, <1>7 DEF EgressFits, Due
<1>9. NoCapacityIdle
  BY <1>6 DEF NoCapacityIdle
<1> QED
  BY <1>1, <1>2, <1>3, <1>4, <1>5, <1>8, <1>9 DEF SwInv

(***************************************************************************)
(* Steps that add results, and steps of the reader.                        *)
(***************************************************************************)
LEMMA SameTraffic ==
  ASSUME SwInv, UNCHANGED <<scene, forwarded>>,
         \A f \in SwitchFlows : counters'[f].tx <= counters'[f].rx, counters' \in Counters
  PROVE  FlowsOK' /\ EgressFits' /\ NoCapacityIdle'
<1>1. SwitchFlows' = SwitchFlows /\ Capacity' = Capacity /\ Enforced' = Enforced
  BY DEF SwitchFlows, Capacity, Enforced, Traffic
<1>2. \A f \in SwitchFlows : Due(f)' = Due(f)
  BY DEF Due
<1>3. TotalDue' = TotalDue /\ TotalSent' = TotalSent
  BY <1>1 DEF TotalDue, TotalSent, SumOf, Due
<1> QED
  BY <1>1, <1>2, <1>3 DEF SwInv, FlowsOK, EgressFits, NoCapacityIdle, Counters, Forwarded

LEMMA MoreResults ==
  ASSUME SwInv, UNCHANGED scene, NEW batch, batch \in Seq(Range(batch)), Publish(batch),
         \A n \in DOMAIN batch : batch[n].format = "json" => batch[n].kbps \in Nat
  PROVE  SwInv'
<1>1. UNCHANGED <<offset, table, counters, ticks, forwarded>>
  BY DEF Publish
<1>2. results \in Seq(Range(results))
  BY DEF SwInv
<1>3. results' \in Seq(Range(results'))
  BY <1>2, PublishSeq
<1>4. /\ Len(results') = Len(results) + Len(batch)
      /\ Len(results) \in Nat /\ Len(batch) \in Nat
      /\ \A n \in 1..Len(results') :
           IF n <= Len(results) THEN results'[n] = results[n]
           ELSE results'[n] = batch[n - Len(results)]
  BY <1>2, <1>3 DEF Publish
<1>5. ResultsOK'
  <2> SUFFICES ASSUME NEW n \in DOMAIN results', results'[n].format = "json"
               PROVE  results'[n].kbps \in Nat
    BY DEF ResultsOK
  <2>1. n \in 1..Len(results')
    BY <1>3, LenProperties
  <2>2. CASE n <= Len(results)
    <3>1. n \in DOMAIN results /\ results'[n] = results[n]
      BY <1>2, <1>4, <2>1, <2>2, LenProperties
    <3> QED
      BY <3>1 DEF SwInv, ResultsOK
  <2>3. CASE ~(n <= Len(results))
    <3>1. n - Len(results) \in DOMAIN batch /\ results'[n] = batch[n - Len(results)]
      BY <1>4, <2>1, <2>3, LenProperties
    <3> QED
      BY <3>1
  <2> QED
    BY <2>2, <2>3
<1>6. OffsetOK'
  BY <1>1, <1>4 DEF SwInv, OffsetOK
<1>7. TableOK'
  BY <1>1 DEF SwInv, TableOK
<1>8. FlowsOK' /\ EgressFits' /\ NoCapacityIdle'
  BY <1>1, SameTraffic DEF SwInv, FlowsOK
<1> QED
  BY <1>3, <1>5, <1>6, <1>7, <1>8 DEF SwInv

LEMMA SwInvStep == SwInv /\ [Next]_vars => SwInv'
<1> SUFFICES ASSUME SwInv, [Next]_vars PROVE SwInv'
  OBVIOUS
<1>0. scene' = scene
  BY SceneStays
<1>1. ASSUME UNCHANGED <<results, forwarded>>, OffsetOK', TableOK',
             counters' \in Counters, \A f \in SwitchFlows : counters'[f].tx <= counters'[f].rx
      PROVE  SwInv'
  <2>1. FlowsOK' /\ EgressFits' /\ NoCapacityIdle'
    BY <1>0, <1>1, SameTraffic
  <2> QED
    BY <1>0, <1>1, <2>1 DEF SwInv, ResultsOK
<1>2. CASE UNCHANGED switchVars
  BY <1>1, <1>2 DEF switchVars, SwInv, OffsetOK, TableOK, FlowsOK
<1>3. CASE \E p \in Ports, alloc \in Outcomes, d \in 0..1 : Auction(p, alloc, round.interval + d)
  <2>1. PICK p \in Ports, alloc \in Outcomes : Publish(Results(p, alloc))
    BY <1>3 DEF Auction
  <2>2. /\ Results(p, alloc) \in Seq(Range(Results(p, alloc)))
        /\ \A n \in DOMAIN Results(p, alloc) : Results(p, alloc)[n].format = "protobuf"
    BY ResultsSeq
  <2> HIDE DEF Results
  <2> QED
    BY <1>0, <2>1, <2>2, MoreResults
<1>4. CASE \E f \in SwitchFlows, kbps \in Kbps : OtherResult(f, kbps)
  <2>1. PICK f \in SwitchFlows, kbps \in Kbps : OtherResult(f, kbps)
    BY <1>4
  <2> DEFINE r == [format |-> "json", ingress |-> f[1], egress |-> f[2], kbps |-> kbps]
             batch == <<r>>
  <2>2. Publish(batch)
    BY <2>1 DEF OtherResult
  <2>3. batch \in Seq(Range(batch)) /\ \A n \in DOMAIN batch : batch[n].kbps \in Nat
    BY SwitchAssumption DEF Range
  <2> HIDE DEF batch
  <2> QED
    BY <1>0, <2>2, <2>3, MoreResults
<1>5. CASE ReadResult \/ CommitResultFails
  <2>1. UNCHANGED <<results, counters, forwarded>>
    BY <1>5 DEF ReadResult, CommitResultFails, AsideReader
  <2>2. OffsetOK'
    <3>1. Len(results) \in Nat
      BY LenProperties DEF SwInv
    <3> QED
      BY <1>5, <2>1, <3>1 DEF ReadResult, CommitResultFails, More, SwInv, OffsetOK
  <2>3. TableOK'
    <3>1. CASE table' = table
      BY <3>1 DEF SwInv, TableOK
    <3>2. CASE ReadResult /\ table' # table
      <4> DEFINE r == results[offset.position + 1]
                 f == <<r.ingress, r.egress>>
      <4>1. offset.position + 1 \in DOMAIN results
        BY <3>2, LenProperties DEF ReadResult, More, SwInv, OffsetOK
      <4>2. Readable(r) /\ table' = [g \in DOMAIN table \cup {f} |-> IF g = f THEN r.kbps ELSE table[g]]
        BY <3>2 DEF ReadResult
      <4>3. r.kbps \in Nat
        BY <4>1, <4>2 DEF Readable, SwInv, ResultsOK
      <4> HIDE DEF r, f
      <4> QED
        BY <4>2, <4>3 DEF SwInv, TableOK
    <3> QED
      BY <1>5, <3>1, <3>2 DEF CommitResultFails
  <2> QED
    BY <1>1, <2>1, <2>2, <2>3 DEF SwInv, FlowsOK
<1>6. CASE Tick
  <2>1. UNCHANGED <<results, offset, table>>
    BY <1>6 DEF Tick
  <2>2. FlowsOK' /\ EgressFits' /\ NoCapacityIdle'
    BY <1>6, TickFits DEF SwInv
  <2> QED
    BY <1>0, <2>1, <2>2 DEF SwInv, ResultsOK, OffsetOK, TableOK
<1>7. CASE SwitchRestarts
  <2>1. UNCHANGED <<results, forwarded>> /\ table' = <<>> /\ counters' = NoCounts
    BY <1>7 DEF SwitchRestarts
  <2>2. OffsetOK'
    BY <1>7, LenProperties DEF SwitchRestarts, SwInv, OffsetOK
  <2> QED
    BY <1>1, <2>1, <2>2 DEF TableOK, NoCounts, Counters
<1>8. CASE UNCHANGED vars
  BY <1>2, <1>8 DEF vars
<1> QED
  BY <1>2, <1>3, <1>4, <1>5, <1>6, <1>7, <1>8 DEF Next, SwitchNext

LEMMA SwInvHolds == Spec => []SwInv
BY SwInvInit, SwInvStep, PTL DEF Spec

(***************************************************************************)
(* With steady traffic or a spike, whatever the flows and the allocations, *)
(* and however often the switch restarts: an interval sends no flow more   *)
(* than it offers or less than is its due, and all flows of the first      *)
(* switch together more than its capacity only if what is due exceeds it,  *)
(* and then no more than that.                                             *)
(***************************************************************************)
THEOREM EgressFitsHolds == Spec => []EgressFits
<1>1. SwInv => EgressFits
  BY DEF SwInv
<1> QED
  BY <1>1, SwInvHolds, PTL

(***************************************************************************)
(* With the same traffic: unless all that is offered is sent, rounding     *)
(* down leaves less than a byte of the switch's capacity idle for each of  *)
(* its flows.                                                              *)
(***************************************************************************)
THEOREM NoCapacityIdleHolds == Spec => []NoCapacityIdle
<1>1. SwInv => NoCapacityIdle
  BY DEF SwInv
<1> QED
  BY <1>1, SwInvHolds, PTL

-----------------------------------------------------------------------------
(***************************************************************************)
(* What the programs around the gateway have stored, and what its gauges   *)
(* and scrapes have of that.  The record of a round is in the history once *)
(* the round is past it; rounds are numbered in the order of their         *)
(* intervals.                                                              *)
(***************************************************************************)
LeftOK ==
  /\ left \in [posts : Nat, rounds : Nat, reports : Nat, faults : Nat, failed : Nat,
              scrapers : SUBSET Scrapers]
  /\ deaths \in Nat
MapsOK == maps \subseteq DOMAIN bids

StoreOK ==
  /\ store = [kind \in Kinds |-> store[kind]]
  /\ \A kind \in Kinds : store[kind] \in [Metered(kind) -> Nat]
  /\ \A kind \in {"credits", "utility"} : \A c \in Agents(scene) : store[kind][c] <= round.number
GaugeOK ==
  /\ gauge = [kind \in Kinds |-> gauge[kind]]
  /\ \A kind \in Kinds : /\ gauge[kind] \in [Metered(kind) -> Nat]
                          /\ \A key \in Metered(kind) : gauge[kind][key] <= store[kind][key]

KeyOf(r) == <<r.interval, r.port>>
RecordType == [interval : Nat, port : Ports, number : Nat, won : Outcomes \cup {<<>>}]
Past(n) == n <= round.number /\ (round.pc \in {"credits", "utility", "history"} => n < round.number)
Later(q, r) == q.interval < r.interval => q.number < r.number

HistoryOK ==
  /\ history \subseteq RecordType
  /\ \A r \in history : /\ r.interval <= round.interval /\ Past(r.number)
                        /\ \A c \in Winners(r.won) : store["utility"][c] >= r.number
  /\ \A q, r \in history : Later(q, r) /\ (KeyOf(q) = KeyOf(r) => q = r)
  /\ round.pc \in {"history", "clear"} =>
       \A c \in Winners(round.won) : store["utility"][c] >= round.number

Overtaken(p, n) == \E r \in history : r.port = p /\ r.number >= n
ShownOK ==
  /\ shown \in [Ports -> Nat] /\ won = [p \in Ports |-> won[p]]
  /\ \A p \in Ports : /\ Past(shown[p]) /\ (shown[p] # 0 => Overtaken(p, shown[p]))
                      /\ DOMAIN won[p] \subseteq Agents(scene)

(***************************************************************************)
(* Scrapes: what they have still to read, and have read.                   *)
(***************************************************************************)
Sections == {"idle", "begin", "history", "serve"} \cup Kinds
MetricKeys == MeteredFlows \cup Agents(scene)
ScrapeType == [pc : Sections, todo : SUBSET (MetricKeys \cup (Nat \X Ports)),
               read : {<<>>} \cup (MetricKeys \X Nat), latest : SUBSET RecordType, alone : BOOLEAN]

Reading(s) ==
  /\ s.pc \in Kinds => s.todo \subseteq Metered(s.pc)
  /\ s.read # <<>> => /\ s.pc \in Kinds /\ s.read[1] \in Metered(s.pc)
                      /\ s.read[2] <= store[s.pc][s.read[1]]
  /\ s.latest # {} => s.pc = "history"
  /\ \A r \in s.latest :
       /\ r.interval <= round.interval /\ Past(r.number) /\ Overtaken(r.port, r.number)
       /\ KeyOf(r) \notin s.todo
       /\ \A q \in history : Later(q, r) /\ Later(r, q)
       /\ \A q \in s.latest : q.port = r.port => q = r

ScrapesOK == scrape \in [Scrapers -> ScrapeType] /\ \A w \in Scrapers : Reading(scrape[w])

LoneOK == \A w \in Scrapers : scrape[w].alone => \A v \in Scrapers \ {w} : ~Active(v)

(***************************************************************************)
(* A scrape that is alone, with nothing failed: it takes no gauge back,    *)
(* and from where it turns to the utilities, it has covered the winners of *)
(* the rounds that are shown, or is about to.                              *)
(***************************************************************************)
GoesOn(s) == s.pc \in Kinds /\ s.read # <<>> => s.read[2] >= gauge[s.pc][s.read[1]]

Ahead(s, p) ==
  \/ shown[p] = 0
  \/ s.todo = {} /\ \A r \in s.latest : r.port # p
  \/ \E r \in history : r.port = p /\ r.number >= shown[p] /\ KeyOf(r) \in s.todo
  \/ \E r \in s.latest : r.port = p /\ r.number >= shown[p]

Covers(s, c, n) ==
  \/ s.pc = "utility" /\ c \in s.todo
  \/ s.pc = "utility" /\ s.read # <<>> /\ s.read[1] = c /\ s.read[2] >= n
  \/ gauge["utility"][c] >= n

Calm(s) ==
  /\ GoesOn(s)
  /\ s.pc = "history" => \A p \in Ports : Ahead(s, p)
  /\ s.pc \in {"utility", "serve"} =>
       \A r \in history : r.number = shown[r.port] => \A c \in Winners(r.won) : Covers(s, c, r.number)

CalmOK == left.failed = 0 => \A w \in Scrapers : scrape[w].alone => Calm(scrape[w])

MInv == /\ GInv /\ LeftOK /\ MapsOK /\ StoreOK /\ GaugeOK /\ HistoryOK /\ ShownOK
        /\ ScrapesOK /\ LoneOK /\ CalmOK

-----------------------------------------------------------------------------
LEMMA WinnersAreAgents ==
  ASSUME SceneOK, NEW alloc
  PROVE  Winners(alloc) \subseteq Agents(scene)
<1> SUFFICES ASSUME NEW c \in Winners(alloc) PROVE c \in Agents(scene)
  OBVIOUS
<1> DEFINE switch == scene.switches[1].id
<1>1. PICK q \in DOMAIN alloc : c = Winner(q) /\ c # ""
  BY DEF Winners
<1>2. PICK i : i \in Owners(scene, switch, Truncated(q))
  BY <1>1, NoLookUp DEF Winner
<1>3. c = scene.customers[i].id
  BY <1>1, <1>2, LookUp DEF Winner, SceneOK
<1>4. i \in DOMAIN scene.customers
  BY <1>2 DEF Owners
<1> QED
  BY <1>3, <1>4 DEF Agents, Range

LEMMA MInvInit == Init => MInv
<1> SUFFICES ASSUME NEW load \in Workloads, Load(load.files), GatewayInit(load.gateway), GInv
             PROVE  MInv
  BY GInvInit DEF Init
<1> USE DEF GatewayInit
<1>1. LeftOK /\ MapsOK
  <2>1. load.gateway \in [posts : Nat, rounds : Nat, reports : Nat, faults : Nat, failed : {0},
                         scrapers : SUBSET Scrapers]
    BY WorkloadAssumption
  <2> QED
    BY <2>1 DEF LeftOK, MapsOK
<1>2. \A kind \in Kinds : /\ store[kind] = [key \in Metered(kind) |-> 0]
                          /\ gauge[kind] = [key \in Metered(kind) |-> 0]
  BY DEF Nothing
<1>3. StoreOK
  BY <1>2 DEF StoreOK, Nothing, NoRound, Metered, Kinds
<1>4. GaugeOK
  BY <1>2 DEF GaugeOK, Nothing
<1>5. HistoryOK /\ ShownOK
  BY DEF HistoryOK, ShownOK, NoRound, Past
<1>6. \A w \in Scrapers : scrape[w] = IdleScrape
  OBVIOUS
<1>7. IdleScrape \in ScrapeType /\ Reading(IdleScrape) /\ ~IdleScrape.alone
  BY DEF IdleScrape, ScrapeType, Sections, Reading, Kinds
<1>8. ScrapesOK /\ LoneOK /\ CalmOK
  BY <1>6, <1>7 DEF ScrapesOK, LoneOK, CalmOK
<1> QED
  BY <1>1, <1>3, <1>4, <1>5, <1>8 DEF MInv

(***************************************************************************)
(* Steps of the handlers and of the switch.                                *)
(***************************************************************************)
LEMMA AsideMetrics ==
  ASSUME MInv, GInv', LeftOK', MapsOK', left'.failed = 0 => left.failed = 0,
         UNCHANGED <<scene, round, store, history, scrape, gauge, shown, won>>
  PROVE  MInv'
<1>1. /\ Kinds' = Kinds /\ \A kind : Metered(kind)' = Metered(kind)
      /\ \A alloc : Winners(alloc)' = Winners(alloc)
      /\ Ports' = Ports /\ Agents(scene)' = Agents(scene)
  BY DEF Kinds, Metered, Winners, Winner, Ports
<1>2. StoreOK' /\ GaugeOK'
  BY <1>1 DEF MInv, StoreOK, GaugeOK
<1>3. HistoryOK' /\ ShownOK'
  BY <1>1 DEF MInv, HistoryOK, ShownOK, Past, Overtaken, RecordType
<1>4. ScrapesOK'
  BY <1>1 DEF MInv, ScrapesOK, Reading, ScrapeType, Sections, MetricKeys, RecordType, Past, Overtaken
<1>5. LoneOK'
  BY DEF MInv, LoneOK, Active
<1>6. CalmOK'
  BY <1>1 DEF MInv, CalmOK, Calm, GoesOn, Ahead, Covers
<1> QED
  BY <1>2, <1>3, <1>4, <1>5, <1>6 DEF MInv

LEMMA BoundLeft ==
  ASSUME LeftOK, NEW field \in {"posts", "rounds", "reports"}, Bound(field), UNCHANGED deaths
  PROVE  LeftOK' /\ left'.failed = left.failed
BY DEF LeftOK, Bound

LEMMA FailsLeft ==
  ASSUME LeftOK, Fails
  PROVE  deaths' \in Nat => LeftOK' /\ left'.failed # 0
<1>1. /\ left.faults - 1 \in Nat /\ left.failed + 1 \in Nat /\ left.failed + 1 # 0
      /\ left' = [left EXCEPT !.faults = left.faults - 1, !.failed = left.failed + 1]
  BY DEF LeftOK, Fails
<1> QED
  BY <1>1 DEF LeftOK

LEMMA HandlersAside ==
  ASSUME MInv, GInv', NEW h \in Handlers,
         Handle(h) \/ CreateFails(h) \/ PutFails(h) \/ \E r \in Requests : Receive(h, r)
  PROVE  MInv'
<1>1. /\ UNCHANGED <<scene, round, store, history, scrape, gauge, shown, won, deaths>>
      /\ DOMAIN bids' = DOMAIN bids
  BY DEF Handle, Lookup, Create, CreateFails, Assign, Put, PutFails, Receive, AsideBids, Stored
<1>2. LeftOK' /\ (left'.failed = 0 => left.failed = 0)
  <2>1. CASE CreateFails(h) \/ PutFails(h)
    BY <1>1, <2>1, FailsLeft DEF MInv, CreateFails, PutFails, LeftOK
  <2>2. CASE Handle(h)
    BY <1>1, <2>2 DEF MInv, LeftOK, Handle, Lookup, Create, Assign, Put
  <2>3. CASE \E r \in Requests : Receive(h, r)
    BY <1>1, <2>3, BoundLeft DEF MInv, Receive
  <2> QED
    BY <2>1, <2>2, <2>3
<1>3. MapsOK'
  <2>1. CASE ~Assign(h)
    <3>1. maps' = maps
      BY <2>1 DEF Handle, Lookup, Create, CreateFails, Put, PutFails, Receive
    <3> QED
      BY <1>1, <3>1 DEF MInv, MapsOK
  <2>2. CASE Assign(h)
    <3>1. handler[h].request \in Requests
      BY <2>2 DEF Assign, Writing, At, MInv, GInv, HandlersOK, Rightful
    <3>2. Egress(h) \in DOMAIN bids
      BY <3>1, HasMap DEF Egress, MInv, GInv
    <3> QED
      BY <1>1, <2>2, <3>2 DEF Assign, MInv, MapsOK
  <2> QED
    BY <2>1, <2>2
<1> QED
  BY <1>1, <1>2, <1>3, AsideMetrics

(***************************************************************************)
(* The process dies: nothing is shown, and nothing is being read.          *)
(***************************************************************************)
LEMMA DiesAside ==
  ASSUME MInv, GInv', LeftOK', Dies
  PROVE  MInv'
<1>1. /\ UNCHANGED <<scene, bids, round, store, history>>
      /\ Kinds' = Kinds /\ \A kind : Metered(kind)' = Metered(kind)
      /\ \A alloc : Winners(alloc)' = Winners(alloc)
      /\ Ports' = Ports /\ Agents(scene)' = Agents(scene)
  BY DEF Dies, Kinds, Metered, Winners, Winner, Ports
<1>2. MapsOK' /\ StoreOK'
  BY <1>1 DEF Dies, MInv, MapsOK, StoreOK
<1>3. GaugeOK'
  <2>1. gauge' = [kind \in Kinds |-> [key \in Metered(kind) |-> 0]]
    BY DEF Dies, Nothing
  <2> QED
    BY <1>1, <2>1 DEF MInv, StoreOK, GaugeOK
<1>4. HistoryOK'
  BY <1>1 DEF MInv, HistoryOK, Past, RecordType
<1>5. ShownOK'
  <2>1. shown' = [p \in Ports |-> 0] /\ won' = [p \in Ports |-> <<>>]
    BY DEF Dies
  <2>2. \A p \in Ports : Past(shown[p]) /\ shown[p] \in Nat /\ round.number \in Nat
    BY DEF MInv, GInv, RoundOK, ShownOK
  <2>3. \A p \in Ports : Past(0)
    BY <2>2 DEF Past
  <2> QED
    BY <1>1, <2>1, <2>3 DEF ShownOK, Past
<1>6. \A w \in Scrapers : scrape'[w] = IdleScrape
  BY DEF Dies
<1>7. IdleScrape \in ScrapeType' /\ Reading(IdleScrape)' /\ ~IdleScrape.alone
  BY DEF IdleScrape, ScrapeType, Sections, Reading, Kinds
<1>8. ScrapesOK' /\ LoneOK' /\ CalmOK'
  BY <1>6, <1>7 DEF Dies, ScrapesOK, LoneOK, CalmOK
<1> QED
  BY <1>2, <1>3, <1>4, <1>5, <1>8 DEF MInv

(***************************************************************************)
(* Steps of the runner and of telemetry that leave the history as it is:   *)
(* no account, no round and no interval ever goes back.                    *)
(***************************************************************************)
Forward ==
  /\ \A n \in Nat : Past(n) => Past(n)'
  /\ round'.interval >= round.interval

LEMMA AccountsMove ==
  ASSUME MInv, GInv', LeftOK', left'.failed = 0 => left.failed = 0,
         UNCHANGED <<scene, maps, history, scrape, gauge, shown, won>>, DOMAIN bids' = DOMAIN bids,
         StoreOK', Forward,
         \A kind \in Kinds : \A key \in Metered(kind) : store'[kind][key] >= store[kind][key],
         round'.pc \in {"history", "clear"} =>
           \A c \in Winners(round'.won) : store'["utility"][c] >= round'.number
  PROVE  MInv'
<1>1. /\ Kinds' = Kinds /\ \A kind : Metered(kind)' = Metered(kind)
      /\ \A alloc : Winners(alloc)' = Winners(alloc)
      /\ Ports' = Ports /\ Agents(scene)' = Agents(scene)
  BY DEF Kinds, Metered, Winners, Winner, Ports
<1>2. \A kind \in Kinds : \A key \in Metered(kind) :
        store[kind][key] \in Nat /\ store'[kind][key] \in Nat /\ store'[kind][key] >= store[kind][key]
  BY <1>1 DEF MInv, StoreOK
<1>3. MapsOK'
  BY DEF MInv, MapsOK
<1>4. GaugeOK'
  BY <1>1, <1>2 DEF MInv, GaugeOK
<1>5. \A alloc : \A c \in Winners(alloc) : /\ store["utility"][c] \in Nat
                                           /\ store'["utility"][c] \in Nat
                                           /\ store'["utility"][c] >= store["utility"][c]
  <2>1. \A alloc : Winners(alloc) \subseteq Metered("utility") /\ "utility" \in Kinds
    BY WinnersAreAgents DEF Metered, Kinds, MInv, GInv
  <2> QED
    BY <1>2, <2>1
<1>6. round.interval \in Nat /\ round'.interval \in Nat
  BY DEF MInv, GInv, RoundOK
<1>7. HistoryOK'
  <2>1. ASSUME NEW r \in history
        PROVE  /\ r.interval <= round'.interval /\ Past(r.number)'
               /\ \A c \in Winners(r.won) : store'["utility"][c] >= r.number
    <3>1. r.interval \in Nat /\ r.number \in Nat
      BY DEF MInv, HistoryOK, RecordType
    <3>2. /\ r.interval <= round.interval /\ Past(r.number)
          /\ \A c \in Winners(r.won) : store["utility"][c] >= r.number
      BY DEF MInv, HistoryOK
    <3> QED
      BY <1>5, <1>6, <3>1, <3>2 DEF Forward
  <2>2. history \subseteq RecordType' /\ RecordType' = RecordType
    BY <1>1 DEF MInv, HistoryOK, RecordType
  <2>3. \A q, r \in history : Later(q, r) /\ (KeyOf(q) = KeyOf(r) => q = r)
    BY DEF MInv, HistoryOK
  <2> QED
    BY <1>1, <2>1, <2>2, <2>3 DEF HistoryOK, Later, KeyOf
<1>8. ShownOK'
  BY <1>1 DEF MInv, ShownOK, Overtaken, Forward
<1>9. ScrapesOK'
  <2>1. ScrapeType' = ScrapeType
    BY <1>1 DEF ScrapeType, Sections, MetricKeys, RecordType
  <2> SUFFICES ASSUME NEW w \in Scrapers PROVE Reading(scrape[w])'
    BY <2>1 DEF MInv, ScrapesOK
  <2> DEFINE s == scrape[w]
  <2>2. Reading(s) /\ s \in ScrapeType
    BY DEF MInv, ScrapesOK
  <2>3. s.pc \in Kinds => s.todo \subseteq Metered(s.pc)
    BY <2>2 DEF Reading
  <2>4. ASSUME s.read # <<>>
        PROVE  s.pc \in Kinds /\ s.read[1] \in Metered(s.pc) /\ s.read[2] <= store'[s.pc][s.read[1]]
    <3>1. s.pc \in Kinds /\ s.read[1] \in Metered(s.pc) /\ s.read[2] <= store[s.pc][s.read[1]]
      BY <2>2, <2>4 DEF Reading
    <3>2. s.read[2] \in Nat
      BY <2>2, <2>4 DEF ScrapeType
    <3> QED
      BY <1>2, <3>1, <3>2
  <2>5. s.latest # {} => s.pc = "history"
    BY <2>2 DEF Reading
  <2>6. ASSUME NEW r \in s.latest
        PROVE  /\ r.interval <= round'.interval /\ Past(r.number)' /\ Overtaken(r.port, r.number)'
               /\ KeyOf(r) \notin s.todo
               /\ \A q \in history : Later(q, r) /\ Later(r, q)
               /\ \A q \in s.latest : q.port = r.port => q = r
    <3>1. r \in RecordType
      BY <2>2 DEF ScrapeType
    <3>2. r.interval \in Nat /\ r.number \in Nat
      BY <3>1 DEF RecordType
    <3>3. /\ r.interval <= round.interval /\ Past(r.number) /\ Overtaken(r.port, r.number)
          /\ KeyOf(r) \notin s.todo
          /\ \A q \in history : Later(q, r) /\ Later(r, q)
          /\ \A q \in s.latest : q.port = r.port => q = r
      BY <2>2 DEF Reading
    <3> QED
      BY <1>6, <3>2, <3>3 DEF Forward, Overtaken
  <2> QED
    BY <1>1, <2>3, <2>4, <2>5, <2>6 DEF Reading, Later, KeyOf
<1>10. LoneOK'
  BY DEF MInv, LoneOK, Active
<1>11. CalmOK'
  BY <1>1 DEF MInv, CalmOK, Calm, GoesOn, Ahead, Covers, KeyOf
<1> QED
  BY <1>3, <1>4, <1>7, <1>8, <1>9, <1>10, <1>11 DEF MInv

(***************************************************************************)
(* The round's record enters the history: it is later than all others, and *)
(* takes the place of one of its interval and port.                        *)
(***************************************************************************)
LEMMA HistoryMoves ==
  ASSUME MInv, GInv', StoreHistory
  PROVE  MInv'
<1> DEFINE rec == [interval |-> round.interval, port |-> round.port, number |-> round.number,
                   won |-> round.won]
<1>1. /\ UNCHANGED <<scene, left, bids, store, maps, scrape, gauge, shown, won, deaths>>
      /\ round.pc = "history" /\ round' = [round EXCEPT !.pc = "clear"]
      /\ history' = {r \in history : <<r.interval, r.port>> # <<round.interval, round.port>>} \cup {rec}
  BY DEF StoreHistory, AsideRounds
<1>2. /\ Kinds' = Kinds /\ \A kind : Metered(kind)' = Metered(kind)
      /\ \A alloc : Winners(alloc)' = Winners(alloc)
      /\ Ports' = Ports /\ Agents(scene)' = Agents(scene)
      /\ RecordType' = RecordType /\ ScrapeType' = ScrapeType
  BY <1>1 DEF Kinds, Metered, Winners, Winner, Ports, RecordType, ScrapeType, Sections, MetricKeys
<1>3. /\ round.interval \in Nat /\ round.number \in Nat /\ round.port \in Ports
      /\ round.won \in Outcomes \cup {<<>>}
      /\ round'.pc = "clear" /\ round'.interval = round.interval /\ round'.number = round.number
      /\ round'.won = round.won
  BY <1>1 DEF MInv, GInv, RoundOK
<1>4. rec \in RecordType /\ rec.interval = round.interval /\ rec.port = round.port
      /\ rec.number = round.number /\ rec.won = round.won
  BY <1>3 DEF RecordType
<1> HIDE DEF rec
<1>5. \A r \in history' : r = rec \/ (r \in history /\ KeyOf(r) # KeyOf(rec))
  BY <1>1, <1>4 DEF KeyOf
<1>6. \A r \in history : r \in history' \/ KeyOf(r) = KeyOf(rec)
  BY <1>1, <1>4 DEF KeyOf
<1>7. rec \in history'
  BY <1>1
<1>8. ASSUME NEW n \in Nat, Past(n) PROVE Past(n)' /\ n < round.number
  BY <1>1, <1>3, <1>8 DEF Past
<1>9. ASSUME NEW r \in history
      PROVE  /\ r \in RecordType /\ r.number \in Nat /\ r.interval \in Nat
             /\ r.number < round.number /\ r.interval <= round.interval
  <2>1. r \in RecordType /\ Past(r.number) /\ r.interval <= round.interval
    BY DEF MInv, HistoryOK
  <2> QED
    BY <1>8, <2>1 DEF RecordType
<1>10. ASSUME NEW p \in Ports, NEW n \in Nat, Overtaken(p, n) PROVE Overtaken(p, n)'
  <2>1. PICK r \in history : r.port = p /\ r.number >= n
    BY <1>10 DEF Overtaken
  <2>2. CASE r \in history'
    BY <2>1, <2>2 DEF Overtaken
  <2>3. CASE KeyOf(r) = KeyOf(rec)
    <3>1. rec.port = p /\ rec.number >= n
      BY <1>3, <1>4, <1>9, <2>1, <2>3 DEF KeyOf
    <3> QED
      BY <1>7, <3>1 DEF Overtaken
  <2> QED
    BY <1>6, <2>2, <2>3
<1>11. LeftOK' /\ MapsOK' /\ StoreOK' /\ GaugeOK'
  BY <1>1, <1>2, <1>3 DEF MInv, LeftOK, MapsOK, StoreOK, GaugeOK
<1>12. HistoryOK'
  <2>1. ASSUME NEW r \in history'
        PROVE  /\ r \in RecordType /\ r.interval <= round'.interval /\ Past(r.number)'
               /\ \A c \in Winners(r.won) : store["utility"][c] >= r.number
    <3>1. CASE r = rec
      <4>1. Past(r.number)'
        BY <1>3, <1>4, <3>1 DEF Past
      <4> QED
        BY <1>1, <1>3, <1>4, <3>1, <4>1 DEF MInv, HistoryOK
    <3>2. CASE r \in history
      BY <1>3, <1>8, <1>9, <3>2 DEF MInv, HistoryOK
    <3> QED
      BY <1>5, <3>1, <3>2
  <2>2. ASSUME NEW q \in history', NEW r \in history'
        PROVE  Later(q, r) /\ (KeyOf(q) = KeyOf(r) => q = r)
    <3>1. CASE q = rec /\ r = rec
      BY <1>3, <1>4, <3>1 DEF Later
    <3>2. CASE q = rec /\ r \in history /\ KeyOf(r) # KeyOf(rec)
      BY <1>3, <1>4, <1>9, <3>2 DEF Later
    <3>3. CASE q \in history /\ KeyOf(q) # KeyOf(rec) /\ r = rec
      BY <1>3, <1>4, <1>9, <3>3 DEF Later
    <3>4. CASE q \in history /\ r \in history
      BY <3>4 DEF MInv, HistoryOK
    <3> QED
      BY <1>5, <3>1, <3>2, <3>3, <3>4
  <2>3. \A c \in Winners(round.won) : store["utility"][c] >= round.number
    BY <1>1 DEF MInv, HistoryOK
  <2> QED
    BY <1>1, <1>2, <1>3, <2>1, <2>2, <2>3 DEF HistoryOK, Later, KeyOf
<1>13. ShownOK'
  BY <1>1, <1>2, <1>8, <1>10 DEF MInv, ShownOK
<1>14. ScrapesOK'
  <2> SUFFICES ASSUME NEW w \in Scrapers PROVE Reading(scrape[w])'
    BY <1>1, <1>2 DEF MInv, ScrapesOK
  <2> DEFINE s == scrape[w]
  <2>1. Reading(s) /\ s \in ScrapeType /\ scrape'[w] = s
    BY <1>1 DEF MInv, ScrapesOK
  <2>2. ASSUME NEW r \in s.latest
        PROVE  /\ r.interval <= round'.interval /\ Past(r.number)' /\ Overtaken(r.port, r.number)'
               /\ KeyOf(r) \notin s.todo
               /\ \A q \in history' : Later(q, r) /\ Later(r, q)
               /\ \A q \in s.latest : q.port = r.port => q = r
    <3>1. r.interval \in Nat /\ r.number \in Nat /\ r.port \in Ports
      BY <2>1 DEF ScrapeType, RecordType
    <3>2. /\ r.interval <= round.interval /\ Past(r.number) /\ Overtaken(r.port, r.number)
          /\ KeyOf(r) \notin s.todo
          /\ \A q \in history : Later(q, r) /\ Later(r, q)
          /\ \A q \in s.latest : q.port = r.port => q = r
      BY <2>1 DEF Reading
    <3>3. Past(r.number)' /\ r.number < round.number /\ Overtaken(r.port, r.number)'
      BY <1>8, <1>10, <3>1, <3>2
    <3>4. Later(rec, r) /\ Later(r, rec)
      BY <1>3, <1>4, <3>1, <3>2, <3>3 DEF Later
    <3> QED
      BY <1>3, <1>5, <3>2, <3>3, <3>4
  <2> HIDE DEF s
  <2> QED
    BY <1>1, <1>2, <2>1, <2>2 DEF Reading, Later, KeyOf, s
<1>15. LoneOK'
  BY <1>1 DEF MInv, LoneOK, Active
<1>16. CalmOK'
  <2> SUFFICES ASSUME left.failed = 0, NEW w \in Scrapers, scrape[w].alone
               PROVE  Calm(scrape[w])'
    BY <1>1 DEF CalmOK
  <2> DEFINE s == scrape[w]
  <2>1. Calm(s) /\ scrape'[w] = s
    BY <1>1 DEF MInv, CalmOK
  <2>2. GoesOn(s)'
    BY <1>1, <1>2, <2>1 DEF Calm, GoesOn
  <2>3. ASSUME NEW p \in Ports, Ahead(s, p) PROVE Ahead(s, p)'
    <3>1. CASE \E r \in history : r.port = p /\ r.number >= shown[p] /\ KeyOf(r) \in s.todo
      <4>1. PICK r \in history : r.port = p /\ r.number >= shown[p] /\ KeyOf(r) \in s.todo
        BY <3>1
      <4>2. CASE KeyOf(r) = KeyOf(rec)
        <5>1. rec.port = p /\ KeyOf(rec) \in s.todo
          BY <4>1, <4>2 DEF KeyOf
        <5>2. rec.number >= shown[p]
          BY <1>3, <1>4, <1>9, <4>1 DEF MInv, ShownOK
        <5> QED
          BY <1>1, <1>7, <5>1, <5>2 DEF Ahead, KeyOf
      <4>3. CASE r \in history'
        BY <1>1, <4>1, <4>3 DEF Ahead, KeyOf
      <4> QED
        BY <1>6, <4>2, <4>3
    <3> QED
      BY <1>1, <2>3, <3>1 DEF Ahead, KeyOf
  <2>4. ASSUME s.pc \in {"utility", "serve"}, NEW r \in history', r.number = shown[r.port],
               NEW c \in Winners(r.won)
        PROVE  Covers(s, c, r.number)
    <3>1. r # rec
      <4>1. Past(shown[rec.port]) /\ shown[rec.port] \in Nat
        BY <1>3, <1>4 DEF MInv, ShownOK
      <4> QED
        BY <1>3, <1>4, <1>8, <2>4, <4>1
    <3> QED
      BY <1>5, <2>1, <2>4, <3>1 DEF Calm
  <2> HIDE DEF s
  <2> QED
    BY <1>1, <1>2, <2>1, <2>2, <2>3, <2>4 DEF Calm, Covers, s
<1> QED
  BY <1>11, <1>12, <1>13, <1>14, <1>15, <1>16 DEF MInv

LEMMA RoundsAside ==
  ASSUME MInv, GInv',
         \/ \E p \in Ports, alloc \in Outcomes, d \in 0..1 : Auction(p, alloc, round.interval + d)
         \/ ClearBids
         \/ \E f \in MeteredFlows : Telemetry(f)
  PROVE  MInv'
<1>1. /\ UNCHANGED <<scene, handler, maps, scrape, gauge, shown, won, deaths>>
      /\ UNCHANGED history /\ DOMAIN bids' = DOMAIN bids
  BY DEF Auction, Round, ClearBids, Telemetry, AsideRounds
<1>2. /\ Kinds' = Kinds /\ \A kind : Metered(kind)' = Metered(kind)
      /\ \A alloc : Winners(alloc)' = Winners(alloc)
  BY <1>1 DEF Kinds, Metered, Winners, Winner
<1>3. round.interval \in Nat /\ round.number \in Nat /\ round \in [pc : {"idle", "credits", "utility", "history", "clear"}, port : Ports \cup {0},
                won : Outcomes \cup {<<>>}, interval : Nat, number : Nat]
  BY DEF MInv, GInv, RoundOK
<1>4. LeftOK /\ StoreOK /\ HistoryOK
  BY DEF MInv
<1>5. \A kind \in Kinds : \A key \in Metered(kind) : store[kind][key] \in Nat
  BY <1>4 DEF StoreOK
<1>6. CASE \E p \in Ports, alloc \in Outcomes, d \in 0..1 : Auction(p, alloc, round.interval + d)
  <2>1. PICK p \in Ports, alloc \in Outcomes, d \in 0..1 : Auction(p, alloc, round.interval + d)
    BY <1>6
  <2>2. /\ round' = [pc |-> "credits", port |-> p, won |-> alloc, interval |-> round.interval + d,
                     number |-> round.number + 1]
        /\ store' = store /\ Bound("rounds")
    BY <2>1 DEF Auction, Round
  <2>3. LeftOK' /\ left'.failed = left.failed
    BY <1>1, <1>4, <2>2, BoundLeft
  <2>4. /\ round'.pc = "credits" /\ round'.number = round.number + 1
        /\ round'.interval = round.interval + d
    BY <2>2
  <2>5. Forward
    BY <1>3, <2>4 DEF Forward, Past
  <2>6. StoreOK'
    <3>1. ASSUME NEW kind \in {"credits", "utility"}, NEW c \in Agents(scene)
          PROVE  store[kind][c] <= round'.number
      <4>1. store[kind][c] <= round.number /\ store[kind][c] \in Nat
        BY <1>4, <1>5 DEF StoreOK, Metered, Kinds
      <4> QED
        BY <1>3, <2>4, <4>1
    <3> QED
      BY <1>1, <1>2, <1>4, <2>2, <3>1 DEF StoreOK
  <2>7. \A kind \in Kinds : \A key \in Metered(kind) : store'[kind][key] >= store[kind][key]
    BY <1>5, <2>2
  <2> QED
    BY <1>1, <2>3, <2>4, <2>5, <2>6, <2>7, AccountsMove
<1>7. CASE ClearBids
  <2>1. /\ round' = [round EXCEPT !.pc = "idle"] /\ store' = store /\ left' = left
        /\ round.pc = "clear"
    BY <1>7 DEF ClearBids
  <2>2. LeftOK'
    BY <1>1, <1>4, <2>1 DEF LeftOK
  <2>3. round'.pc = "idle" /\ round'.number = round.number /\ round'.interval = round.interval
    BY <1>3, <2>1
  <2>4. Forward
    BY <1>3, <2>1, <2>3 DEF Forward, Past
  <2>5. StoreOK'
    BY <1>1, <1>2, <1>4, <2>1, <2>3 DEF StoreOK
  <2>6. \A kind \in Kinds : \A key \in Metered(kind) : store'[kind][key] >= store[kind][key]
    BY <1>5, <2>1
  <2> QED
    BY <1>1, <2>1, <2>2, <2>3, <2>4, <2>5, <2>6, AccountsMove
<1>8. CASE \E f \in MeteredFlows : Telemetry(f)
  <2>1. PICK f \in MeteredFlows : Telemetry(f)
    BY <1>8
  <2>2. /\ round' = round /\ Bound("reports")
        /\ store' = [store EXCEPT !["flows"][f] = @ + 1]
    BY <2>1 DEF Telemetry
  <2>3. LeftOK' /\ left'.failed = left.failed
    BY <1>1, <1>4, <2>2, BoundLeft
  <2>4. "flows" \in Kinds /\ Metered("flows") = MeteredFlows
    BY DEF Kinds, Metered
  <2>5. /\ store' = [kind \in Kinds |-> store'[kind]]
        /\ store'["flows"] = [store["flows"] EXCEPT ![f] = store["flows"][f] + 1]
        /\ \A kind \in Kinds \ {"flows"} : store'[kind] = store[kind]
    <3>1. store = [kind \in Kinds |-> store[kind]]
      BY <1>4 DEF StoreOK
    <3> QED
      BY <2>2, <2>4, <3>1
  <2>6. store["flows"] \in [MeteredFlows -> Nat] /\ store'["flows"] \in [MeteredFlows -> Nat]
    BY <1>4, <2>4, <2>5 DEF StoreOK
  <2>7. StoreOK'
    BY <1>1, <1>2, <1>4, <2>2, <2>4, <2>5, <2>6 DEF StoreOK, Kinds
  <2>8. \A kind \in Kinds : \A key \in Metered(kind) : store'[kind][key] >= store[kind][key]
    BY <1>5, <2>4, <2>5, <2>6
  <2>9. Forward
    BY <1>3, <2>2 DEF Forward, Past
  <2>10. store'["utility"] = store["utility"]
    BY <2>5 DEF Kinds
  <2>11. round'.pc \in {"history", "clear"} =>
           \A c \in Winners(round'.won) : store'["utility"][c] >= round'.number
    BY <1>4, <2>2, <2>10 DEF HistoryOK
  <2> QED
    BY <1>1, <2>3, <2>7, <2>8, <2>9, <2>11, AccountsMove
<1> QED
  BY <1>6, <1>7, <1>8

LEMMA SettleAside ==
  ASSUME MInv, GInv', NEW kind \in {"credits", "utility"}, NEW next,
         kind = "credits" => next = "utility", kind = "utility" => next = "history",
         Settle(kind, next)
  PROVE  MInv'
<1>1. /\ UNCHANGED <<scene, handler, maps, scrape, gauge, shown, won, deaths, left, bids, history>>
      /\ round.pc = kind /\ round' = [round EXCEPT !.pc = next]
      /\ store' = [store EXCEPT ![kind] =
           [c \in DOMAIN @ |-> IF c \in Winners(round.won) THEN round.number ELSE @[c]]]
  BY DEF Settle, AsideRounds
<1>2. /\ Kinds' = Kinds /\ \A k : Metered(k)' = Metered(k)
      /\ \A alloc : Winners(alloc)' = Winners(alloc) /\ Agents(scene)' = Agents(scene)
  BY <1>1 DEF Kinds, Metered, Winners, Winner
<1>3. /\ round.number \in Nat /\ round.interval \in Nat
      /\ round'.pc = next /\ round'.number = round.number /\ round'.interval = round.interval
      /\ round'.won = round.won
  BY <1>1 DEF MInv, GInv, RoundOK
<1>4. StoreOK /\ kind \in Kinds /\ Metered(kind) = Agents(scene)
  BY DEF MInv, Kinds, Metered
<1>5. /\ store = [k \in Kinds |-> store[k]] /\ DOMAIN store[kind] = Agents(scene)
      /\ \A c \in Agents(scene) : store[kind][c] \in Nat /\ store[kind][c] <= round.number
  BY <1>4 DEF StoreOK
<1>6. /\ store' = [k \in Kinds |-> store'[k]]
      /\ \A k \in Kinds \ {kind} : store'[k] = store[k]
      /\ store'[kind] = [c \in Agents(scene) |->
                          IF c \in Winners(round.won) THEN round.number ELSE store[kind][c]]
  BY <1>1, <1>4, <1>5
<1>7. \A c \in Agents(scene) : /\ store'[kind][c] \in Nat /\ store'[kind][c] <= round.number
                               /\ store'[kind][c] >= store[kind][c]
  BY <1>3, <1>5, <1>6
<1>8. StoreOK'
  <2>1. \A k \in Kinds : store'[k] \in [Metered(k) -> Nat]
    BY <1>4, <1>6, <1>7 DEF StoreOK
  <2>2. \A k \in {"credits", "utility"} : \A c \in Agents(scene) : store'[k][c] <= round.number
    BY <1>4, <1>6, <1>7 DEF StoreOK, Kinds
  <2> QED
    BY <1>2, <1>3, <1>6, <2>1, <2>2 DEF StoreOK
<1>9. ASSUME NEW k \in Kinds, NEW key \in Metered(k) PROVE store'[k][key] >= store[k][key]
  <2>1. store[k][key] \in Nat
    BY <1>4 DEF StoreOK
  <2> QED
    BY <1>4, <1>6, <1>7, <2>1
<1>10. Forward
  BY <1>1, <1>3 DEF Forward, Past
<1>11. ASSUME round'.pc \in {"history", "clear"}, NEW c \in Winners(round'.won)
       PROVE  store'["utility"][c] >= round'.number
  <2>1. kind = "utility" /\ c \in Winners(round.won)
    BY <1>3, <1>11
  <2>2. c \in Agents(scene)
    BY <2>1, WinnersAreAgents DEF MInv, GInv
  <2> QED
    BY <1>3, <1>6, <2>1, <2>2
<1>12. LeftOK' /\ left'.failed = left.failed
  BY <1>1 DEF MInv, LeftOK
<1> QED
  BY <1>1, <1>2, <1>8, <1>9, <1>10, <1>11, <1>12, AccountsMove

-----------------------------------------------------------------------------
(***************************************************************************)
(* A step of scrape w: no other scrape is alone after it.                  *)
(***************************************************************************)
LEMMA ScrapeMoves ==
  ASSUME MInv, GInv', AsideScrapes, LeftOK', left'.failed = 0 => left.failed = 0,
         NEW w \in Scrapers, scrape' \in [Scrapers -> ScrapeType],
         \A v \in Scrapers \ {w} :
           /\ scrape'[v].pc = scrape[v].pc /\ scrape'[v].todo = scrape[v].todo
           /\ scrape'[v].read = scrape[v].read /\ scrape'[v].latest = scrape[v].latest
           /\ ~scrape'[v].alone,
         scrape'[w].alone => scrape[w].alone \/ \A v \in Scrapers \ {w} : ~Active(v),
         Reading(scrape'[w]), GaugeOK', ShownOK',
         left.failed = 0 /\ scrape'[w].alone => Calm(scrape[w])'
  PROVE  MInv'
<1>1. UNCHANGED <<scene, handler, maps, bids, accepted, round, store, history, deaths>>
  BY DEF AsideScrapes
<1>2. /\ Kinds' = Kinds /\ \A kind : Metered(kind)' = Metered(kind)
      /\ \A alloc : Winners(alloc)' = Winners(alloc)
      /\ Ports' = Ports /\ Agents(scene)' = Agents(scene)
      /\ RecordType' = RecordType /\ ScrapeType' = ScrapeType
  BY <1>1 DEF Kinds, Metered, Winners, Winner, Ports, RecordType, ScrapeType, Sections, MetricKeys
<1>3. MapsOK' /\ StoreOK'
  BY <1>1, <1>2 DEF MInv, MapsOK, StoreOK
<1>4. HistoryOK'
  BY <1>1, <1>2 DEF MInv, HistoryOK, Past
<1>5. ScrapesOK'
  <2> SUFFICES ASSUME NEW v \in Scrapers PROVE Reading(scrape[v])'
    BY <1>2 DEF ScrapesOK
  <2>1. Reading(scrape'[v])
    <3>1. CASE v = w
      BY <3>1
    <3>2. CASE v # w
      <4>1. Reading(scrape[v])
        BY DEF MInv, ScrapesOK
      <4> QED
        BY <3>2, <4>1 DEF Reading
    <3> QED
      BY <3>1, <3>2
  <2> QED
    BY <1>1, <1>2, <2>1 DEF Reading, Past, Overtaken
<1>6. LoneOK'
  <2> SUFFICES ASSUME scrape'[w].alone, NEW v \in Scrapers \ {w} PROVE ~Active(v)'
    BY DEF LoneOK
  <2>1. ~Active(v)
    BY DEF MInv, LoneOK
  <2> QED
    BY <2>1 DEF Active
<1>7. CalmOK'
  BY DEF CalmOK
<1> QED
  BY <1>3, <1>4, <1>5, <1>6, <1>7 DEF MInv

(***************************************************************************)
(* Steps of w that change no more than its own record.                     *)
(***************************************************************************)
LEMMA OwnMoves ==
  ASSUME MInv, GInv', AsideScrapes, LeftOK', left'.failed = 0 => left.failed = 0,
         NEW w \in Scrapers, Active(w), NEW t \in ScrapeType, scrape' = [scrape EXCEPT ![w] = t],
         t.alone => scrape[w].alone,
         Reading(t), GaugeOK', ShownOK', left.failed = 0 /\ t.alone => Calm(t)'
  PROVE  MInv'
<1>1. scrape \in [Scrapers -> ScrapeType]
  BY DEF MInv, ScrapesOK
<1>2. scrape' \in [Scrapers -> ScrapeType] /\ scrape'[w] = t
  BY <1>1
<1>3. \A v \in Scrapers \ {w} : scrape'[v] = scrape[v] /\ ~scrape[v].alone
  BY <1>1 DEF MInv, LoneOK
<1>4. left.failed = 0 /\ scrape'[w].alone => Calm(scrape[w])'
  BY <1>2
<1>5. Reading(scrape'[w])
  BY <1>2
<1>6. \A v \in Scrapers \ {w} :
           /\ scrape'[v].pc = scrape[v].pc /\ scrape'[v].todo = scrape[v].todo
           /\ scrape'[v].read = scrape[v].read /\ scrape'[v].latest = scrape[v].latest
           /\ ~scrape'[v].alone
  BY <1>3
<1>7. scrape'[w].alone => scrape[w].alone \/ \A v \in Scrapers \ {w} : ~Active(v)
  BY <1>2
<1> QED
  BY <1>2, <1>4, <1>5, <1>6, <1>7, ScrapeMoves

(***************************************************************************)
(* As long as it changes no gauge, a step leaves what they show.           *)
(***************************************************************************)
LEMMA GaugesStay ==
  ASSUME MInv, AsideScrapes, UNCHANGED <<gauge, shown, won>>
  PROVE  /\ GaugeOK' /\ ShownOK'
         /\ \A s : Reading(s)' <=> Reading(s)
         /\ \A s : Calm(s)' <=> Calm(s)
<1>1. UNCHANGED <<scene, handler, maps, bids, accepted, round, store, history, deaths>>
  BY DEF AsideScrapes
<1>2. /\ Kinds' = Kinds /\ \A kind : Metered(kind)' = Metered(kind)
      /\ \A alloc : Winners(alloc)' = Winners(alloc)
      /\ Ports' = Ports /\ Agents(scene)' = Agents(scene)
  BY <1>1 DEF Kinds, Metered, Winners, Winner, Ports
<1>3. GaugeOK' /\ ShownOK'
  BY <1>1, <1>2 DEF MInv, GaugeOK, ShownOK, Past, Overtaken
<1>4. \A s : Reading(s)' <=> Reading(s)
  BY <1>1, <1>2 DEF Reading, Past, Overtaken
<1>5. \A s : Calm(s)' <=> Calm(s)
  BY <1>1, <1>2 DEF Calm, GoesOn, Ahead, Covers
<1> QED
  BY <1>3, <1>4, <1>5

(***************************************************************************)
(* What List answers for a section, and what is known on entering it.      *)
(***************************************************************************)
EnterAs(section, alone) ==
  [pc |-> section, todo |-> Listed(section), read |-> <<>>, latest |-> {}, alone |-> alone]

LEMMA EnterFits ==
  ASSUME MInv, NEW section \in Sections \ {"idle"}, NEW alone \in BOOLEAN,
         section = "serve" => \A r \in history : r.number = shown[r.port] =>
                                \A c \in Winners(r.won) : gauge["utility"][c] >= r.number
  PROVE  EnterAs(section, alone) \in ScrapeType /\ Reading(EnterAs(section, alone))
         /\ Calm(EnterAs(section, alone))
<1> DEFINE t == EnterAs(section, alone)
<1>1. /\ t.pc = section /\ t.todo = Listed(section) /\ t.read = <<>> /\ t.latest = {}
      /\ t.alone = alone
  BY DEF EnterAs
<1>2. ASSUME NEW kind \in Kinds PROVE Listed(kind) = Metered(kind)
  <2>1. store[kind] \in [Metered(kind) -> Nat]
    BY DEF MInv, StoreOK
  <2>2. Listed(kind) = DOMAIN store[kind]
    BY DEF Listed, Kinds
  <2> QED
    BY <2>1, <2>2
<1>3. Listed("history") = {KeyOf(r) : r \in history} /\ Listed("history") \subseteq Nat \X Ports
  BY DEF Listed, KeyOf, Kinds, MInv, HistoryOK, RecordType
<1>4. Listed("begin") = {} /\ Listed("serve") = {}
  BY DEF Listed, Kinds
<1>5. \A kind \in Kinds : Metered(kind) \subseteq MetricKeys
  BY DEF Metered, MetricKeys, Kinds
<1>6. t \in ScrapeType
  <2>1. Listed(section) \subseteq MetricKeys \cup (Nat \X Ports)
    BY <1>2, <1>3, <1>4, <1>5 DEF Sections
  <2> QED
    BY <2>1 DEF EnterAs, ScrapeType
<1>7. Reading(t)
  BY <1>1, <1>2 DEF Reading
<1>8. GoesOn(t)
  BY <1>1 DEF GoesOn
<1>9. ASSUME section = "history", NEW p \in Ports PROVE Ahead(t, p)
  <2>1. CASE shown[p] = 0
    BY <2>1 DEF Ahead
  <2>2. CASE shown[p] # 0
    <3>1. PICK r \in history : r.port = p /\ r.number >= shown[p]
      BY <2>2 DEF MInv, ShownOK, Overtaken
    <3>2. KeyOf(r) \in t.todo
      BY <1>1, <1>3, <1>9
    <3> QED
      BY <3>1, <3>2 DEF Ahead
  <2> QED
    BY <2>1, <2>2
<1>10. ASSUME section = "utility", NEW r \in history, NEW c \in Winners(r.won)
       PROVE  Covers(t, c, r.number)
  <2>1. c \in Listed("utility")
    BY <1>2, WinnersAreAgents DEF MInv, GInv, Metered, Kinds
  <2> QED
    BY <1>1, <1>10, <2>1 DEF Covers
<1>11. section = "serve" => \A r \in history : r.number = shown[r.port] =>
         \A c \in Winners(r.won) : Covers(t, c, r.number)
  BY DEF Covers
<1> HIDE DEF t
<1>12. Calm(t)
  BY <1>1, <1>8, <1>9, <1>10, <1>11 DEF Calm
<1> QED
  BY <1>6, <1>7, <1>12 DEF t

LEMMA BeginMoves ==
  ASSUME MInv, GInv', NEW w \in Scrapers, Begin(w)
  PROVE  MInv'
<1> DEFINE alone == \A v \in Scrapers : ~Active(v)
<1> PICK t : t = EnterAs("begin", alone)
  OBVIOUS
<1>1. /\ ~Active(w) /\ Enter(w, "begin", alone) /\ UNCHANGED <<left, gauge, shown, won>>
      /\ AsideScrapes
  BY DEF Begin
<1>2. LeftOK'
  BY <1>1 DEF MInv, LeftOK, AsideScrapes
<1>3. t \in ScrapeType /\ Reading(t) /\ Calm(t)
  BY EnterFits DEF Sections
<1>4. scrape \in [Scrapers -> ScrapeType]
  BY DEF MInv, ScrapesOK
<1>5. scrape' = [v \in Scrapers |-> IF v = w THEN t
                                  ELSE [scrape[v] EXCEPT !.alone = @ /\ Active(w)]]
  BY <1>1 DEF Enter, EnterAs
<1>6. t.alone = alone
  BY DEF EnterAs
<1>7. ASSUME NEW v \in Scrapers \ {w}
      PROVE  /\ scrape'[v] \in ScrapeType
             /\ scrape'[v].pc = scrape[v].pc /\ scrape'[v].todo = scrape[v].todo
             /\ scrape'[v].read = scrape[v].read /\ scrape'[v].latest = scrape[v].latest
             /\ ~scrape'[v].alone
  <2>1. scrape'[v] = [scrape[v] EXCEPT !.alone = FALSE]
    BY <1>1, <1>5
  <2>2. scrape[v] \in ScrapeType
    BY <1>4
  <2> QED
    BY <2>1, <2>2 DEF ScrapeType
<1>8. scrape'[w] = t
  BY <1>5
<1>9. scrape' \in [Scrapers -> ScrapeType]
  <2>1. \A v \in Scrapers : scrape'[v] \in ScrapeType
    BY <1>3, <1>7, <1>8
  <2> HIDE DEF alone
  <2> QED
    BY <1>5, <2>1
<1>10. GaugeOK' /\ ShownOK' /\ Calm(t)'
  BY <1>1, <1>3, GaugesStay
<1> QED
  BY <1>1, <1>2, <1>3, <1>6, <1>7, <1>8, <1>9, <1>10, ScrapeMoves

LEMMA AfterSection ==
  ASSUME NEW s \in ScrapeType, s.pc # "idle", s.pc # "serve"
  PROVE  /\ After(s.pc) \in Sections \ {"idle", "begin"}
         /\ After(s.pc) = "serve" => s.pc = "utility"
         /\ After(s.pc) = "utility" => s.pc = "history"
BY DEF ScrapeType, Sections, Kinds, After

LEMMA NextSectionMoves ==
  ASSUME MInv, GInv', NEW w \in Scrapers, NextSection(w)
  PROVE  MInv'
<1> DEFINE s == scrape[w]
<1> PICK t : t = EnterAs(After(scrape[w].pc), scrape[w].alone)
  OBVIOUS
<1>1. /\ Active(w) /\ s.pc # "serve" /\ s.todo = {} /\ s.read = <<>> /\ s.latest = {}
      /\ Enter(w, After(s.pc), s.alone) /\ UNCHANGED <<left, gauge, shown, won>> /\ AsideScrapes
  BY DEF NextSection, MayLeave
<1>2. LeftOK'
  BY <1>1 DEF MInv, LeftOK, AsideScrapes
<1>3. scrape \in [Scrapers -> ScrapeType] /\ s \in ScrapeType /\ s.alone \in BOOLEAN
  BY DEF MInv, ScrapesOK, ScrapeType
<1>4. /\ After(s.pc) \in Sections \ {"idle", "begin"}
      /\ After(s.pc) = "serve" => s.pc = "utility"
  BY <1>1, <1>3, AfterSection DEF Active
<1>5. scrape' = [v \in Scrapers |-> IF v = w THEN t
                                  ELSE [scrape[v] EXCEPT !.alone = @ /\ Active(w)]]
  BY <1>1 DEF Enter, EnterAs
<1>6. /\ t.alone = s.alone /\ t.pc = After(s.pc) /\ t.todo = Listed(t.pc) /\ t.read = <<>>
      /\ t.latest = {}
  BY DEF EnterAs
<1>7. \A v \in Scrapers \ {w} : ~scrape[v].alone
  BY <1>1 DEF MInv, LoneOK
<1>8. ASSUME NEW v \in Scrapers \ {w}
      PROVE  /\ scrape'[v] \in ScrapeType
             /\ scrape'[v].pc = scrape[v].pc /\ scrape'[v].todo = scrape[v].todo
             /\ scrape'[v].read = scrape[v].read /\ scrape'[v].latest = scrape[v].latest
             /\ ~scrape'[v].alone
  <2>1. scrape'[v] = [scrape[v] EXCEPT !.alone = FALSE]
    BY <1>5, <1>7
  <2>2. scrape[v] \in ScrapeType
    BY <1>3
  <2> QED
    BY <2>1, <2>2 DEF ScrapeType
<1>9. ASSUME left.failed = 0 /\ s.alone
      PROVE  After(s.pc) = "serve" => \A r \in history : r.number = shown[r.port] =>
                                       \A c \in Winners(r.won) : gauge["utility"][c] >= r.number
  <2>1. Calm(s)
    BY <1>9 DEF MInv, CalmOK
  <2> QED
    BY <1>1, <1>4, <2>1 DEF Calm, Covers
<1>10. t \in ScrapeType /\ Reading(t)
  <2>1. \A kind \in Kinds : Listed(kind) = Metered(kind)
    <3> TAKE kind \in Kinds
    <3>1. store[kind] \in [Metered(kind) -> Nat] /\ Listed(kind) = DOMAIN store[kind]
      BY DEF MInv, StoreOK, Listed, Kinds
    <3> QED
      BY <3>1
  <2>2. CASE After(s.pc) # "serve"
    BY <1>3, <1>4, <2>2, EnterFits
  <2>3. CASE After(s.pc) = "serve"
    <3>1. Listed("serve") = {}
      BY DEF Listed, Kinds
    <3>2. t = [pc |-> "serve", todo |-> {}, read |-> <<>>, latest |-> {}, alone |-> s.alone]
      BY <2>3, <3>1 DEF EnterAs
    <3> QED
      BY <1>3, <3>2 DEF ScrapeType, Sections, Reading, Kinds
  <2> QED
    BY <2>2, <2>3
<1>11. left.failed = 0 /\ t.alone => Calm(t)
  BY <1>3, <1>4, <1>6, <1>9, EnterFits
<1>12. scrape'[w] = t
  BY <1>5
<1>13. scrape' \in [Scrapers -> ScrapeType]
  <2>1. \A v \in Scrapers : scrape'[v] \in ScrapeType
    BY <1>8, <1>10, <1>12
  <2> QED
    BY <1>5, <2>1
<1>14. GaugeOK' /\ ShownOK' /\ (Calm(t) => Calm(t)')
  BY <1>1, GaugesStay
<1> HIDE DEF s
<1>15. scrape'[w].alone => scrape[w].alone \/ \A v \in Scrapers \ {w} : ~Active(v)
  BY <1>6, <1>12 DEF s
<1>16. Reading(scrape'[w]) /\ (left.failed = 0 /\ scrape'[w].alone => Calm(scrape[w])')
  BY <1>10, <1>11, <1>12, <1>14
<1> QED
  BY <1>1, <1>2, <1>8, <1>13, <1>14, <1>15, <1>16, ScrapeMoves

(***************************************************************************)
(* Failed calls: the section, the entry or the record is passed over.      *)
(***************************************************************************)
LEMMA FailMoves ==
  ASSUME MInv, GInv', NEW w \in Scrapers, Active(w), Fails, AsideScrapes,
         UNCHANGED <<gauge, shown, won>>, NEW t \in ScrapeType, scrape' = [scrape EXCEPT ![w] = t],
         t.alone = scrape[w].alone, Reading(t)
  PROVE  MInv'
<1>1. LeftOK' /\ left'.failed # 0
  BY FailsLeft DEF MInv, LeftOK, AsideScrapes
<1>2. GaugeOK' /\ ShownOK'
  BY GaugesStay
<1>3. scrape \in [Scrapers -> ScrapeType]
  BY DEF MInv, ScrapesOK
<1>4. scrape' \in [Scrapers -> ScrapeType] /\ scrape'[w] = t
  BY <1>3
<1>5. \A v \in Scrapers \ {w} : scrape'[v] = scrape[v] /\ ~scrape[v].alone
  BY <1>3 DEF MInv, LoneOK
<1>6. UNCHANGED <<scene, handler, maps, bids, accepted, round, store, history, deaths>>
  BY DEF AsideScrapes
<1>7. /\ Kinds' = Kinds /\ \A kind : Metered(kind)' = Metered(kind)
      /\ \A alloc : Winners(alloc)' = Winners(alloc)
      /\ Ports' = Ports /\ Agents(scene)' = Agents(scene)
      /\ RecordType' = RecordType /\ ScrapeType' = ScrapeType
  BY <1>6 DEF Kinds, Metered, Winners, Winner, Ports, RecordType, ScrapeType, Sections, MetricKeys
<1>8. MapsOK' /\ StoreOK' /\ HistoryOK'
  BY <1>6, <1>7 DEF MInv, MapsOK, StoreOK, HistoryOK, Past
<1>9. ScrapesOK'
  <2>1. \A v \in Scrapers : Reading(scrape'[v])
    BY <1>4, <1>5 DEF MInv, ScrapesOK
  <2>2. \A v \in Scrapers : Reading(scrape[v])'
    BY <1>6, <1>7, <2>1 DEF Reading, Past, Overtaken
  <2> QED
    BY <1>4, <1>7, <2>2 DEF ScrapesOK
<1>10. LoneOK'
  BY <1>4, <1>5 DEF MInv, LoneOK, Active
<1>11. CalmOK'
  BY <1>1 DEF CalmOK
<1> QED
  BY <1>1, <1>2, <1>8, <1>9, <1>10, <1>11 DEF MInv

Got(s, key, value) == [s EXCEPT !.todo = s.todo \ {key}, !.read = <<key, value>>]

LEMMA ReadingAs ==
  ASSUME NEW s \in ScrapeType, Reading(s), s.pc \in Kinds, NEW key \in s.todo,
         NEW value \in Nat, value <= store[s.pc][key]
  PROVE  LET t == Got(s, key, value)
         IN  /\ t \in ScrapeType /\ Reading(t)
             /\ t.pc = s.pc /\ t.todo = s.todo \ {key} /\ t.read = <<key, value>>
             /\ t.latest = s.latest /\ t.alone = s.alone
<1> DEFINE t == Got(s, key, value)
<1>0. t = [s EXCEPT !.todo = s.todo \ {key}, !.read = <<key, value>>]
  BY DEF Got
<1> HIDE DEF t
<1>1. /\ t.pc = s.pc /\ t.todo = s.todo \ {key} /\ t.read = <<key, value>>
      /\ t.latest = s.latest /\ t.alone = s.alone
  BY <1>0 DEF ScrapeType
<1>2. key \in Metered(s.pc) /\ key \in MetricKeys
  BY DEF Reading, Metered, MetricKeys, Kinds
<1>3. t \in ScrapeType
  BY <1>0, <1>2 DEF ScrapeType
<1>4. s.latest = {}
  BY DEF Reading, Kinds
<1>5. Reading(t)
  BY <1>1, <1>2, <1>4 DEF Reading
<1> QED
  BY <1>1, <1>3, <1>5 DEF t

LEMMA GetEntryMoves ==
  ASSUME MInv, GInv', NEW w \in Scrapers, scrape[w].pc \in Kinds, NEW key \in scrape[w].todo,
         GetEntry(w, key)
  PROVE  MInv'
<1> PICK s : s = scrape[w]
  OBVIOUS
<1>1. /\ s.read = <<>> /\ UNCHANGED <<left, gauge, shown, won>> /\ AsideScrapes
      /\ scrape' = [scrape EXCEPT ![w] =
           [s EXCEPT !.todo = s.todo \ {key}, !.read = <<key, store[s.pc][key]>>]]
  BY DEF GetEntry, ReadAs
<1>2. s \in ScrapeType /\ Reading(s) /\ Active(w)
  BY DEF MInv, ScrapesOK, Active, Kinds
<1>3. key \in Metered(s.pc)
  BY <1>2 DEF Reading
<1>4. store[s.pc][key] \in Nat /\ gauge[s.pc][key] \in Nat /\ gauge[s.pc][key] <= store[s.pc][key]
  BY <1>3 DEF MInv, StoreOK, GaugeOK
<1> PICK t : t = Got(s, key, store[s.pc][key])
  OBVIOUS
<1>5. /\ t \in ScrapeType /\ Reading(t)
      /\ t.pc = s.pc /\ t.todo = s.todo \ {key} /\ t.read = <<key, store[s.pc][key]>>
      /\ t.latest = s.latest /\ t.alone = s.alone
  BY <1>2, <1>4, ReadingAs
<1>6. ASSUME left.failed = 0, t.alone PROVE Calm(t)
  <2>1. Calm(s)
    BY <1>5, <1>6 DEF MInv, CalmOK
  <2>2. GoesOn(t)
    BY <1>4, <1>5 DEF GoesOn
  <2>3. ASSUME t.pc = "utility", NEW r \in history, r.number = shown[r.port], NEW c \in Winners(r.won)
        PROVE  Covers(t, c, r.number)
    <3>1. Covers(s, c, r.number)
      BY <1>5, <2>1, <2>3 DEF Calm
    <3>2. CASE c = key
      <4>1. store["utility"][c] >= r.number
        BY DEF MInv, HistoryOK
      <4> QED
        BY <1>5, <2>3, <3>2, <4>1 DEF Covers
    <3>3. CASE c # key
      BY <1>1, <1>5, <3>1, <3>3 DEF Covers
    <3> QED
      BY <3>2, <3>3
  <2>4. t.pc # "history" /\ t.pc # "serve"
    BY <1>5 DEF Kinds
  <2> QED
    BY <2>2, <2>3, <2>4 DEF Calm
<1>7. GaugeOK' /\ ShownOK' /\ (Calm(t) => Calm(t)')
  BY <1>1, GaugesStay
<1>8. LeftOK' /\ left' = left
  BY <1>1 DEF MInv, LeftOK, AsideScrapes
<1>9. scrape' = [scrape EXCEPT ![w] = t]
  BY <1>1 DEF Got
<1> QED
  BY <1>1, <1>2, <1>5, <1>6, <1>7, <1>8, <1>9, OwnMoves

LEMMA FailedReads ==
  ASSUME MInv, GInv', NEW w \in Scrapers,
         \/ ListFails(w)
         \/ scrape[w].pc \in Kinds /\ \E key \in scrape[w].todo : GetEntryFails(w, key)
         \/ scrape[w].pc = "history" /\ \E key \in scrape[w].todo : GetRecordFails(w, key)
  PROVE  MInv'
<1> PICK s : s = scrape[w]
  OBVIOUS
<1>1. s \in ScrapeType /\ Reading(s)
  BY DEF MInv, ScrapesOK
<1>2. CASE ListFails(w)
  <2>1. /\ Active(w) /\ s.pc # "serve" /\ s.todo = {} /\ s.read = <<>> /\ s.latest = {}
        /\ Fails /\ AsideScrapes /\ UNCHANGED <<gauge, shown, won>>
        /\ scrape' = [scrape EXCEPT ![w] = [s EXCEPT !.pc = After(s.pc)]]
    BY <1>2 DEF ListFails, MayLeave
  <2> PICK t : t = [s EXCEPT !.pc = After(s.pc)]
    OBVIOUS
  <2>2. /\ t.pc = After(s.pc) /\ t.todo = {} /\ t.read = <<>> /\ t.latest = {}
        /\ t.alone = s.alone /\ After(s.pc) \in Sections
    BY <1>1, <2>1, AfterSection DEF ScrapeType, Active
  <2>3. t \in ScrapeType
    BY <1>1, <2>2 DEF ScrapeType
  <2>4. Reading(t)
    BY <2>2 DEF Reading
  <2> QED
    BY <2>1, <2>2, <2>3, <2>4, FailMoves
<1>3. CASE scrape[w].pc \in Kinds /\ \E key \in scrape[w].todo : GetEntryFails(w, key)
  <2>1. PICK key \in s.todo : GetEntryFails(w, key)
    BY <1>3
  <2>2. /\ Fails /\ AsideScrapes /\ UNCHANGED <<gauge, shown, won>>
        /\ scrape' = [scrape EXCEPT ![w] = [s EXCEPT !.todo = s.todo \ {key}, !.read = <<key, 0>>]]
    BY <2>1 DEF GetEntryFails, ReadAs
  <2>3. 0 <= store[s.pc][key]
    <3>1. key \in Metered(s.pc)
      BY <1>1, <1>3 DEF Reading
    <3> QED
      BY <1>3, <3>1 DEF MInv, StoreOK
  <2> PICK t : t = Got(s, key, 0)
    OBVIOUS
  <2>4. t \in ScrapeType /\ Reading(t) /\ t.alone = s.alone
    BY <1>1, <1>3, <2>3, ReadingAs
  <2>5. scrape' = [scrape EXCEPT ![w] = t]
    BY <2>2 DEF Got
  <2> QED
    BY <1>3, <2>2, <2>4, <2>5, FailMoves DEF Active, Kinds
<1>4. CASE scrape[w].pc = "history" /\ \E key \in scrape[w].todo : GetRecordFails(w, key)
  <2>1. PICK key \in s.todo : GetRecordFails(w, key)
    BY <1>4
  <2>2. /\ Fails /\ AsideScrapes /\ UNCHANGED <<gauge, shown, won>>
        /\ scrape' = [scrape EXCEPT ![w] = [s EXCEPT !.todo = s.todo \ {key}, !.latest = s.latest]]
    BY <2>1 DEF GetRecordFails, Passed
  <2> PICK t : t = [s EXCEPT !.todo = s.todo \ {key}, !.latest = s.latest]
    OBVIOUS
  <2>3. /\ t \in ScrapeType /\ t.pc = s.pc /\ t.todo = s.todo \ {key} /\ t.read = s.read
        /\ t.latest = s.latest /\ t.alone = s.alone
    BY <1>1 DEF ScrapeType
  <2>4. Reading(t)
    BY <1>1, <2>3 DEF Reading
  <2> QED
    BY <1>4, <2>2, <2>3, <2>4, FailMoves DEF Active
<1> QED
  BY <1>2, <1>3, <1>4

LEMMA ServeMoves ==
  ASSUME MInv, GInv', NEW w \in Scrapers, Serve(w)
  PROVE  MInv'
<1>1. /\ Active(w) /\ UNCHANGED <<left, gauge, shown, won>> /\ AsideScrapes
      /\ scrape' = [scrape EXCEPT ![w] = IdleScrape]
  BY DEF Serve, Active
<1>2. IdleScrape \in ScrapeType /\ Reading(IdleScrape) /\ ~IdleScrape.alone
  BY DEF IdleScrape, ScrapeType, Sections, Reading, Kinds
<1>3. GaugeOK' /\ ShownOK'
  BY <1>1, GaugesStay
<1>4. LeftOK' /\ left' = left
  BY <1>1 DEF MInv, LeftOK, AsideScrapes
<1> PICK t : t = IdleScrape
  OBVIOUS
<1> QED
  BY <1>1, <1>2, <1>3, <1>4, OwnMoves

LEMMA SetGaugeMoves ==
  ASSUME MInv, GInv', NEW w \in Scrapers, SetGauge(w)
  PROVE  MInv'
<1> PICK s : s = scrape[w]
  OBVIOUS
<1> DEFINE kind == s.pc
           key == s.read[1]
           value == s.read[2]
<1>1. /\ kind \in Kinds /\ s.read # <<>> /\ UNCHANGED <<left, shown, won>> /\ AsideScrapes
      /\ gauge' = [gauge EXCEPT ![kind][key] = value]
      /\ scrape' = [scrape EXCEPT ![w] = [s EXCEPT !.read = <<>>]]
  BY DEF SetGauge
<1>2. s \in ScrapeType /\ Reading(s) /\ Active(w)
  BY <1>1 DEF MInv, ScrapesOK, Active, Kinds
<1>3. key \in Metered(kind) /\ value \in Nat /\ value <= store[kind][key]
  BY <1>1, <1>2 DEF Reading, ScrapeType
<1> PICK t : t = [s EXCEPT !.read = <<>>]
  OBVIOUS
<1>4. /\ t.pc = s.pc /\ t.todo = s.todo /\ t.read = <<>> /\ t.latest = s.latest
      /\ t.alone = s.alone /\ t \in ScrapeType
  BY <1>2 DEF ScrapeType
<1>5. Reading(t)
  BY <1>2, <1>4 DEF Reading
<1>6. UNCHANGED <<scene, handler, maps, bids, accepted, round, store, history, deaths>>
  BY <1>1 DEF AsideScrapes
<1>7. /\ Kinds' = Kinds /\ \A k : Metered(k)' = Metered(k)
      /\ \A alloc : Winners(alloc)' = Winners(alloc)
      /\ Ports' = Ports /\ Agents(scene)' = Agents(scene)
  BY <1>6 DEF Kinds, Metered, Winners, Winner, Ports
<1>8. /\ gauge = [k \in Kinds |-> gauge[k]]
      /\ \A k \in Kinds : /\ gauge[k] \in [Metered(k) -> Nat]
                           /\ \A c \in Metered(k) : gauge[k][c] <= store[k][c]
  BY DEF MInv, GaugeOK
<1> HIDE DEF kind, key, value
<1>9. /\ gauge' = [k \in Kinds |-> gauge'[k]]
      /\ gauge'[kind] = [gauge[kind] EXCEPT ![key] = value]
      /\ \A k \in Kinds \ {kind} : gauge'[k] = gauge[k]
  BY <1>1, <1>8
<1>10. GaugeOK'
  <2>1. ASSUME NEW k \in Kinds
        PROVE  gauge'[k] \in [Metered(k) -> Nat] /\ \A c \in Metered(k) : gauge'[k][c] <= store[k][c]
    <3>1. gauge[k] \in [Metered(k) -> Nat] /\ \A c \in Metered(k) : gauge[k][c] <= store[k][c]
      BY <1>8
    <3>2. CASE k = kind
      <4>1. \A c \in Metered(k) :
              gauge'[k][c] = IF c = key THEN value ELSE gauge[k][c]
        BY <1>9, <3>1, <3>2
      <4>2. gauge'[k] \in [Metered(k) -> Nat]
        BY <1>3, <1>9, <3>1, <3>2
      <4> QED
        BY <1>3, <3>1, <3>2, <4>1, <4>2
    <3>3. CASE k # kind
      BY <1>9, <3>1, <3>3
    <3> QED
      BY <3>2, <3>3
  <2> QED
    BY <1>6, <1>7, <1>9, <2>1 DEF GaugeOK
<1>11. ShownOK'
  BY <1>1, <1>6, <1>7 DEF MInv, ShownOK, Past, Overtaken
<1>12. ASSUME left.failed = 0, t.alone PROVE Calm(t)'
  <2>1. Calm(s)
    BY <1>4, <1>12 DEF MInv, CalmOK
  <2>2. GoesOn(t)'
    BY <1>4 DEF GoesOn
  <2>3. ASSUME t.pc = "utility", NEW r \in history, r.number = shown[r.port], NEW c \in Winners(r.won)
        PROVE  Covers(t, c, r.number)'
    <3>1. Covers(s, c, r.number) /\ kind = "utility"
      BY <1>4, <2>1, <2>3 DEF Calm, kind
    <3>2. /\ c \in Metered("utility") /\ Metered("utility") = Agents(scene)
          /\ gauge["utility"][c] \in Nat /\ r.number \in Nat
      BY <1>8, WinnersAreAgents DEF MInv, GInv, Metered, Kinds, HistoryOK, RecordType
    <3>3. CASE c = key
      <4>1. gauge'["utility"][c] = value
        BY <1>1, <1>3, <1>8, <1>9, <3>1, <3>3
      <4>2. value >= gauge["utility"][c]
        BY <1>1, <2>1, <3>1, <3>3 DEF Calm, GoesOn, kind, key, value
      <4> QED
        BY <1>3, <1>4, <3>1, <3>2, <4>1, <4>2 DEF Covers, value
    <3>4. CASE c # key
      <4>1. gauge'["utility"][c] = gauge["utility"][c]
        BY <1>1, <1>8, <1>9, <3>1, <3>2, <3>4
      <4> QED
        BY <1>4, <3>1, <3>4, <4>1 DEF Covers, key
    <3> QED
      BY <3>3, <3>4
  <2>4. t.pc # "history" /\ t.pc # "serve"
    BY <1>1, <1>4 DEF Kinds, kind
  <2> QED
    BY <1>1, <1>6, <1>7, <2>2, <2>3, <2>4 DEF Calm
<1>13. LeftOK' /\ left' = left
  BY <1>1, <1>6 DEF MInv, LeftOK
<1> QED
  BY <1>1, <1>2, <1>4, <1>5, <1>10, <1>11, <1>12, <1>13, OwnMoves

(***************************************************************************)
(* A record is read: the latest of its port gives way only to a later one. *)
(***************************************************************************)
LEMMA NewestFits ==
  ASSUME MInv, NEW s \in ScrapeType, Reading(s), s.pc = "history", NEW r \in history,
         KeyOf(r) \in s.todo, NEW t \in ScrapeType,
         t.pc = s.pc, t.todo = s.todo \ {KeyOf(r)}, t.read = s.read, t.latest = Newest(r, s.latest),
         t.alone = s.alone
  PROVE  /\ Reading(t)
         /\ \A p \in Ports : Ahead(s, p) => Ahead(t, p)
<1>0. s.pc \notin Kinds /\ s.read = <<>>
  BY DEF Reading, Kinds
<1>1. \A q \in t.latest : q = r \/ q \in s.latest
  BY DEF Newest
<1>2. r \in RecordType /\ r.interval <= round.interval /\ Past(r.number) /\ r.number \in Nat
      /\ r.interval \in Nat /\ r.port \in Ports
  BY DEF MInv, HistoryOK, RecordType
<1>3. Overtaken(r.port, r.number)
  BY <1>2 DEF Overtaken
<1>4. \A q \in s.latest :
        /\ q.interval <= round.interval /\ Past(q.number) /\ Overtaken(q.port, q.number)
        /\ KeyOf(q) \notin s.todo
        /\ \A h \in history : Later(h, q) /\ Later(q, h)
        /\ \A h \in s.latest : h.port = q.port => h = q
        /\ q.interval \in Nat /\ q.number \in Nat
  BY DEF Reading, ScrapeType, RecordType
<1>5. \A h \in history : Later(h, r) /\ Later(r, h)
  BY DEF MInv, HistoryOK
<1>6. r \in t.latest => \A q \in t.latest : q.port = r.port => q = r
  <2>1. CASE \E q \in s.latest : q.port = r.port /\ q.interval >= r.interval
    BY <1>4, <2>1 DEF Newest
  <2>2. CASE ~\E q \in s.latest : q.port = r.port /\ q.interval >= r.interval
    BY <2>2 DEF Newest
  <2> QED
    BY <2>1, <2>2
<1>7. Reading(t)
  <2>1. ASSUME NEW q \in t.latest
        PROVE  /\ q.interval <= round.interval /\ Past(q.number) /\ Overtaken(q.port, q.number)
               /\ KeyOf(q) \notin t.todo
               /\ \A h \in history : Later(h, q) /\ Later(q, h)
               /\ \A h \in t.latest : h.port = q.port => h = q
    <3>1. CASE q = r
      BY <1>2, <1>3, <1>5, <1>6, <3>1
    <3>2. CASE q \in s.latest /\ q # r
      <4>1. \A h \in t.latest : h.port = q.port => h = q
        BY <1>1, <1>4, <1>6, <3>2
      <4> QED
        BY <1>4, <3>2, <4>1
    <3> QED
      BY <1>1, <3>1, <3>2
  <2> QED
    BY <1>0, <2>1 DEF Reading
<1>8. ASSUME NEW p \in Ports, Ahead(s, p) PROVE Ahead(t, p)
  <2>1. shown[p] \in Nat
    BY DEF MInv, ShownOK
  <2>2. CASE shown[p] = 0
    BY <2>2 DEF Ahead
  <2>3. CASE s.todo = {}
    BY <2>3
  <2>4. CASE \E q \in s.latest : q.port = p /\ q.number >= shown[p]
    <3>1. PICK q \in s.latest : q.port = p /\ q.number >= shown[p]
      BY <2>4
    <3>2. CASE q \in t.latest
      BY <3>1, <3>2 DEF Ahead
    <3>3. CASE q \notin t.latest
      <4>1. r.port = p /\ r \in t.latest /\ q.interval < r.interval
        BY <1>2, <1>4, <3>1, <3>3 DEF Newest
      <4>2. q.number < r.number
        BY <1>4, <4>1 DEF Later
      <4>3. r.number >= shown[p]
        BY <1>2, <1>4, <2>1, <3>1, <4>2
      <4> QED
        BY <4>1, <4>3 DEF Ahead
    <3> QED
      BY <3>2, <3>3
  <2>5. CASE \E h \in history : h.port = p /\ h.number >= shown[p] /\ KeyOf(h) \in s.todo
    <3>1. PICK h \in history : h.port = p /\ h.number >= shown[p] /\ KeyOf(h) \in s.todo
      BY <2>5
    <3>2. CASE KeyOf(h) # KeyOf(r)
      BY <3>1, <3>2 DEF Ahead
    <3>3. CASE KeyOf(h) = KeyOf(r)
      <4>1. h = r
        BY <3>3 DEF MInv, HistoryOK
      <4>2. CASE r \in t.latest
        BY <3>1, <4>1, <4>2 DEF Ahead
      <4>3. CASE r \notin t.latest
        <5>1. PICK q \in s.latest : q.port = r.port /\ q.interval >= r.interval
          BY <4>3 DEF Newest
        <5>2. q \in t.latest
          BY <5>1 DEF Newest
        <5>3. q.interval # r.interval
          BY <1>4, <5>1 DEF KeyOf
        <5>4. r.interval < q.interval
          BY <1>2, <1>4, <5>1, <5>3
        <5>5. r.number < q.number
          BY <1>4, <5>4 DEF Later
        <5>6. q.number >= shown[p] /\ q.port = p
          BY <1>2, <1>4, <2>1, <3>1, <4>1, <5>1, <5>5
        <5> QED
          BY <5>2, <5>6 DEF Ahead
      <4> QED
        BY <4>2, <4>3
    <3> QED
      BY <3>2, <3>3
  <2> QED
    BY <1>8, <2>2, <2>3, <2>4, <2>5 DEF Ahead
<1> QED
  BY <1>7, <1>8

Took(s, key, latest) == [s EXCEPT !.todo = s.todo \ {key}, !.latest = latest]

LEMMA GetRecordMoves ==
  ASSUME MInv, GInv', NEW w \in Scrapers, scrape[w].pc = "history", NEW key \in scrape[w].todo,
         GetRecord(w, key)
  PROVE  MInv'
<1> PICK s : s = scrape[w]
  OBVIOUS
<1>1. PICK r \in Records({key}) : Passed(w, key, Newest(r, s.latest))
  BY DEF GetRecord
<1>2. r \in history /\ KeyOf(r) = key
  BY <1>1 DEF Records, KeyOf
<1>3. s \in ScrapeType /\ Reading(s) /\ Active(w)
  BY DEF MInv, ScrapesOK, Active
<1>4. /\ UNCHANGED <<left, gauge, shown, won>> /\ AsideScrapes
      /\ scrape' = [scrape EXCEPT ![w] =
           [s EXCEPT !.todo = s.todo \ {key}, !.latest = Newest(r, s.latest)]]
  BY <1>1 DEF GetRecord, Passed
<1> PICK t : t = Took(s, key, Newest(r, s.latest))
  OBVIOUS
<1>5. /\ t.pc = s.pc /\ t.todo = s.todo \ {key} /\ t.read = s.read
      /\ t.latest = Newest(r, s.latest) /\ t.alone = s.alone
  BY <1>3 DEF ScrapeType, Took
<1>6. Newest(r, s.latest) \subseteq RecordType
  BY <1>2, <1>3 DEF Newest, ScrapeType, MInv, HistoryOK
<1>7. t \in ScrapeType
  BY <1>3, <1>6 DEF ScrapeType, Took
<1>8. Reading(t) /\ \A p \in Ports : Ahead(s, p) => Ahead(t, p)
  <2>1. s.pc = "history" /\ KeyOf(r) \in s.todo /\ t.todo = s.todo \ {KeyOf(r)}
    BY <1>2, <1>5
  <2> QED
    BY <1>2, <1>3, <1>5, <1>7, <2>1, NewestFits
<1>9. ASSUME left.failed = 0, t.alone PROVE Calm(t)
  <2>1. Calm(s)
    BY <1>5, <1>9 DEF MInv, CalmOK
  <2> QED
    BY <1>5, <1>8, <2>1 DEF Calm, GoesOn, Kinds
<1>10. GaugeOK' /\ ShownOK' /\ (Calm(t) => Calm(t)')
  BY <1>4, GaugesStay
<1>11. LeftOK' /\ left' = left
  BY <1>4 DEF MInv, LeftOK, AsideScrapes
<1>12. scrape' = [scrape EXCEPT ![w] = t]
  BY <1>4 DEF Took
<1> QED
  BY <1>3, <1>4, <1>5, <1>7, <1>8, <1>9, <1>10, <1>11, <1>12, OwnMoves

LEMMA SetRecordMoves ==
  ASSUME MInv, GInv', NEW w \in Scrapers, NEW r \in scrape[w].latest, SetRecord(w, r)
  PROVE  MInv'
<1> PICK s : s = scrape[w]
  OBVIOUS
<1>1. /\ s.pc = "history" /\ s.todo = {} /\ UNCHANGED <<left, gauge>> /\ AsideScrapes
      /\ shown' = [shown EXCEPT ![r.port] = r.number]
      /\ won' = [won EXCEPT ![r.port] =
           [c \in DOMAIN @ \cup Winners(r.won) |->
              IF c \in Winners(r.won) THEN Total(r.won, c) ELSE @[c]]]
      /\ scrape' = [scrape EXCEPT ![w] = [s EXCEPT !.latest = s.latest \ {r}]]
  BY DEF SetRecord
<1>2. s \in ScrapeType /\ Reading(s) /\ Active(w)
  BY <1>1 DEF MInv, ScrapesOK, Active
<1>3. /\ r \in RecordType /\ r.port \in Ports /\ r.number \in Nat
      /\ Past(r.number) /\ Overtaken(r.port, r.number)
      /\ \A q \in s.latest : q.port = r.port => q = r
  BY <1>2 DEF ScrapeType, RecordType, Reading
<1> PICK t : t = [s EXCEPT !.latest = s.latest \ {r}]
  OBVIOUS
<1>4. /\ t.pc = s.pc /\ t.todo = s.todo /\ t.read = s.read /\ t.latest = s.latest \ {r}
      /\ t.alone = s.alone /\ t \in ScrapeType
  BY <1>2 DEF ScrapeType
<1>5. Reading(t)
  BY <1>2, <1>4 DEF Reading
<1>6. UNCHANGED <<scene, handler, maps, bids, accepted, round, store, history, deaths>>
  BY <1>1 DEF AsideScrapes
<1>7. /\ Kinds' = Kinds /\ \A k : Metered(k)' = Metered(k)
      /\ \A alloc : Winners(alloc)' = Winners(alloc)
      /\ Ports' = Ports /\ Agents(scene)' = Agents(scene)
  BY <1>6 DEF Kinds, Metered, Winners, Winner, Ports
<1>8. GaugeOK'
  BY <1>1, <1>6, <1>7 DEF MInv, GaugeOK
<1>9. shown \in [Ports -> Nat] /\ won = [p \in Ports |-> won[p]]
      /\ \A p \in Ports : /\ Past(shown[p]) /\ (shown[p] # 0 => Overtaken(p, shown[p]))
                          /\ DOMAIN won[p] \subseteq Agents(scene)
  BY DEF MInv, ShownOK
<1>10. ShownOK'
  <2>1. shown' \in [Ports -> Nat] /\ won' = [p \in Ports |-> won'[p]]
    BY <1>1, <1>3, <1>9
  <2>2. ASSUME NEW p \in Ports
        PROVE  /\ Past(shown'[p]) /\ (shown'[p] # 0 => Overtaken(p, shown'[p]))
               /\ DOMAIN won'[p] \subseteq Agents(scene)
    <3>1. CASE p = r.port
      <4>1. shown'[p] = r.number
        BY <1>1, <1>9, <3>1
      <4>2. DOMAIN won'[p] = DOMAIN won[p] \cup Winners(r.won)
        BY <1>1, <1>9, <3>1
      <4>3. Winners(r.won) \subseteq Agents(scene)
        BY WinnersAreAgents DEF MInv, GInv
      <4> QED
        BY <1>3, <1>9, <3>1, <4>1, <4>2, <4>3
    <3>2. CASE p # r.port
      <4>1. shown'[p] = shown[p] /\ won'[p] = won[p]
        BY <1>1, <1>9, <3>2
      <4> QED
        BY <1>9, <4>1
    <3> QED
      BY <3>1, <3>2
  <2> QED
    BY <1>6, <1>7, <2>1, <2>2 DEF ShownOK, Past, Overtaken
<1>11. ASSUME left.failed = 0, t.alone PROVE Calm(t)'
  <2>1. Calm(s)
    BY <1>4, <1>11 DEF MInv, CalmOK
  <2>2. ASSUME NEW p \in Ports PROVE Ahead(t, p)'
    <3>1. CASE p = r.port
      BY <1>1, <1>3, <1>4, <3>1 DEF Ahead
    <3>2. CASE p # r.port
      <4>1. shown'[p] = shown[p]
        BY <1>1, <1>9, <3>2
      <4>2. Ahead(s, p)
        BY <1>1, <2>1 DEF Calm
      <4>3. \A q \in s.latest : q.port = p => q \in t.latest
        BY <1>4, <3>2
      <4> QED
        BY <1>4, <1>6, <4>1, <4>2, <4>3 DEF Ahead, KeyOf
    <3> QED
      BY <3>1, <3>2
  <2> QED
    BY <1>1, <1>4, <1>7, <2>2 DEF Calm, GoesOn, Kinds
<1>12. LeftOK' /\ left' = left
  BY <1>1, <1>6 DEF MInv, LeftOK
<1> QED
  BY <1>1, <1>2, <1>4, <1>5, <1>8, <1>10, <1>11, <1>12, OwnMoves

LEMMA MInvStep == MInv /\ [Next]_vars => MInv'
<1> SUFFICES ASSUME MInv, [Next]_vars PROVE MInv'
  OBVIOUS
<1>1. GInv'
  BY GInvStep DEF MInv
<1>2. CASE UNCHANGED gatewayVars
  <2>1. LeftOK' /\ MapsOK' /\ left' = left
    BY <1>2 DEF gatewayVars, MInv, LeftOK, MapsOK
  <2>2. scene' = scene
    BY SceneStays
  <2> QED
    BY <1>1, <1>2, <2>1, <2>2, AsideMetrics DEF gatewayVars
<1>3. CASE \E p \in Ports, alloc \in Outcomes, d \in 0..1 : Auction(p, alloc, round.interval + d)
  BY <1>1, <1>3, RoundsAside
<1>4. CASE \E h \in Handlers : Handle(h) \/ CreateFails(h) \/ PutFails(h)
                                \/ \E r \in Requests : Receive(h, r)
  BY <1>1, <1>4, HandlersAside
<1>5. CASE Environment
  <2>1. CASE Settle("credits", "utility") \/ Settle("utility", "history")
    BY <1>1, <2>1, SettleAside
  <2> QED
    BY <1>1, <1>5, <2>1, RoundsAside, HistoryMoves DEF Environment, Runner
<1>6. CASE \E w \in Scrapers : Scrape(w)
  BY <1>1, <1>6, BeginMoves, NextSectionMoves, SetGaugeMoves, ServeMoves, GetEntryMoves,
     GetRecordMoves, SetRecordMoves DEF Scrape
<1>7. CASE \E w \in Scrapers :
             \/ ListFails(w)
             \/ scrape[w].pc \in Kinds /\ \E key \in scrape[w].todo : GetEntryFails(w, key)
             \/ scrape[w].pc = "history" /\ \E key \in scrape[w].todo : GetRecordFails(w, key)
  BY <1>1, <1>7, FailedReads
<1>8. CASE Race \/ Crash
  <2>1. Dies /\ deaths' \in Nat
    BY <1>8 DEF Race, Crash, Dies, MInv, LeftOK
  <2>2. LeftOK'
    <3>1. CASE Race
      BY <2>1, <3>1 DEF Race, MInv, LeftOK
    <3>2. CASE Crash
      BY <2>1, <3>2, FailsLeft DEF Crash, MInv
    <3> QED
      BY <1>8, <3>1, <3>2
  <2> QED
    BY <1>1, <2>1, <2>2, DiesAside
<1>9. CASE UNCHANGED vars
  BY <1>2, <1>9 DEF vars
<1>10. CASE GatewayNext
  BY <1>4, <1>5, <1>6, <1>7, <1>8, <1>10 DEF GatewayNext, Failure
<1> QED
  BY <1>2, <1>3, <1>9, <1>10 DEF Next

LEMMA MInvHolds == Spec => []MInv
BY MInvInit, MInvStep, PTL DEF Spec

(***************************************************************************)
(* Type correctness of the gateway and the switch: among the rest, no      *)
(* gauge is ahead of what is stored, and only customers are shown to win.  *)
(***************************************************************************)
THEOREM TypeOKHolds == Spec => []TypeOK
<1>1. ASSUME MInv, SwInv PROVE TypeOK
  <2>1. SwitchTypeOK
    <3>1. offset.committed \in 0..offset.position /\ offset.position \in 0..Len(results)
      BY <1>1, LenProperties DEF SwInv, OffsetOK
    <3>2. ASSUME NEW f \in SwitchFlows
          PROVE  /\ counters[f].rx \in Nat /\ counters[f].tx \in 0..counters[f].rx
                 /\ forwarded[f].rx \in Nat /\ forwarded[f].kbps \in Nat
      BY <1>1 DEF SwInv, FlowsOK, Counters, Forwarded
    <3> QED
      BY <1>1, <3>1, <3>2 DEF SwitchTypeOK, SwInv, TableOK
  <2>2. \A h \in Handlers :
          /\ handler[h].pc \in {"idle", "lookup", "create", "assign", "put"}
          /\ handler[h].answer \in {0, 202, 400, 401, 403, 500}
          /\ ~At(h, "idle") => handler[h].request \in Requests
    <3> TAKE h \in Handlers
    <3>1. /\ handler[h].pc \in {"idle", "lookup", "create", "assign", "put"}
          /\ handler[h].answer \in Statuses
      BY <1>1 DEF MInv, GInv, HandlerType
    <3>2. ASSUME ~At(h, "idle") PROVE handler[h].request \in Requests
      <4>1. handler[h].pc # "idle"
        BY <3>2 DEF At
      <4> QED
        BY <1>1, <4>1 DEF MInv, GInv, HandlersOK, Rightful
    <3> QED
      BY <3>1, <3>2 DEF Statuses
  <2>3. maps \subseteq DOMAIN bids /\ round.pc \in {"idle", "credits", "utility", "history", "clear"}
    BY <1>1 DEF MInv, MapsOK, GInv, RoundOK
  <2>4. ASSUME NEW kind \in Kinds, NEW key \in Metered(kind)
        PROVE  gauge[kind][key] \in 0..store[kind][key]
    <3>1. /\ gauge[kind][key] \in Nat /\ store[kind][key] \in Nat
          /\ gauge[kind][key] <= store[kind][key]
      BY <1>1 DEF MInv, GaugeOK, StoreOK
    <3> QED
      BY <3>1
  <2>5. \A w \in Scrapers : scrape[w].pc \in {"idle", "begin", "history", "serve"} \cup Kinds
    BY <1>1 DEF MInv, ScrapesOK, ScrapeType, Sections
  <2>6. \A p \in Ports : shown[p] \in 0..round.number /\ DOMAIN won[p] \subseteq Agents(scene)
    <3> TAKE p \in Ports
    <3>1. shown[p] \in Nat /\ shown[p] <= round.number /\ round.number \in Nat
      BY <1>1 DEF MInv, ShownOK, Past, GInv, RoundOK
    <3> QED
      BY <1>1, <3>1 DEF MInv, ShownOK
  <2> QED
    BY <2>1, <2>2, <2>3, <2>4, <2>5, <2>6 DEF TypeOK, GatewayTypeOK
<1>2. MInv /\ SwInv => TypeOK
  BY <1>1
<1> QED
  BY <1>2, MInvHolds, SwInvHolds, PTL

(***************************************************************************)
(* For any number of clients, rounds and ports: what an undisturbed scrape *)
(* shows of a round's price, it shows of the winners' utility.             *)
(***************************************************************************)
THEOREM UtilityCoversPricesHolds == Spec => []UtilityCoversPrices
<1>1. ASSUME MInv, NEW w \in Scrapers, NEW p \in Ports, scrape[w].pc = "serve", scrape[w].alone,
             left.failed = 0, NEW r \in history, r.port = p, r.number = shown[p],
             NEW c \in Winners(r.won)
      PROVE  gauge["utility"][c] >= r.number
  <2>1. Calm(scrape[w])
    BY <1>1 DEF MInv, CalmOK
  <2>2. Covers(scrape[w], c, r.number)
    BY <1>1, <2>1 DEF Calm
  <2> QED
    BY <1>1, <2>2 DEF Covers
<1>2. MInv => UtilityCoversPrices
  BY <1>1 DEF UtilityCoversPrices
<1> QED
  BY <1>2, MInvHolds, PTL

(***************************************************************************)
(* What is shown goes back only by overlapping scrapes, failed calls or a  *)
(* restart.                                                                *)
(***************************************************************************)
Advances ==
  /\ \A p \in Ports : shown'[p] >= shown[p]
  /\ \A kind \in Kinds : \A key \in Metered(kind) : gauge'[kind][key] >= gauge[kind][key]

LEMMA GaugesAdvance ==
  ASSUME MInv, [Next]_vars, Undisturbed, deaths' = deaths
  PROVE  Advances
<1>1. /\ \A p \in Ports : shown[p] \in Nat
      /\ \A kind \in Kinds : \A key \in Metered(kind) : gauge[kind][key] \in Nat
  BY DEF MInv, ShownOK, GaugeOK
<1>2. CASE UNCHANGED <<shown, gauge>>
  BY <1>1, <1>2 DEF Advances
<1>3. ~(Race \/ Crash)
  BY DEF Race, Crash, Dies, MInv, LeftOK
<1>4. ASSUME NEW w \in Scrapers, SetGauge(w) PROVE Advances
  <2> DEFINE kind == scrape[w].pc
             key == scrape[w].read[1]
             value == scrape[w].read[2]
  <2>1. /\ kind \in Kinds /\ scrape[w].read # <<>> /\ shown' = shown
        /\ gauge' = [gauge EXCEPT ![kind][key] = value]
    BY <1>4 DEF SetGauge
  <2>2. scrape[w].alone /\ left.failed = 0
    BY <2>1 DEF Undisturbed, Active, Kinds
  <2>3. GoesOn(scrape[w]) /\ Reading(scrape[w]) /\ scrape[w] \in ScrapeType
    BY <2>2 DEF MInv, CalmOK, Calm, ScrapesOK
  <2>4. value >= gauge[kind][key] /\ key \in Metered(kind) /\ value \in Nat
    BY <2>1, <2>3 DEF GoesOn, Reading, ScrapeType
  <2> HIDE DEF kind, key, value
  <2>5. ASSUME NEW k \in Kinds, NEW c \in Metered(k) PROVE gauge'[k][c] >= gauge[k][c]
    <3>1. gauge = [n \in Kinds |-> gauge[n]] /\ gauge[k] \in [Metered(k) -> Nat]
      BY DEF MInv, GaugeOK
    <3>2. CASE k = kind /\ c = key
      BY <2>1, <2>4, <3>1, <3>2
    <3>3. CASE ~(k = kind /\ c = key)
      <4>1. gauge'[k][c] = gauge[k][c]
        BY <2>1, <3>1, <3>3
      <4> QED
        BY <1>1, <4>1
    <3> QED
      BY <3>2, <3>3
  <2> QED
    BY <1>1, <2>1, <2>5 DEF Advances
<1>5. ASSUME NEW w \in Scrapers, NEW r \in scrape[w].latest, SetRecord(w, r) PROVE Advances
  <2>1. /\ scrape[w].pc = "history" /\ scrape[w].todo = {} /\ gauge' = gauge
        /\ shown' = [shown EXCEPT ![r.port] = r.number]
    BY <1>5 DEF SetRecord
  <2>2. scrape[w].alone /\ left.failed = 0
    BY <2>1 DEF Undisturbed, Active
  <2>3. /\ Calm(scrape[w]) /\ Reading(scrape[w]) /\ r \in RecordType
    BY <2>2 DEF MInv, CalmOK, ScrapesOK, ScrapeType
  <2>4. Ahead(scrape[w], r.port) /\ r.port \in Ports /\ r.number \in Nat
    BY <2>1, <2>3 DEF Calm, RecordType
  <2>5. r.number >= shown[r.port]
    BY <2>1, <2>3, <2>4 DEF Ahead, Reading
  <2>6. shown \in [Ports -> Nat]
    BY DEF MInv, ShownOK
  <2> QED
    BY <1>1, <2>1, <2>4, <2>5, <2>6 DEF Advances
<1>6. CASE \E w \in Scrapers : Scrape(w)
  <2>1. PICK w \in Scrapers : Scrape(w)
    BY <1>6
  <2>2. CASE Begin(w) \/ NextSection(w) \/ Serve(w)
    BY <1>2, <2>2 DEF Begin, NextSection, Serve
  <2>3. CASE \E key \in scrape[w].todo : GetEntry(w, key) \/ GetRecord(w, key)
    BY <1>2, <2>3 DEF GetEntry, GetRecord, ReadAs, Passed
  <2> QED
    BY <1>4, <1>5, <2>1, <2>2, <2>3 DEF Scrape
<1>7. CASE UNCHANGED gatewayVars
  BY <1>2, <1>7 DEF gatewayVars
<1>8. CASE \E p \in Ports, alloc \in Outcomes, d \in 0..1 : Auction(p, alloc, round.interval + d)
  BY <1>2, <1>8 DEF Auction, Round, AsideRounds
<1>9. CASE \E h \in Handlers : Handle(h) \/ CreateFails(h) \/ PutFails(h)
                                \/ \E r \in Requests : Receive(h, r)
  BY <1>2, <1>9 DEF Handle, Lookup, Create, CreateFails, Assign, Put, PutFails, Receive, AsideBids
<1>10. CASE Environment
  BY <1>2, <1>10 DEF Environment, Runner, Settle, StoreHistory, ClearBids, Telemetry, AsideRounds
<1>11. CASE \E w \in Scrapers :
             \/ ListFails(w)
             \/ scrape[w].pc \in Kinds /\ \E key \in scrape[w].todo : GetEntryFails(w, key)
             \/ scrape[w].pc = "history" /\ \E key \in scrape[w].todo : GetRecordFails(w, key)
  BY <1>2, <1>11 DEF ListFails, GetEntryFails, GetRecordFails, ReadAs, Passed
<1>12. CASE UNCHANGED vars
  BY <1>7, <1>12 DEF vars
<1>13. CASE GatewayNext
  BY <1>3, <1>6, <1>9, <1>10, <1>11, <1>13 DEF GatewayNext, Failure
<1> QED
  BY <1>7, <1>8, <1>12, <1>13 DEF Next

(***************************************************************************)
(* As long as scrapes do not overlap and nothing fails, no gauge of a live *)
(* process goes back, neither to an earlier total nor to an earlier round. *)
(***************************************************************************)
THEOREM ShownAdvancesHolds == Spec => ShownAdvances
<1>1. MInv /\ [Next]_vars =>
        [Undisturbed /\ Undisturbed' /\ deaths' = deaths =>
           /\ \A p \in Ports : shown'[p] >= shown[p]
           /\ \A kind \in Kinds : \A key \in Metered(kind) : gauge'[kind][key] >= gauge[kind][key]
        ]_gatewayVars
  BY GaugesAdvance DEF Advances
<1> QED
  BY <1>1, MInvHolds, PTL DEF Spec, ShownAdvances
=============================================================================
