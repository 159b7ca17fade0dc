--------------------------- MODULE ScenarioProofs ---------------------------
(***************************************************************************)
(* What the checks of validateCustomers are worth, for any file: one agent *)
(* bids for each port of each switch, and who looks up the owner of a port *)
(* on its switch finds the customer of that agent.                         *)
(***************************************************************************)
EXTENDS Scenario, SequenceTheorems, TLAPS

LEMMA SceneTypes ==
  ASSUME NEW s \in Scenarios
  PROVE  /\ s.customers \in Seq([id : STRING, switch : STRING, ports : Seq(Nat), valuation : Int])
         /\ \A i \in DOMAIN s.customers :
              /\ s.customers[i].id \in STRING /\ s.customers[i].switch \in STRING
              /\ s.customers[i].ports \in Seq(Nat)
         /\ \A i \in DOMAIN s.customers : i \in Int
<1>1. s.customers \in Seq([id : STRING, switch : STRING, ports : Seq(Nat), valuation : Int])
  BY DEF Scenarios
<1>2. DOMAIN s.customers = 1..Len(s.customers) /\ Len(s.customers) \in Nat
  BY <1>1, LenProperties
<1>3. \A i \in DOMAIN s.customers :
        s.customers[i] \in [id : STRING, switch : STRING, ports : Seq(Nat), valuation : Int]
  BY <1>1, <1>2, ElementOfSeq
<1> QED
  BY <1>1, <1>2, <1>3

(***************************************************************************)
(* Claims, spelt out.                                                      *)
(***************************************************************************)
LEMMA ClaimsSpelt ==
  ASSUME NEW s, NEW i \in DOMAIN s.customers, NEW k \in DOMAIN s.customers[i].ports
  PROVE  /\ <<i, k>> \in Claims(s)
         /\ Claimed(s, <<i, k>>) = <<s.customers[i].switch, s.customers[i].ports[k]>>
<1>1. <<i, k>> \in {i} \X DOMAIN s.customers[i].ports
  OBVIOUS
<1> QED
  BY <1>1 DEF Claims, Claimed

(***************************************************************************)
(* In a file that is accepted, no two entries own a port.                  *)
(***************************************************************************)
LEMMA OneEntry ==
  ASSUME NEW s \in Scenarios, ValidCustomers(s), NEW switch, NEW port,
         NEW i \in Owners(s, switch, port), NEW j \in Owners(s, switch, port)
  PROVE  i = j
<1>1. /\ i \in DOMAIN s.customers /\ j \in DOMAIN s.customers
      /\ s.customers[i].switch = switch /\ s.customers[j].switch = switch
      /\ port \in Range(s.customers[i].ports) /\ port \in Range(s.customers[j].ports)
  BY DEF Owners
<1>2. PICK k \in DOMAIN s.customers[i].ports : s.customers[i].ports[k] = port
  BY <1>1 DEF Range
<1>3. PICK l \in DOMAIN s.customers[j].ports : s.customers[j].ports[l] = port
  BY <1>1 DEF Range
<1>4. /\ <<i, k>> \in Claims(s) /\ Claimed(s, <<i, k>>) = <<switch, port>>
      /\ <<j, l>> \in Claims(s) /\ Claimed(s, <<j, l>>) = <<switch, port>>
  BY <1>1, <1>2, <1>3, ClaimsSpelt
<1>5. <<i, k>> = <<j, l>>
  BY <1>4 DEF ValidCustomers
<1> QED
  BY <1>5

LEMMA LookUp ==
  ASSUME NEW s \in Scenarios, ValidCustomers(s), NEW switch, NEW port,
         NEW i \in Owners(s, switch, port)
  PROVE  CustomerForIngressPort(s, switch, port) = s.customers[i].id
<1>1. Owners(s, switch, port) = {i}
  BY OneEntry
<1>2. i \in Int
  BY SceneTypes DEF Owners
<1> DEFINE first == CHOOSE n \in Owners(s, switch, port) : \A m \in Owners(s, switch, port) : n <= m
<1>3. first = i
  BY <1>1, <1>2
<1> QED
  BY <1>1, <1>3 DEF CustomerForIngressPort

LEMMA NoLookUp ==
  ASSUME NEW s, NEW switch, NEW port, Owners(s, switch, port) = {}
  PROVE  CustomerForIngressPort(s, switch, port) = ""
  BY DEF CustomerForIngressPort

(***************************************************************************)
(* The agent of the customer found has the port; the agent of another has  *)
(* not.                                                                    *)
(***************************************************************************)
LEMMA AgentOfOwner ==
  ASSUME NEW s \in Scenarios, NEW switch, NEW port, NEW customer
  PROVE  <<switch, port>> \in AgentPorts(s, customer)
           <=> \E i \in Owners(s, switch, port) : s.customers[i].id = customer
<1> DEFINE entries == {d \in Range(s.customers) : d.id = customer}
<1>1. ASSUME <<switch, port>> \in AgentPorts(s, customer)
      PROVE  \E i \in Owners(s, switch, port) : s.customers[i].id = customer
  <2>1. PICK c \in entries : <<switch, port>> \in {c.switch} \X Range(c.ports)
    BY <1>1 DEF AgentPorts
  <2>2. PICK i \in DOMAIN s.customers : s.customers[i] = c
    BY <2>1 DEF Range
  <2>3. c.switch = switch /\ port \in Range(c.ports)
    BY <2>1
  <2> QED
    BY <2>1, <2>2, <2>3 DEF Owners
<1>2. ASSUME NEW i \in Owners(s, switch, port), s.customers[i].id = customer
      PROVE  <<switch, port>> \in AgentPorts(s, customer)
  <2>1. /\ i \in DOMAIN s.customers
        /\ s.customers[i].switch = switch /\ port \in Range(s.customers[i].ports)
    BY DEF Owners
  <2>2. s.customers[i] \in entries
    BY <1>2, <2>1 DEF Range
  <2>3. <<switch, port>> \in {s.customers[i].switch} \X Range(s.customers[i].ports)
    BY <2>1
  <2> QED
    BY <2>2, <2>3 DEF AgentPorts
<1> QED
  BY <1>1, <1>2

LEMMA OwnedPorts ==
  ASSUME NEW s \in Scenarios, ValidCustomers(s), NEW port \in AllowedPorts(s)
  PROVE  port = <<port[1], port[2]>> /\ Owners(s, port[1], port[2]) # {}
<1>1. PICK n \in Claims(s) : port = Claimed(s, n)
  BY DEF ValidCustomers
<1>2. PICK i \in DOMAIN s.customers : n \in {i} \X DOMAIN s.customers[i].ports
  BY DEF Claims
<1>3. n[1] = i /\ n[2] \in DOMAIN s.customers[i].ports
  BY <1>2
<1>4. port = <<s.customers[i].switch, s.customers[i].ports[n[2]]>>
  BY <1>1, <1>3 DEF Claimed
<1>5. s.customers[i].ports[n[2]] \in Range(s.customers[i].ports)
  BY <1>3 DEF Range
<1> QED
  BY <1>4, <1>5 DEF Owners

(***************************************************************************)
(* A file that passes validateCustomers has one owner for each port.       *)
(***************************************************************************)
LEMMA ValidHasOneOwner ==
  ASSUME NEW s \in Scenarios, ValidCustomers(s), NEW port \in AllowedPorts(s)
  PROVE  /\ \A c : port \in AgentPorts(s, c) <=> c = CustomerForIngressPort(s, port[1], port[2])
         /\ CustomerForIngressPort(s, port[1], port[2]) \in Agents(s)
<1>1. port = <<port[1], port[2]>> /\ Owners(s, port[1], port[2]) # {}
  BY OwnedPorts
<1>2. PICK i : i \in Owners(s, port[1], port[2])
  BY <1>1
<1>3. CustomerForIngressPort(s, port[1], port[2]) = s.customers[i].id
  BY <1>2, LookUp
<1>4. \A j \in Owners(s, port[1], port[2]) : j = i
  BY <1>2, OneEntry
<1>5. s.customers[i].id \in Agents(s)
  BY <1>2 DEF Owners, Agents, Range
<1>6. \A c : port \in AgentPorts(s, c)
               <=> \E j \in Owners(s, port[1], port[2]) : s.customers[j].id = c
  BY <1>1, AgentOfOwner
<1> QED
  BY <1>2, <1>3, <1>4, <1>5, <1>6

(***************************************************************************)
(* Whoever is found for a port of whatever number is its owner.            *)
(***************************************************************************)
LEMMA FoundOwns ==
  ASSUME NEW s \in Scenarios, ValidCustomers(s), NEW switch, NEW port,
         CustomerForIngressPort(s, switch, port) # ""
  PROVE  <<switch, port>> \in AgentPorts(s, CustomerForIngressPort(s, switch, port))
<1>1. PICK i : i \in Owners(s, switch, port)
  BY NoLookUp
<1>2. CustomerForIngressPort(s, switch, port) = s.customers[i].id
  BY <1>1, LookUp
<1> QED
  BY <1>1, <1>2, AgentOfOwner

(***************************************************************************)
(* For the port of an agent the look-up on its switch finds its customer.  *)
(***************************************************************************)
LEMMA AgentFound ==
  ASSUME NEW s \in Scenarios, ValidCustomers(s), NEW switch, NEW port, NEW customer,
         <<switch, port>> \in AgentPorts(s, customer)
  PROVE  CustomerForIngressPort(s, switch, port) = customer
<1>1. PICK i \in Owners(s, switch, port) : s.customers[i].id = customer
  BY AgentOfOwner
<1> QED
  BY <1>1, LookUp

(***************************************************************************)
(* The default valuations change nothing of this.                          *)
(***************************************************************************)
LEMMA ValuationsOnly ==
  ASSUME NEW s \in Scenarios
  PROVE  /\ WithValuations(s) \in Scenarios
         /\ WithValuations(s).switches = s.switches
         /\ DOMAIN WithValuations(s).customers = DOMAIN s.customers
         /\ \A i \in DOMAIN s.customers :
              /\ WithValuations(s).customers[i].id = s.customers[i].id
              /\ WithValuations(s).customers[i].switch = s.customers[i].switch
              /\ WithValuations(s).customers[i].ports = s.customers[i].ports
<1> DEFINE Entry == [id : STRING, switch : STRING, ports : Seq(Nat), valuation : Int]
           valued == [i \in DOMAIN s.customers |-> Valued(s.customers[i], s.reserve)]
<1>1. s.customers \in Seq(Entry) /\ s.reserve \in Int
  BY DEF Scenarios
<1>2. DOMAIN s.customers = 1..Len(s.customers) /\ Len(s.customers) \in Nat
  BY <1>1, LenProperties
<1>3. \A i \in DOMAIN s.customers : s.customers[i] \in Entry
  BY <1>1, <1>2, ElementOfSeq
<1>4. ASSUME NEW c \in Entry
      PROVE  /\ Valued(c, s.reserve) \in Entry
             /\ Valued(c, s.reserve).id = c.id /\ Valued(c, s.reserve).switch = c.switch
             /\ Valued(c, s.reserve).ports = c.ports
  <2>1. (IF c.valuation <= 0 THEN 10 * s.reserve ELSE c.valuation) \in Int
    BY <1>1
  <2> QED
    BY <2>1 DEF Valued
<1>5. WithValuations(s) = [s EXCEPT !.customers = valued]
  BY DEF WithValuations
<1> HIDE DEF Entry
<1>6. valued \in [1..Len(s.customers) -> Entry] /\ DOMAIN valued = DOMAIN s.customers
  BY <1>2, <1>3, <1>4
<1>7. valued \in Seq(Entry)
  BY <1>2, <1>6
<1>8. \A i \in DOMAIN s.customers : valued[i] = Valued(s.customers[i], s.reserve)
  OBVIOUS
<1> HIDE DEF valued
<1>9. /\ WithValuations(s) \in Scenarios
      /\ WithValuations(s).switches = s.switches /\ WithValuations(s).customers = valued
  BY <1>5, <1>7 DEF Scenarios, Entry
<1> QED
  BY <1>3, <1>4, <1>6, <1>8, <1>9

LEMMA ValuationsKeepClaims ==
  ASSUME NEW s \in Scenarios, ValidCustomers(s)
  PROVE  ValidCustomers(WithValuations(s))
<1> DEFINE t == WithValuations(s)
<1>1. /\ t.switches = s.switches /\ DOMAIN t.customers = DOMAIN s.customers
      /\ \A i \in DOMAIN s.customers :
           /\ t.customers[i].id = s.customers[i].id
           /\ t.customers[i].switch = s.customers[i].switch
           /\ t.customers[i].ports = s.customers[i].ports
  BY ValuationsOnly
<1> HIDE DEF t
<1>2. AllowedPorts(t) = AllowedPorts(s) /\ SwitchIds(t) = SwitchIds(s)
  BY <1>1 DEF AllowedPorts, SwitchIds
<1>3. \A i \in DOMAIN s.customers :
        {i} \X DOMAIN t.customers[i].ports = {i} \X DOMAIN s.customers[i].ports
  BY <1>1
<1>4. Claims(t) = Claims(s)
  BY <1>1, <1>3 DEF Claims
<1>5. ASSUME NEW n \in Claims(s) PROVE Claimed(t, n) = Claimed(s, n)
  <2>1. PICK i \in DOMAIN s.customers : n \in {i} \X DOMAIN s.customers[i].ports
    BY DEF Claims
  <2>2. n[1] = i
    BY <2>1
  <2> QED
    BY <1>1, <2>2 DEF Claimed
<1>6. \A c \in Range(t.customers) : c.id # "" /\ c.switch # "" /\ c.switch \in SwitchIds(t)
  <2> SUFFICES ASSUME NEW i \in DOMAIN t.customers
               PROVE  /\ t.customers[i].id # "" /\ t.customers[i].switch # ""
                      /\ t.customers[i].switch \in SwitchIds(t)
    BY DEF Range
  <2>1. s.customers[i] \in Range(s.customers)
    BY <1>1 DEF Range
  <2> QED
    BY <1>1, <1>2, <2>1 DEF ValidCustomers
<1>7. {Claimed(t, n) : n \in Claims(t)} = AllowedPorts(t)
  BY <1>2, <1>4, <1>5 DEF ValidCustomers
<1>8. \A m, n \in Claims(t) : Claimed(t, m) = Claimed(t, n) => m = n
  BY <1>4, <1>5 DEF ValidCustomers
<1>9. ValidCustomers(t)
  BY <1>6, <1>7, <1>8 DEF ValidCustomers
<1> QED
  BY <1>9 DEF t

(***************************************************************************)
(* What Load yields: "every ingress port is assigned to exactly one        *)
(* customer" (customer.go).  Of any file that is accepted, with any number *)
(* of switches, exactly one agent bids for each port of each switch.       *)
(***************************************************************************)
THEOREM LoadedHasOneOwner ==
  ASSUME NEW files \in SUBSET Scenarios, Load(files)
  PROVE  /\ scene \in Scenarios /\ ValidCustomers(scene)
         /\ \A port \in AllowedPorts(scene) : \E c \in Agents(scene) :
              /\ port \in AgentPorts(scene, c)
              /\ \A d \in Agents(scene) : port \in AgentPorts(scene, d) => d = c
<1>1. PICK s \in files : Accepted(s) /\ scene = WithValuations(s)
  BY DEF Load
<1>2. scene \in Scenarios /\ ValidCustomers(scene)
  BY <1>1, ValuationsOnly, ValuationsKeepClaims DEF Accepted
<1>3. ASSUME NEW port \in AllowedPorts(scene)
      PROVE  \E c \in Agents(scene) :
               /\ port \in AgentPorts(scene, c)
               /\ \A d \in Agents(scene) : port \in AgentPorts(scene, d) => d = c
  <2> DEFINE owner == CustomerForIngressPort(scene, port[1], port[2])
  <2>1. /\ \A c : port \in AgentPorts(scene, c) <=> c = owner
        /\ owner \in Agents(scene)
    BY <1>2, ValidHasOneOwner
  <2> HIDE DEF owner
  <2> QED
    BY <2>1
<1> QED
  BY <1>2, <1>3
=============================================================================
