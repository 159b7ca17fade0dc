------------------------------ MODULE Scenario ------------------------------
(***************************************************************************)
(* The scenario (shared/scenario): the YAML file that every program loads  *)
(* when it starts, with the switches and their ports and the customers who *)
(* own them.  Programs ask it who owns a port: the gateway for each bid,   *)
(* each agent for itself.  A file may have several switches: agents bid    *)
(* for the ports of all of them, the gateway and the runner look at the    *)
(* first only.                                                             *)
(*                                                                         *)
(* An interval is in seconds; a customer may have several entries.         *)
(***************************************************************************)
EXTENDS Integers, Sequences, Functions

VARIABLE scene        \* the scenario all programs have loaded

Scenarios ==
  [version : STRING, reserve : Int, telemetry : Nat \ {0}, auction : Nat \ {0},
   switches : Seq([id : STRING, ingress : Seq(Nat), egress : Seq(Nat), capacity : Nat]),
   customers : Seq([id : STRING, switch : STRING, ports : Seq(Nat), valuation : Int]),
   traffic : [pattern : STRING, rate : Int, spikeAfter : Int, spikeRate : Int]]

-----------------------------------------------------------------------------
(***************************************************************************)
(* validateCustomers.  A claim is a place in the ports of a customer.      *)
(***************************************************************************)
SwitchIds(s) == {sw.id : sw \in Range(s.switches)}
AllowedPorts(s) == UNION {{sw.id} \X Range(sw.ingress) : sw \in Range(s.switches)}

Claims(s) == UNION {{i} \X DOMAIN s.customers[i].ports : i \in DOMAIN s.customers}
Claimed(s, n) == <<s.customers[n[1]].switch, s.customers[n[1]].ports[n[2]]>>

MutantSharedPorts(s) ==  \* the check for a port assigned before left out
  /\ \A c \in Range(s.customers) : c.id # "" /\ c.switch # "" /\ c.switch \in SwitchIds(s)
  /\ {Claimed(s, n) : n \in Claims(s)} = AllowedPorts(s)

ValidCustomers(s) ==
  /\ \A c \in Range(s.customers) : c.id # "" /\ c.switch # "" /\ c.switch \in SwitchIds(s)
  /\ {Claimed(s, n) : n \in Claims(s)} = AllowedPorts(s)
  /\ \A m, n \in Claims(s) : Claimed(s, m) = Claimed(s, n) => m = n

Accepted(s) == s.version = "v1" /\ ValidCustomers(s)

(***************************************************************************)
(* applyValuationDefaults, and TrafficConfig.WithDefaults.                 *)
(***************************************************************************)
Valued(c, reserve) ==
  [c EXCEPT !.valuation = IF c.valuation <= 0 THEN 10 * reserve ELSE c.valuation]
WithValuations(s) ==
  [s EXCEPT !.customers = [i \in DOMAIN s.customers |-> Valued(s.customers[i], s.reserve)]]

Or(value, default) == IF value <= 0 THEN default ELSE value
WithDefaults(t) ==
  [pattern |-> IF t.pattern = "" THEN "random" ELSE t.pattern,
   rate |-> Or(t.rate, 10), spikeAfter |-> Or(t.spikeAfter, 5), spikeRate |-> Or(t.spikeRate, 18)]

Load(files) == \E s \in files : Accepted(s) /\ scene = WithValuations(s)

-----------------------------------------------------------------------------
(***************************************************************************)
(* CustomerForIngressPort: the first customer with the port, "" for none.  *)
(***************************************************************************)
Owners(s, switch, port) ==
  {i \in DOMAIN s.customers : s.customers[i].switch = switch /\ port \in Range(s.customers[i].ports)}

CustomerForIngressPort(s, switch, port) ==
  LET owners == Owners(s, switch, port)
  IN  IF owners = {} THEN ""
      ELSE s.customers[CHOOSE i \in owners : \A j \in owners : i <= j].id

(***************************************************************************)
(* The customers an agent is deployed for, and the ports it bids for       *)
(* (deriveCustomerPorts of the agent).                                     *)
(***************************************************************************)
Agents(s) == {c.id : c \in Range(s.customers)}

AgentPorts(s, customer) ==
  UNION {{c.switch} \X Range(c.ports) : c \in {d \in Range(s.customers) : d.id = customer}}
=============================================================================
