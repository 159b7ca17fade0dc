------------------------------ MODULE Exchange ------------------------------
(***************************************************************************)
(* The programs around the auction in one state: all have loaded the same  *)
(* scenario; clients post bids to the gateway and scrape its metrics, the  *)
(* runner publishes a result for each bid it serves, settles the accounts  *)
(* the gateway shows and clears the bids; the dummy switch reads the       *)
(* results.                                                                *)
(***************************************************************************)
EXTENDS Gateway, DummySwitch, SequencesExt

CONSTANT Workloads   \* scenario files, those that are refused included, and bounds of the
                     \*   two parts: [files, gateway, switch]

ASSUME WorkloadAssumption ==
  \A load \in Workloads :
    /\ load.files \subseteq Scenarios
    /\ \A s \in load.files : s.switches # <<>> /\ s.switches[1].id # ""
    /\ load.gateway \in [posts : Nat, rounds : Nat, reports : Nat, faults : Nat, failed : {0},
                         scrapers : SUBSET Scrapers]
    /\ load.switch \in [deployed : BOOLEAN, results : Nat, ticks : Nat, faults : Nat]
ASSUME OutcomeAssumption == \A alloc \in Outcomes : IsFiniteSet(DOMAIN alloc)

vars == <<scene, gatewayVars, switchVars>>

Init ==
  \E load \in Workloads :
    Load(load.files) /\ GatewayInit(load.gateway) /\ SwitchInit(load.switch)

(***************************************************************************)
(* An auction: runOnce up to the results it writes for its allocations,    *)
(* those of no units included.                                             *)
(***************************************************************************)
Results(p, alloc) ==
  LET ports == SetToSeq(DOMAIN alloc)
  IN  [n \in DOMAIN ports |->
         [format |-> "protobuf", ingress |-> Truncated(ports[n]), egress |-> p,
          kbps |-> alloc[ports[n]]]]

Auction(p, alloc, interval) ==
  /\ Round(p, alloc, interval)
  /\ Publish(Results(p, alloc))
  /\ UNCHANGED allowance

Next ==
  \/ \E p \in Ports, alloc \in Outcomes, d \in 0..1 : Auction(p, alloc, round.interval + d)
  \/ GatewayNext /\ UNCHANGED switchVars
  \/ SwitchNext /\ UNCHANGED gatewayVars

(***************************************************************************)
(* Requests are served, the runner goes on, and each client that scrapes   *)
(* does so again and again.                                                *)
(***************************************************************************)
Spec == Init /\ [][Next]_vars /\ GatewayFairness

(***************************************************************************)
(* Type invariant.                                                         *)
(***************************************************************************)
TypeOK == GatewayTypeOK /\ SwitchTypeOK
=============================================================================
