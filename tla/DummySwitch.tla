---------------------------- MODULE DummySwitch ----------------------------
(***************************************************************************)
(* The dummy switch (dummy/*.go): it reads auction results from Kafka into *)
(* a table of allocations, and each telemetry interval forwards the        *)
(* traffic of each flow, guaranteeing it its allocation and sharing what   *)
(* is left of the capacity among the flows that exceed theirs.             *)
(*                                                                         *)
(* A result is a record [format, ingress, egress, kbps]: the topic is open *)
(* to other writers, and the switch takes JSON, which the runner does not  *)
(* write.  Traffic is in bytes per interval, PerKbps of them for each      *)
(* kbps, and shares are exact where the code rounds binary fractions.      *)
(***************************************************************************)
EXTENDS Scenario, FiniteSetsExt

CONSTANTS
  PerKbps,       \* telemetry interval * 1000 / 8
  RandomDemand,  \* bytes the random pattern draws from
  RandomDrop,    \* bytes it drops
  Kbps           \* allocations considered

ASSUME SwitchAssumption ==
  /\ PerKbps \in Nat \ {0}
  /\ RandomDemand \subseteq Nat /\ RandomDrop \subseteq Nat
  /\ \A rx \in RandomDemand, drop \in RandomDrop : drop <= rx
  /\ Kbps \subseteq Nat

VARIABLES
  allowance,   \* bounds, chosen at first: [deployed, results, ticks, faults]
  results,     \* the topic auction-results
  offset,      \* where the reader is, and what it has committed: [position, committed]
  table,       \* AllocationTable
  counters,    \* bytes received and sent of each flow since the start: [rx, tx]
  ticks,       \* intervalCount
  forwarded    \* history: the last interval: for each flow [rx, kbps, tx], with its
               \*   allocation

switchVars == <<allowance, results, offset, table, counters, ticks, forwarded>>

SwitchFlows ==
  LET sw == scene.switches[1] IN Range(sw.ingress) \X Range(sw.egress)
Capacity == scene.switches[1].capacity * PerKbps
Traffic == WithDefaults(scene.traffic)

NoCounts == [f \in SwitchFlows |-> [rx |-> 0, tx |-> 0]]
NoTraffic == [f \in SwitchFlows |-> [rx |-> 0, kbps |-> 0, tx |-> 0]]

SwitchInit(bounds) ==
  /\ allowance = bounds
  /\ results = <<>>
  /\ offset = [position |-> 0, committed |-> 0]
  /\ table = <<>>
  /\ counters = NoCounts
  /\ ticks = 0
  /\ forwarded = NoTraffic

Allow(field) == allowance[field] > 0 /\ allowance' = [allowance EXCEPT ![field] = @ - 1]

-----------------------------------------------------------------------------
(***************************************************************************)
(* Results on the topic: those of the runner (WriteResults), and those of  *)
(* other writers.                                                          *)
(***************************************************************************)
Publish(batch) ==
  /\ results' = results \o batch
  /\ UNCHANGED <<offset, table, counters, ticks, forwarded>>

OtherResult(f, kbps) ==
  /\ Allow("results")
  /\ Publish(<<[format |-> "json", ingress |-> f[1], egress |-> f[2], kbps |-> kbps]>>)
  /\ UNCHANGED scene

(***************************************************************************)
(* DummySwitch.Run.  ReadMessage commits before it returns; when that      *)
(* fails the result is lost.  What is not JSON is passed over.             *)
(***************************************************************************)
More == allowance.deployed /\ offset.position < Len(results)
AsideReader == UNCHANGED <<scene, results, counters, ticks, forwarded>>

Readable(r) == r.format = "json"

ReadResult ==
  /\ More
  /\ offset' = [position |-> offset.position + 1, committed |-> offset.position + 1]
  /\ LET r == results[offset.position + 1]
         f == <<r.ingress, r.egress>>
     IN  table' = IF Readable(r)
                  THEN [g \in DOMAIN table \cup {f} |-> IF g = f THEN r.kbps ELSE table[g]]
                  ELSE table
  /\ UNCHANGED allowance
  /\ AsideReader

CommitResultFails ==
  /\ More
  /\ Allow("faults")
  /\ offset' = [offset EXCEPT !.position = @ + 1]
  /\ UNCHANGED table
  /\ AsideReader

-----------------------------------------------------------------------------
(***************************************************************************)
(* rxForInterval, and the random pattern.                                  *)
(***************************************************************************)
AtLeastOne(n) == IF n < 1 THEN 1 ELSE n
SpikeTriggered(count) == count * scene.telemetry >= Traffic.spikeAfter * scene.auction
Rate(count) ==
  IF Traffic.pattern = "spike" /\ SpikeTriggered(count) THEN Traffic.spikeRate ELSE Traffic.rate

Demands(count) ==
  IF Traffic.pattern = "random" THEN [SwitchFlows -> RandomDemand]
  ELSE {[f \in SwitchFlows |-> AtLeastOne(Rate(count) * PerKbps)]}

(***************************************************************************)
(* What is sure of each flow: all of it, without an allocation or with one *)
(* of zero; else its allocation at most.                                   *)
(***************************************************************************)
Lesser(a, b) == IF a <= b THEN a ELSE b
AllocatedKbps(f) == IF f \in DOMAIN table THEN table[f] ELSE 0

Sure(rx) ==
  [f \in SwitchFlows |->
     IF AllocatedKbps(f) = 0 THEN rx[f] ELSE Lesser(rx[f], AllocatedKbps(f) * PerKbps)]

(***************************************************************************)
(* The spare capacity, shared in proportion to the excess, rounded down.   *)
(***************************************************************************)
SumOf(bytes) == SumFunctionOnSet(bytes, SwitchFlows)
Excess(rx, sure) == [f \in SwitchFlows |-> rx[f] - sure[f]]
Spare(sure) == IF SumOf(sure) < Capacity THEN Capacity - SumOf(sure) ELSE 0

MutantRoundedUp(rx, sure) ==
  LET excess == Excess(rx, sure)
  IN  [f \in SwitchFlows |->
         IF excess[f] = 0 THEN 0
         ELSE Lesser(excess[f], 1 + (excess[f] * Spare(sure)) \div SumOf(excess))]
MutantUncapped(rx, sure) ==  \* not limited to what the flow offers
  LET excess == Excess(rx, sure)
  IN  [f \in SwitchFlows |->
         IF excess[f] = 0 THEN 0 ELSE (excess[f] * Spare(sure)) \div SumOf(excess)]
MutantEvenShares(rx, sure) ==
  LET excess == Excess(rx, sure)
  IN  [f \in SwitchFlows |-> Lesser(excess[f], Spare(sure) \div Cardinality(SwitchFlows))]
BestEffort(rx, sure) ==
  LET excess == Excess(rx, sure)
  IN  [f \in SwitchFlows |->
         IF excess[f] = 0 THEN 0
         ELSE Lesser(excess[f], (excess[f] * Spare(sure)) \div SumOf(excess))]

(***************************************************************************)
(* A tick of the producer.  The random pattern drops at random whatever is *)
(* allocated.  Whether the reports reach Kafka makes no difference here:   *)
(* Telemetry takes them from there.                                        *)
(***************************************************************************)
Sent(rx, sure) ==
  IF Traffic.pattern = "random"
  THEN {[f \in SwitchFlows |-> rx[f] - drop[f]] : drop \in [SwitchFlows -> RandomDrop]}
  ELSE {[f \in SwitchFlows |-> sure[f] + BestEffort(rx, sure)[f]]}

Tick ==
  /\ Allow("ticks")
  /\ ticks' = ticks + 1
  /\ \E rx \in Demands(ticks') :
       LET sure == Sure(rx)
       IN  \E tx \in Sent(rx, sure) :
             /\ forwarded' =
                  [f \in SwitchFlows |-> [rx |-> rx[f], kbps |-> AllocatedKbps(f), tx |-> tx[f]]]
             /\ counters' =
                  [f \in SwitchFlows |-> [rx |-> counters[f].rx + rx[f],
                                          tx |-> counters[f].tx + tx[f]]]
  /\ UNCHANGED <<scene, results, offset, table>>

(***************************************************************************)
(* The pod restarts: the table is lost, and the results it was made of are *)
(* not read again.                                                         *)
(***************************************************************************)
SwitchRestarts ==
  /\ Allow("faults")
  /\ offset' = [offset EXCEPT !.position = offset.committed]
  /\ table' = <<>>
  /\ counters' = NoCounts
  /\ ticks' = 0
  /\ UNCHANGED <<scene, results, forwarded>>

SwitchNext ==
  \/ \E f \in SwitchFlows, kbps \in Kbps : OtherResult(f, kbps)
  \/ ReadResult \/ CommitResultFails
  \/ Tick
  \/ SwitchRestarts

-----------------------------------------------------------------------------
(***************************************************************************)
(* Type invariant.                                                         *)
(***************************************************************************)
SwitchTypeOK ==
  /\ offset.committed \in 0..offset.position /\ offset.position \in 0..Len(results)
  /\ \A f \in DOMAIN table : table[f] \in Nat
  /\ \A f \in SwitchFlows :
       /\ counters[f].rx \in Nat /\ counters[f].tx \in 0..counters[f].rx
       /\ forwarded[f].rx \in Nat /\ forwarded[f].kbps \in Nat

(***************************************************************************)
(* The switch enforces allocations, unless traffic is random: a flow is    *)
(* sent no more than it offers and, up to its allocation, no less; and all *)
(* flows together are sent no more than the capacity, or, where what is    *)
(* sure exceeds it, no more than that.                                     *)
(***************************************************************************)
Enforced == Traffic.pattern # "random"
Due(f) ==
  IF forwarded[f].kbps = 0 THEN forwarded[f].rx
  ELSE Lesser(forwarded[f].rx, forwarded[f].kbps * PerKbps)
TotalDue == SumOf([f \in SwitchFlows |-> Due(f)])
TotalSent == SumOf([f \in SwitchFlows |-> forwarded[f].tx])

EgressFits ==
  Enforced =>
    /\ \A f \in SwitchFlows : forwarded[f].tx \in Due(f)..forwarded[f].rx
    /\ TotalSent <= IF TotalDue <= Capacity THEN Capacity ELSE TotalDue

(***************************************************************************)
(* "traffic above a flow's allocation is forwarded from spare capacity     *)
(* rather than dropped" (experiment-2a): unless all is sent that is        *)
(* offered, less than a byte for each flow of the capacity is idle.        *)
(***************************************************************************)
NoCapacityIdle ==
  Enforced =>
    \/ \A f \in SwitchFlows : forwarded[f].tx = forwarded[f].rx
    \/ TotalSent > Capacity - Cardinality(SwitchFlows)

(***************************************************************************)
(* "DummySwitch writes to it when auction results arrive" (allocation.go): *)
(* as long as the switch loses none, the last result it has read for a     *)
(* flow is the allocation of the flow.  The switch reads JSON, the runner  *)
(* writes protobuf.                                                        *)
(***************************************************************************)
FlowOf(n) == <<results[n].ingress, results[n].egress>>

ResultsTakeEffect ==
  \A n \in 1..offset.position :
    (\A later \in n + 1..offset.position : FlowOf(later) # FlowOf(n))
      => FlowOf(n) \in DOMAIN table /\ table[FlowOf(n)] = results[n].kbps
=============================================================================
