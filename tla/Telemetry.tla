----------------------------- MODULE Telemetry -----------------------------
(***************************************************************************)
(* The telemetry processor (telemetry/consumer.go): it turns the byte      *)
(* counters a switch reports on a Kafka topic into the rates of            *)
(* throughput-map, keeping the last report of each flow in flow-state-map. *)
(*                                                                         *)
(* The switch and Kafka are external.  A report goes to a partition of the *)
(* topic and may be written twice by a retry; the consumer reads the       *)
(* partitions in any order, and ReadMessage commits a message before it    *)
(* returns it.  Counters are modulo Word and may start again from zero     *)
(* with the switch.                                                        *)
(*                                                                         *)
(* A flow reports at most once at any time, so the number of a report is   *)
(* its time.  Rates are kept as the bytes and the time they are the        *)
(* quotient of.                                                            *)
(***************************************************************************)
EXTENDS Integers, Sequences

CONSTANTS
  Flows,          \* pairs of ingress and egress port
  Partitions,
  PartitionsOf,   \* the partitions the reports of a flow go to
  Traffic,        \* bytes received and sent between two reports: [rx, tx]
  StartAt,        \* total bytes received and sent before the first report
  Word,           \* 2^64 in the code
  MaxReports,     \* bound: reports of each flow
  MaxFaults       \* bound: failed calls, duplicates, crashes, restarts of the switch

ASSUME PartitionAssumption ==
  /\ PartitionsOf \in [Flows -> SUBSET Partitions]
  /\ \A f \in Flows : PartitionsOf[f] # {}
ASSUME TrafficAssumption ==
  /\ \A t \in Traffic : t.rx \in Nat /\ t.tx \in 0..t.rx
  /\ StartAt \in Nat
ASSUME NatAssumption == Word \in Nat \ {0} /\ MaxReports \in Nat /\ MaxFaults \in Nat

\* "does not wrap more than once", the assumption of delta
ASSUME WrapAssumption == \A t \in Traffic : MaxReports * t.rx < Word

VARIABLES
  made,       \* number of reports of each flow
  total,      \* bytes received and sent by each flow since the switch started
  boots,      \* how often the switch has started again
  topic,      \* the reports in each partition
  position,   \* what the reader has read of each partition
  committed,  \* the offsets of the consumer group
  pc,         \* where handleMessage is
  report,     \* the report it handles
  prev,       \* the state it found for the flow
  state,      \* flow-state-map
  shown,      \* throughput-map
  faults

switch == <<made, total, boots, topic>>
reader == <<position, committed>>
vars == <<switch, reader, pc, report, prev, state, shown, faults>>

NoReport == [flow |-> "none"]
NoMetrics == [dt |-> 0]

Init ==
  /\ made = [f \in Flows |-> 0]
  /\ total = [f \in Flows |-> [rx |-> StartAt, tx |-> StartAt]]
  /\ boots = 0
  /\ topic = [p \in Partitions |-> <<>>]
  /\ position = [p \in Partitions |-> 0]
  /\ committed = [p \in Partitions |-> 0]
  /\ pc = "read" /\ report = NoReport /\ prev = NoReport
  /\ state = [f \in Flows |-> NoReport]
  /\ shown = [f \in Flows |-> NoMetrics]
  /\ faults = 0

Fault == faults < MaxFaults /\ faults' = faults + 1

-----------------------------------------------------------------------------
(***************************************************************************)
(* The switch, and the Kafka producer in it.  A report carries the two     *)
(* counters; sent is what they stand for, known to the switch alone.       *)
(***************************************************************************)
Emit(f, traffic, copies) ==
  /\ made[f] < MaxReports
  /\ made' = [made EXCEPT ![f] = @ + 1]
  /\ total' = [total EXCEPT ![f] = [rx |-> @.rx + traffic.rx, tx |-> @.tx + traffic.tx]]
  /\ \E p \in PartitionsOf[f] :
       topic' = [topic EXCEPT ![p] = @ \o [n \in 1..copies |->
         [flow |-> f, time |-> made'[f],
          rx |-> total'[f].rx % Word, tx |-> total'[f].tx % Word,
          sent |-> total'[f], boot |-> boots]]]
  /\ UNCHANGED <<boots, reader, pc, report, prev, state, shown>>

Report(f, traffic)      == Emit(f, traffic, 1) /\ UNCHANGED faults
ReportTwice(f, traffic) == Fault /\ Emit(f, traffic, 2)

SwitchRestarts ==
  /\ Fault
  /\ boots' = boots + 1
  /\ total' = [f \in Flows |-> [rx |-> 0, tx |-> 0]]
  /\ UNCHANGED <<made, topic, reader, pc, report, prev, state, shown>>

-----------------------------------------------------------------------------
(***************************************************************************)
(* ReadMessage, which commits the offset of the message it has read.  When *)
(* the commit fails it returns the error in place of the message, which    *)
(* the loop of Run skips.                                                  *)
(***************************************************************************)
Read(p) ==
  /\ pc = "read"
  /\ position[p] < Len(topic[p])
  /\ position' = [position EXCEPT ![p] = @ + 1]
  /\ committed' = [committed EXCEPT ![p] = position'[p]]
  /\ report' = topic[p][position'[p]]
  /\ pc' = "get"
  /\ UNCHANGED <<switch, prev, state, shown, faults>>

CommitFails(p) ==
  /\ Fault
  /\ pc = "read"
  /\ position[p] < Len(topic[p])
  /\ position' = [position EXCEPT ![p] = @ + 1]
  /\ committed' \in {committed, [committed EXCEPT ![p] = position'[p]]}
  /\ UNCHANGED <<switch, pc, report, prev, state, shown>>

(***************************************************************************)
(* getFlowState, in which any error is taken for a flow seen for the first *)
(* time, and the test on dt at the head of computeMetrics.                 *)
(***************************************************************************)
MutantLongOnly(found) == found # NoReport /\ report.time > found.time + 1
MutantAnyOrder(found) == found # NoReport /\ report.time # found.time
HasRate(found) == found # NoReport /\ report.time > found.time

Found(found) ==
  /\ pc = "get"
  /\ prev' = found
  /\ pc' = IF HasRate(found) THEN "publish" ELSE "set"
  /\ UNCHANGED <<switch, reader, report, state, shown>>

GetState      == Found(state[report.flow]) /\ UNCHANGED faults
GetStateFails == Fault /\ Found(NoReport)

(***************************************************************************)
(* delta, on unsigned words, and the other sums of computeMetrics.         *)
(***************************************************************************)
MutantDeltaOffByOne(curr, last) ==
  IF curr >= last THEN curr - last ELSE ((Word - 1) - last) + curr
Delta(curr, last) ==
  IF curr >= last THEN curr - last ELSE ((Word - 1) - last) + curr + 1

ComputeMetrics ==
  LET rx == Delta(report.rx, prev.rx)
      tx == Delta(report.tx, prev.tx)
  IN  [rx |-> rx, tx |-> tx, drop |-> IF rx > tx THEN rx - tx ELSE 0,
       dt |-> report.time - prev.time, from |-> prev, to |-> report]

PublishMetrics ==
  /\ pc = "publish"
  /\ shown' = [shown EXCEPT ![report.flow] = ComputeMetrics]
  /\ pc' = "set"
  /\ UNCHANGED <<switch, reader, report, prev, state, faults>>

(***************************************************************************)
(* The error of this Put is not looked at.                                 *)
(***************************************************************************)
PublishFails ==
  /\ Fault
  /\ pc = "publish"
  /\ pc' = "set"
  /\ UNCHANGED <<switch, reader, report, prev, state, shown>>

(***************************************************************************)
(* setFlowState, with whatever report this is.                             *)
(***************************************************************************)
Handled == pc' = "read" /\ report' = NoReport /\ prev' = NoReport

SetState ==
  /\ pc = "set"
  /\ state' = [state EXCEPT ![report.flow] = report]
  /\ Handled
  /\ UNCHANGED <<switch, reader, shown, faults>>

SetStateFails ==
  /\ Fault
  /\ pc = "set"
  /\ Handled
  /\ UNCHANGED <<switch, reader, state, shown>>

(***************************************************************************)
(* The pod dies and another reads on from the committed offsets.           *)
(***************************************************************************)
MutantFromStart ==  \* no consumer group: the reader starts with the first message
  /\ Fault
  /\ Handled
  /\ position' = [p \in Partitions |-> 0]
  /\ UNCHANGED <<switch, committed, state, shown>>

Restart ==
  /\ Fault
  /\ Handled
  /\ position' = committed
  /\ UNCHANGED <<switch, committed, state, shown>>

-----------------------------------------------------------------------------
Switch == \E f \in Flows, t \in Traffic : Report(f, t) \/ ReportTwice(f, t)

Consumer ==
  \/ \E p \in Partitions : Read(p)
  \/ GetState \/ PublishMetrics \/ SetState

Failure ==
  \/ \E p \in Partitions : CommitFails(p)
  \/ GetStateFails \/ PublishFails \/ SetStateFails \/ Restart \/ SwitchRestarts

Next == Switch \/ Consumer \/ Failure

(***************************************************************************)
(* The loop of Run goes on.                                                *)
(***************************************************************************)
Spec == Init /\ [][Next]_vars /\ WF_vars(Consumer)

-----------------------------------------------------------------------------
(***************************************************************************)
(* Type invariant.                                                         *)
(***************************************************************************)
Bytes == [rx : Nat, tx : Nat]
Reports ==
  [flow : Flows, time : 1..MaxReports, rx : 0..(Word - 1), tx : 0..(Word - 1), sent : Bytes,
   boot : 0..MaxFaults]
Metrics ==
  [rx : 0..(Word - 1), tx : 0..(Word - 1), drop : 0..(Word - 1), dt : 1..MaxReports,
   from : Reports, to : Reports]

TypeOK ==
  /\ made \in [Flows -> 0..MaxReports]
  /\ total \in [Flows -> Bytes]
  /\ boots \in 0..MaxFaults /\ faults \in 0..MaxFaults
  /\ topic \in [Partitions -> Seq(Reports)]
  /\ position \in [Partitions -> Nat] /\ committed \in [Partitions -> Nat]
  /\ \A p \in Partitions : committed[p] <= position[p] /\ position[p] <= Len(topic[p])
  /\ pc \in {"read", "get", "publish", "set"}
  /\ report \in Reports \cup {NoReport}
  /\ prev \in Reports \cup {NoReport}
  /\ state \in [Flows -> Reports \cup {NoReport}]
  /\ shown \in [Flows -> Metrics \cup {NoMetrics}]

(***************************************************************************)
(* Whatever is lost, doubled, reordered between partitions or fails, every *)
(* rate shown is the true average of the flow between two of its reports,  *)
(* across a wrap of the counters, unless the switch restarted in between.  *)
(***************************************************************************)
RateIsReal ==
  \A f \in Flows : shown[f] # NoMetrics =>
    LET from == shown[f].from
        to   == shown[f].to
    IN  /\ from.flow = f /\ to.flow = f
        /\ shown[f].dt > 0 /\ shown[f].dt = to.time - from.time
        /\ from.boot = to.boot =>
             /\ shown[f].rx = to.sent.rx - from.sent.rx
             /\ shown[f].tx = to.sent.tx - from.sent.tx
             /\ shown[f].drop = shown[f].rx - shown[f].tx

(***************************************************************************)
(* For a flow whose reports keep to one partition, a rate is never         *)
(* replaced by an older one, restarts and duplicates included.             *)
(***************************************************************************)
Ordered(f) == \E p \in Partitions : PartitionsOf[f] = {p}

NeverGoesBack ==
  [][\A f \in Flows :
       Ordered(f) /\ shown[f] # NoMetrics /\ shown'[f] # shown[f]
         => shown'[f].to.time > shown[f].to.time]_vars

(***************************************************************************)
(* Without failures, such a flow ends up with the rate up to its last      *)
(* report.                                                                 *)
(***************************************************************************)
ShowsTheLatest ==
  <>[](\A f \in Flows :
         Ordered(f) /\ faults = 0 /\ made[f] > 1
           => shown[f] # NoMetrics /\ shown[f].to.time = made[f])
=============================================================================
