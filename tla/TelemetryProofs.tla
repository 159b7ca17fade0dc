-------------------------- MODULE TelemetryProofs --------------------------
(***************************************************************************)
(* Proofs about the telemetry processor, for any flows, traffic, word      *)
(* size, partitions and failures.                                          *)
(***************************************************************************)
EXTENDS Telemetry, SequenceTheorems, TLAPS

-----------------------------------------------------------------------------
(***************************************************************************)
(* Arithmetic of words: the difference of two counters, of which only the  *)
(* remainders are known, as long as it is less than a word.                *)
(***************************************************************************)
LEMMA Division ==
  ASSUME NEW n \in Nat
  PROVE  /\ n % Word \in 0..(Word - 1)
         /\ n \div Word \in Nat
         /\ n = Word * (n \div Word) + (n % Word)
  BY NatAssumption

LEMMA FewWords ==
  ASSUME NEW k \in Int, NEW d \in Int, NEW w \in Nat \ {0}, w * k = d, -w < d, d < 2 * w
  PROVE  k = 0 \/ k = 1
<1>1. CASE k <= -1
  <2>1. w * k <= w * (-1)
    BY <1>1
  <2> QED
    BY <2>1
<1>2. CASE k >= 2
  <2>1. w * k >= w * 2
    BY <1>2
  <2> QED
    BY <2>1
<1> QED
  BY <1>1, <1>2

LEMMA DeltaType ==
  ASSUME NEW a \in 0..(Word - 1), NEW b \in 0..(Word - 1)
  PROVE  Delta(b, a) \in 0..(Word - 1)
  BY NatAssumption DEF Delta

LEMMA DeltaRecovers ==
  ASSUME NEW a \in Nat, NEW b \in Nat, a <= b, b - a < Word
  PROVE  Delta(b % Word, a % Word) = b - a
<1> DEFINE ra == a % Word
           rb == b % Word
           qa == a \div Word
           qb == b \div Word
<1>1. /\ ra \in 0..(Word - 1) /\ rb \in 0..(Word - 1) /\ qa \in Nat /\ qb \in Nat
      /\ a = Word * qa + ra /\ b = Word * qb + rb
  BY Division
<1> HIDE DEF ra, rb, qa, qb
<1>2. Word \in Nat \ {0}
  BY NatAssumption
<1>3. Word * (qb - qa) = Word * qb - Word * qa
  BY <1>1, <1>2
<1>4. Word * (qb - qa) = (b - a) + ra - rb
  BY <1>1, <1>2, <1>3
<1>5. qb - qa = 0 \/ qb - qa = 1
  <2> DEFINE d == (b - a) + ra - rb
             k == qb - qa
  <2>1. d \in Int /\ -Word < d /\ d < 2 * Word /\ k \in Int
    BY <1>1, <1>2
  <2>2. Word * k = d
    BY <1>4
  <2> HIDE DEF d, k
  <2>3. k = 0 \/ k = 1
    BY <1>2, <2>1, <2>2, FewWords
  <2> QED
    BY <2>3 DEF k
<1>6. CASE qb - qa = 0
  <2>1. rb = ra + (b - a)
    BY <1>1, <1>2, <1>4, <1>6
  <2> QED
    BY <1>1, <2>1 DEF Delta, ra, rb
<1>7. CASE qb - qa = 1
  <2>1. rb = ra + (b - a) - Word
    BY <1>1, <1>2, <1>4, <1>7
  <2>2. ~(rb >= ra) /\ ((Word - 1) - ra) + rb + 1 = b - a
    BY <1>1, <1>2, <2>1
  <2> QED
    BY <2>2 DEF Delta, ra, rb
<1> QED
  BY <1>5, <1>6, <1>7

-----------------------------------------------------------------------------
(***************************************************************************)
(* The inductive invariant.  Every report that the consumer holds or has   *)
(* stored is still on the topic, so what the reports say of each other is  *)
(* a matter of the topic alone.                                            *)
(***************************************************************************)
OnTopic == {r \in Reports : \E p \in Partitions : \E n \in DOMAIN topic[p] : topic[p][n] = r}

Handling ==
  /\ boots <= faults
  /\ pc # "read" => report \in OnTopic
  /\ pc = "publish" => prev \in OnTopic /\ prev.flow = report.flow /\ report.time > prev.time
  /\ \A f \in Flows : state[f] # NoReport => state[f] \in OnTopic /\ state[f].flow = f

Computed(m) ==
  /\ m.rx = Delta(m.to.rx, m.from.rx) /\ m.tx = Delta(m.to.tx, m.from.tx)
  /\ m.drop = IF m.rx > m.tx THEN m.rx - m.tx ELSE 0
  /\ m.dt = m.to.time - m.from.time

Showing ==
  \A f \in Flows : shown[f] # NoMetrics =>
    /\ shown[f].from \in OnTopic /\ shown[f].to \in OnTopic
    /\ shown[f].from.flow = f /\ shown[f].to.flow = f
    /\ shown[f].dt > 0 /\ Computed(shown[f])

(***************************************************************************)
(* In k intervals less than a word for every MaxReports of them.           *)
(***************************************************************************)
Between(a, b, k) ==
  /\ a.rx <= b.rx /\ a.tx <= b.tx /\ b.tx - a.tx <= b.rx - a.rx
  /\ MaxReports * (b.rx - a.rx) <= k * (Word - 1)

Growth ==
  /\ \A r \in OnTopic :
       /\ r.rx = r.sent.rx % Word /\ r.tx = r.sent.tx % Word
       /\ r.time <= made[r.flow] /\ r.boot <= boots
       /\ r.boot = boots => Between(r.sent, total[r.flow], made[r.flow] - r.time)
  /\ \A q, r \in OnTopic :
       q.flow = r.flow /\ q.boot = r.boot /\ q.time <= r.time
         => Between(q.sent, r.sent, r.time - q.time)

IInv == TypeOK /\ Handling /\ Showing /\ Growth

LEMMA BetweenSelf ==
  ASSUME NEW a \in Bytes
  PROVE  Between(a, a, 0)
  BY NatAssumption DEF Between, Bytes

LEMMA BetweenStep ==
  ASSUME NEW a \in Bytes, NEW b \in Bytes, NEW k \in Nat, NEW t \in Traffic, Between(a, b, k)
  PROVE  Between(a, [rx |-> b.rx + t.rx, tx |-> b.tx + t.tx], k + 1)
<1> DEFINE c == [rx |-> b.rx + t.rx, tx |-> b.tx + t.tx]
           d == b.rx - a.rx
           e == t.rx
<1>1. /\ t.rx \in Nat /\ t.tx \in Nat /\ t.tx <= t.rx /\ MaxReports * e < Word
      /\ a.rx \in Nat /\ a.tx \in Nat /\ b.rx \in Nat /\ b.tx \in Nat
      /\ MaxReports \in Nat /\ Word \in Nat \ {0}
  BY TrafficAssumption, WrapAssumption, NatAssumption DEF Bytes
<1>2. a.rx <= c.rx /\ a.tx <= c.tx /\ c.tx - a.tx <= c.rx - a.rx /\ c.rx - a.rx = d + e
  BY <1>1 DEF Between
<1>3. d \in Int /\ e \in Nat /\ MaxReports * d <= k * (Word - 1)
  BY <1>1 DEF Between
<1> HIDE DEF c, d, e
<1>4. MaxReports * (d + e) <= (k + 1) * (Word - 1)
  <2>1. MaxReports * (d + e) = MaxReports * d + MaxReports * e
    BY <1>1, <1>3
  <2>2. (k + 1) * (Word - 1) = k * (Word - 1) + (Word - 1)
    BY <1>1
  <2> DEFINE x == MaxReports * d
             y == MaxReports * e
             z == k * (Word - 1)
  <2>3. x \in Int /\ y \in Int /\ z \in Int
    BY <1>1, <1>3
  <2>4. x <= z /\ y < Word
    BY <1>1, <1>3
  <2> HIDE DEF x, y, z
  <2>5. x + y <= z + (Word - 1)
    BY <1>1, <2>3, <2>4
  <2> QED
    BY <2>1, <2>2, <2>5 DEF x, y, z
<1> QED
  BY <1>2, <1>4 DEF Between, c

-----------------------------------------------------------------------------
LEMMA IInvInit == Init => IInv
<1> SUFFICES ASSUME Init PROVE IInv
  OBVIOUS
<1>1. \A p \in Partitions : topic[p] = <<>>
  BY DEF Init
<1>2. TypeOK
  <2>1. topic \in [Partitions -> Seq(Reports)]
    BY EmptySeq DEF Init
  <2>2. \A p \in Partitions : Len(topic[p]) = 0
    BY <1>1
  <2>3. total \in [Flows -> Bytes]
    BY TrafficAssumption DEF Init, Bytes
  <2> QED
    BY <2>1, <2>2, <2>3, NatAssumption DEF Init, TypeOK
<1>3. OnTopic = {}
  BY <1>1 DEF OnTopic
<1>4. Handling
  BY DEF Init, Handling
<1>5. Showing
  BY DEF Init, Showing
<1>6. Growth
  BY <1>3 DEF Growth
<1> QED
  BY <1>2, <1>4, <1>5, <1>6 DEF IInv

(***************************************************************************)
(* Steps that leave the topic alone.                                       *)
(***************************************************************************)
LEMMA TopicKept ==
  ASSUME Growth, UNCHANGED switch
  PROVE  Growth' /\ OnTopic' = OnTopic
  BY DEF Growth, OnTopic, switch

FaultsGrow == faults' \in 0..MaxFaults /\ faults <= faults'

LEMMA FaultCounts ==
  ASSUME IInv, Fault \/ UNCHANGED faults
  PROVE  FaultsGrow
  BY NatAssumption DEF Fault, IInv, TypeOK, FaultsGrow

LEMMA FoundStep ==
  ASSUME IInv, NEW found, found = NoReport \/ found = state[report.flow], Found(found), FaultsGrow
  PROVE  IInv'
<1>1. report \in OnTopic /\ report \in Reports /\ report.flow \in Flows
  BY DEF Found, IInv, Handling, OnTopic, Reports
<1>2. found # NoReport => found \in OnTopic /\ found.flow = report.flow
  BY <1>1 DEF IInv, Handling
<1>3. found \in Reports \cup {NoReport}
  BY <1>2 DEF OnTopic
<1>4. UNCHANGED <<switch, reader, report, state, shown>> /\ prev' = found
      /\ pc' = IF HasRate(found) THEN "publish" ELSE "set"
  BY DEF Found
<1>5. TypeOK'
  BY <1>3, <1>4 DEF IInv, TypeOK, switch, reader, FaultsGrow
<1>6. OnTopic' = OnTopic /\ Growth'
  BY <1>4, TopicKept DEF IInv
<1>7. Handling'
  BY <1>1, <1>2, <1>4, <1>6 DEF IInv, Handling, HasRate, switch, TypeOK, FaultsGrow
<1>8. Showing'
  BY <1>4, <1>6 DEF IInv, Showing, Computed
<1> QED
  BY <1>5, <1>6, <1>7, <1>8 DEF IInv

LEMMA PublishStep ==
  ASSUME IInv, PublishMetrics
  PROVE  IInv'
<1>1. /\ report \in OnTopic /\ prev \in OnTopic /\ report \in Reports /\ prev \in Reports
      /\ prev.flow = report.flow /\ report.time > prev.time
  BY DEF PublishMetrics, IInv, Handling, OnTopic
<1> DEFINE m == ComputeMetrics
           f == report.flow
<1>2. f \in Flows
  BY <1>1 DEF Reports
<1>3. m.from = prev /\ m.to = report /\ m.dt > 0 /\ Computed(m)
  BY <1>1 DEF ComputeMetrics, Computed, Reports
<1>4. m \in Metrics
  <2>1. /\ Delta(report.rx, prev.rx) \in 0..(Word - 1)
        /\ Delta(report.tx, prev.tx) \in 0..(Word - 1)
    BY <1>1, DeltaType DEF Reports
  <2>2. report.time - prev.time \in 1..MaxReports
    BY <1>1, NatAssumption DEF Reports
  <2> DEFINE rx == Delta(report.rx, prev.rx)
             tx == Delta(report.tx, prev.tx)
  <2>3. m = [rx |-> rx, tx |-> tx, drop |-> IF rx > tx THEN rx - tx ELSE 0,
             dt |-> report.time - prev.time, from |-> prev, to |-> report]
    BY DEF ComputeMetrics
  <2> HIDE DEF m, rx, tx
  <2>4. rx \in 0..(Word - 1) /\ tx \in 0..(Word - 1)
    BY <2>1 DEF rx, tx
  <2>5. (IF rx > tx THEN rx - tx ELSE 0) \in 0..(Word - 1)
    BY <2>4, NatAssumption
  <2> QED
    BY <1>1, <2>2, <2>3, <2>4, <2>5 DEF Metrics
<1>5. shown' = [shown EXCEPT ![f] = m] /\ UNCHANGED <<switch, reader, report, prev, state, faults>>
      /\ pc' = "set"
  BY DEF PublishMetrics
<1> HIDE DEF m, f
<1>6. TypeOK'
  BY <1>4, <1>5 DEF IInv, TypeOK, switch, reader
<1>7. OnTopic' = OnTopic /\ Growth'
  BY <1>5, TopicKept DEF IInv
<1>8. Handling'
  BY <1>1, <1>5, <1>7 DEF IInv, Handling, switch
<1>9. Showing'
  <2> SUFFICES ASSUME NEW g \in Flows, shown'[g] # NoMetrics
               PROVE  /\ shown'[g].from \in OnTopic /\ shown'[g].to \in OnTopic
                      /\ shown'[g].from.flow = g /\ shown'[g].to.flow = g
                      /\ shown'[g].dt > 0 /\ Computed(shown'[g])
    BY <1>7 DEF Showing, Computed
  <2>1. CASE g = f
    <3>1. shown'[g] = m
      BY <1>2, <1>5, <2>1 DEF IInv, TypeOK
    <3> QED
      BY <1>1, <1>3, <2>1, <3>1 DEF f
  <2>2. CASE g # f
    <3>1. shown'[g] = shown[g]
      BY <1>5, <2>2 DEF IInv, TypeOK
    <3> QED
      BY <3>1 DEF IInv, Showing
  <2> QED
    BY <2>1, <2>2
<1> QED
  BY <1>6, <1>7, <1>8, <1>9 DEF IInv

(***************************************************************************)
(* What is handled is left where it is, or stored.                         *)
(***************************************************************************)
LEMMA QuietStep ==
  ASSUME IInv, UNCHANGED <<switch, shown>>,
         position' \in [Partitions -> Nat], committed' \in [Partitions -> Nat],
         \A p \in Partitions : committed'[p] <= position'[p] /\ position'[p] <= Len(topic[p]),
         FaultsGrow, pc' \in {"read", "set"},
         report' = report \/ report' = NoReport, pc' = "set" => pc # "read" /\ report' = report,
         prev' = prev \/ prev' = NoReport,
         state' = state \/ (pc # "read" /\ state' = [state EXCEPT ![report.flow] = report])
  PROVE  IInv'
<1>1. pc # "read" => report \in OnTopic /\ report \in Reports /\ report.flow \in Flows
  BY DEF IInv, Handling, OnTopic, Reports
<1>2. state' \in [Flows -> Reports \cup {NoReport}]
  BY <1>1 DEF IInv, TypeOK
<1>3. TypeOK'
  <2>1. \A p \in Partitions : committed'[p] <= position'[p] /\ position'[p] <= Len(topic'[p])
    BY DEF switch
  <2> QED
    BY <1>2, <2>1 DEF IInv, TypeOK, switch, FaultsGrow
<1>4. OnTopic' = OnTopic /\ Growth'
  BY TopicKept DEF IInv
<1>5. Handling'
  <2>1. ASSUME NEW f \in Flows, state'[f] # NoReport
        PROVE  state'[f] \in OnTopic /\ state'[f].flow = f
    <3>1. CASE state'[f] = state[f]
      BY <2>1, <3>1 DEF IInv, Handling
    <3>2. CASE state'[f] # state[f]
      <4>1. pc # "read" /\ f = report.flow /\ state'[f] = report
        BY <1>1, <3>2 DEF IInv, TypeOK
      <4> QED
        BY <1>1, <4>1
    <3> QED
      BY <3>1, <3>2
  <2>2. boots' <= faults'
    BY NatAssumption DEF IInv, Handling, TypeOK, switch, FaultsGrow
  <2> QED
    BY <1>1, <1>4, <2>1, <2>2 DEF Handling
<1>6. Showing'
  BY <1>4 DEF IInv, Showing, Computed
<1> QED
  BY <1>3, <1>4, <1>5, <1>6 DEF IInv

LEMMA Offsets ==
  ASSUME IInv
  PROVE  /\ position \in [Partitions -> Nat] /\ committed \in [Partitions -> Nat]
         /\ \A p \in Partitions :
              /\ committed[p] <= position[p] /\ position[p] <= Len(topic[p])
              /\ Len(topic[p]) \in Nat /\ DOMAIN topic[p] = 1..Len(topic[p])
<1>1. \A p \in Partitions : topic[p] \in Seq(Reports)
  BY DEF IInv, TypeOK
<1> QED
  BY <1>1, LenProperties DEF IInv, TypeOK

LEMMA ConsumerStep ==
  ASSUME IInv, Consumer \/ \E p \in Partitions : CommitFails(p)
  PROVE  IInv'
<1>1. ASSUME NEW p \in Partitions, Read(p) PROVE IInv'
  <2>1. /\ pc = "read" /\ position[p] < Len(topic[p])
        /\ position' = [position EXCEPT ![p] = @ + 1]
        /\ committed' = [committed EXCEPT ![p] = position'[p]]
        /\ report' = topic[p][position'[p]] /\ pc' = "get"
        /\ UNCHANGED <<switch, prev, state, shown, faults>>
    BY <1>1 DEF Read
  <2>2. position'[p] \in DOMAIN topic[p]
    BY <2>1, Offsets
  <2>3. report' \in Reports
    BY <2>1, <2>2, ElementOfSeq, Offsets DEF IInv, TypeOK
  <2>4. report' \in OnTopic
    BY <2>1, <2>2, <2>3 DEF OnTopic
  <2>5. OnTopic' = OnTopic /\ Growth'
    BY <2>1, TopicKept DEF IInv
  <2>6. /\ position' \in [Partitions -> Nat] /\ committed' \in [Partitions -> Nat]
        /\ \A q \in Partitions : committed'[q] <= position'[q] /\ position'[q] <= Len(topic'[q])
    BY <2>1, Offsets DEF switch
  <2>7. TypeOK'
    BY <2>1, <2>3, <2>6 DEF IInv, TypeOK, switch
  <2>8. Handling'
    BY <2>1, <2>4, <2>5 DEF IInv, Handling, switch
  <2>9. Showing'
    BY <2>1, <2>5 DEF IInv, Showing, Computed
  <2> QED
    BY <2>5, <2>7, <2>8, <2>9 DEF IInv
<1>2. ASSUME NEW p \in Partitions, CommitFails(p) PROVE IInv'
  <2>1. /\ Fault
        /\ pc = "read" /\ position[p] < Len(topic[p])
        /\ position' = [position EXCEPT ![p] = @ + 1]
        /\ committed' \in {committed, [committed EXCEPT ![p] = position'[p]]}
        /\ UNCHANGED <<switch, pc, report, prev, state, shown>>
    BY <1>2 DEF CommitFails
  <2>2. /\ position' \in [Partitions -> Nat] /\ committed' \in [Partitions -> Nat]
        /\ \A q \in Partitions : committed'[q] <= position'[q] /\ position'[q] <= Len(topic[q])
    BY <2>1, Offsets
  <2>3. FaultsGrow
    BY <2>1, FaultCounts
  <2> QED
    BY <2>1, <2>2, <2>3, QuietStep
<1>3. CASE GetState
  BY <1>3, FoundStep, FaultCounts DEF GetState
<1>4. CASE SetState
  BY <1>4, QuietStep, Offsets, FaultCounts DEF SetState, Handled, reader
<1> QED
  BY <1>1, <1>2, <1>3, <1>4, PublishStep DEF Consumer

LEMMA FailureStep ==
  ASSUME IInv, GetStateFails \/ PublishFails \/ SetStateFails \/ Restart
  PROVE  IInv'
<1>1. FaultsGrow
  BY FaultCounts DEF GetStateFails, PublishFails, SetStateFails, Restart
<1>2. CASE GetStateFails
  BY <1>1, <1>2, FoundStep DEF GetStateFails
<1>3. CASE PublishFails
  BY <1>1, <1>3, QuietStep, Offsets DEF PublishFails, reader
<1>4. CASE SetStateFails
  BY <1>1, <1>4, QuietStep, Offsets DEF SetStateFails, Handled, reader
<1>5. CASE Restart
  <2>1. \A p \in Partitions : committed[p] <= Len(topic[p])
    BY Offsets
  <2> QED
    BY <1>1, <1>5, <2>1, QuietStep, Offsets DEF Restart, Handled
<1> QED
  BY <1>2, <1>3, <1>4, <1>5

LEMMA RestartStep ==
  ASSUME IInv, SwitchRestarts
  PROVE  IInv'
<1>1. /\ boots' = boots + 1 /\ total' = [f \in Flows |-> [rx |-> 0, tx |-> 0]]
      /\ UNCHANGED <<made, topic, reader, pc, report, prev, state, shown>>
      /\ faults < MaxFaults /\ faults' = faults + 1
  BY DEF SwitchRestarts, Fault
<1>2. /\ boots \in 0..MaxFaults /\ faults \in 0..MaxFaults /\ MaxFaults \in Nat /\ boots <= faults
  BY NatAssumption DEF IInv, TypeOK, Handling
<1>3. boots' \in 0..MaxFaults /\ faults' \in 0..MaxFaults /\ boots' <= faults'
  BY <1>1, <1>2
<1>4. total' \in [Flows -> Bytes]
  BY <1>1 DEF Bytes
<1>5. TypeOK'
  BY <1>1, <1>3, <1>4 DEF IInv, TypeOK, reader
<1>6. OnTopic' = OnTopic
  BY <1>1 DEF OnTopic
<1>7. Handling' /\ Showing'
  BY <1>1, <1>3, <1>6 DEF IInv, Handling, Showing, Computed
<1>8. Growth'
  <2>1. ASSUME NEW r \in OnTopic PROVE r.boot <= boots' /\ r.boot # boots'
    <3>1. r.boot \in 0..MaxFaults /\ r.boot <= boots
      BY DEF OnTopic, Reports, IInv, Growth
    <3> QED
      BY <1>1, <1>2, <3>1
  <2> QED
    BY <1>1, <1>6, <2>1 DEF IInv, Growth
<1> QED
  BY <1>5, <1>7, <1>8 DEF IInv

(***************************************************************************)
(* A report is written once or twice, at the end of a partition.           *)
(***************************************************************************)
NewSum(f, t) == [rx |-> total[f].rx + t.rx, tx |-> total[f].tx + t.tx]
NewReport(f, t) ==
  [flow |-> f, time |-> made[f] + 1, rx |-> NewSum(f, t).rx % Word, tx |-> NewSum(f, t).tx % Word,
   sent |-> NewSum(f, t), boot |-> boots]

LEMMA NewTypes ==
  ASSUME IInv, NEW f \in Flows, NEW t \in Traffic, made[f] < MaxReports
  PROVE  /\ made[f] \in Nat /\ made[f] + 1 \in 1..MaxReports /\ total[f] \in Bytes
         /\ NewSum(f, t) \in Bytes /\ NewReport(f, t) \in Reports
<1>1. /\ made[f] \in Nat /\ total[f] \in Bytes /\ boots \in 0..MaxFaults /\ MaxReports \in Nat
  BY NatAssumption DEF IInv, TypeOK
<1>2. NewSum(f, t) \in Bytes /\ NewSum(f, t).rx \in Nat /\ NewSum(f, t).tx \in Nat
  BY <1>1, TrafficAssumption DEF Bytes, NewSum
<1>3. NewSum(f, t).rx % Word \in 0..(Word - 1) /\ NewSum(f, t).tx % Word \in 0..(Word - 1)
  BY <1>2, Division
<1>4. made[f] + 1 \in 1..MaxReports
  BY <1>1
<1> QED
  BY <1>1, <1>2, <1>3, <1>4 DEF Reports, NewReport

LEMMA EmitTopic ==
  ASSUME IInv, NEW f \in Flows, NEW t \in Traffic, NEW copies \in 1..2, Emit(f, t, copies)
  PROVE  /\ topic' \in [Partitions -> Seq(Reports)]
         /\ \A q \in Partitions :
              /\ Len(topic'[q]) \in Nat /\ Len(topic[q]) <= Len(topic'[q])
              /\ \A n \in DOMAIN topic[q] : n \in DOMAIN topic'[q] /\ topic'[q][n] = topic[q][n]
              /\ \A n \in DOMAIN topic'[q] \ DOMAIN topic[q] :
                   q \in PartitionsOf[f] /\ n > Len(topic[q]) /\ topic'[q][n] = NewReport(f, t)
<1> DEFINE new == NewReport(f, t)
           batch == [n \in 1..copies |-> new]
<1>1. new \in Reports
  BY NewTypes DEF Emit
<1>2. PICK p \in PartitionsOf[f] : topic' = [topic EXCEPT ![p] = @ \o batch]
  <2>1. made'[f] = made[f] + 1 /\ total'[f] = NewSum(f, t)
    BY DEF Emit, IInv, TypeOK, NewSum
  <2> QED
    BY <2>1 DEF Emit, NewReport
<1> HIDE DEF new
<1>3. p \in Partitions
  BY PartitionAssumption
<1>4. batch \in Seq(Reports) /\ Len(batch) = copies /\ \A n \in 1..copies : batch[n] = new
  BY <1>1
<1> HIDE DEF batch
<1>5. /\ topic'[p] \in Seq(Reports) /\ Len(topic'[p]) = Len(topic[p]) + copies
      /\ \A n \in 1..(Len(topic[p]) + copies) :
           topic'[p][n] = IF n <= Len(topic[p]) THEN topic[p][n] ELSE batch[n - Len(topic[p])]
      /\ \A q \in Partitions \ {p} : topic'[q] = topic[q]
  <2>1. topic[p] \in Seq(Reports) /\ topic'[p] = topic[p] \o batch
        /\ \A q \in Partitions \ {p} : topic'[q] = topic[q]
    BY <1>2, <1>3 DEF IInv, TypeOK
  <2> QED
    BY <1>4, <2>1, ConcatProperties
<1>6. topic' \in [Partitions -> Seq(Reports)]
  BY <1>2, <1>3, <1>5 DEF IInv, TypeOK
<1>7. \A q \in Partitions : /\ Len(topic'[q]) \in Nat /\ DOMAIN topic'[q] = 1..Len(topic'[q])
                            /\ Len(topic[q]) \in Nat /\ DOMAIN topic[q] = 1..Len(topic[q])
  BY <1>6, Offsets, LenProperties
<1> SUFFICES ASSUME NEW q \in Partitions
             PROVE  /\ Len(topic[q]) <= Len(topic'[q])
                    /\ \A n \in DOMAIN topic[q] :
                         n \in DOMAIN topic'[q] /\ topic'[q][n] = topic[q][n]
                    /\ \A n \in DOMAIN topic'[q] \ DOMAIN topic[q] :
                         q \in PartitionsOf[f] /\ n > Len(topic[q]) /\ topic'[q][n] = new
  BY <1>6, <1>7 DEF new
<1>8. CASE q # p
  BY <1>5, <1>7, <1>8
<1>9. CASE q = p
  <2>1. ASSUME NEW n \in DOMAIN topic[p] PROVE n \in DOMAIN topic'[p] /\ topic'[p][n] = topic[p][n]
    BY <1>5, <1>7
  <2>2. ASSUME NEW n \in DOMAIN topic'[p] \ DOMAIN topic[p]
        PROVE  n > Len(topic[p]) /\ topic'[p][n] = new
    <3> DEFINE len == Len(topic[p])
               m == n - len
    <3>1. len \in Nat /\ copies \in Nat /\ n \in 1..(len + copies) /\ n \notin 1..len
      BY <1>3, <1>5, <1>7
    <3> HIDE DEF len
    <3>2. m \in 1..copies /\ n \in 1..(len + copies) /\ n > len
      BY <3>1
    <3>3. topic'[p][n] = batch[m]
      <4>1. n \in 1..(Len(topic[p]) + copies) /\ ~(n <= Len(topic[p]))
        BY <3>1, <3>2 DEF len
      <4>2. topic'[p][n] = batch[n - Len(topic[p])]
        BY <1>5, <4>1
      <4> QED
        BY <4>2 DEF len
    <3> HIDE DEF m
    <3> QED
      BY <1>4, <3>2, <3>3 DEF len
  <2>3. Len(topic[p]) <= Len(topic'[p])
    BY <1>5, <1>7
  <2> QED
    BY <1>9, <2>1, <2>2, <2>3
<1> QED
  BY <1>8, <1>9

LEMMA EmitStep ==
  ASSUME IInv, NEW f \in Flows, NEW t \in Traffic, NEW copies \in 1..2, Emit(f, t, copies),
         FaultsGrow
  PROVE  IInv'
<1> DEFINE k == made[f] + 1
           sum == NewSum(f, t)
           new == NewReport(f, t)
<1>1. made[f] < MaxReports /\ made' = [made EXCEPT ![f] = k] /\ total' = [total EXCEPT ![f] = sum]
      /\ UNCHANGED <<boots, reader, pc, report, prev, state, shown>>
  BY DEF Emit, NewSum
<1>2. /\ made[f] \in Nat /\ k \in 1..MaxReports /\ total[f] \in Bytes /\ boots \in 0..MaxFaults
      /\ k = made[f] + 1 /\ sum \in Bytes /\ new \in Reports /\ MaxReports \in Nat
  BY <1>1, NewTypes, NatAssumption DEF IInv, TypeOK
<1>3. made'[f] = k /\ total'[f] = sum
  BY <1>1 DEF IInv, TypeOK
<1>4. /\ new.flow = f /\ new.time = k /\ new.boot = boots /\ new.sent = sum
      /\ new.rx = sum.rx % Word /\ new.tx = sum.tx % Word
  BY DEF NewReport
<1>5. ASSUME NEW a \in Bytes, NEW m \in Nat, Between(a, total[f], m)
       PROVE  Between(a, sum, m + 1)
  BY <1>2, <1>5, BetweenStep DEF NewSum
<1> HIDE DEF sum, k, new
<1>6. topic' \in [Partitions -> Seq(Reports)]
  BY EmitTopic
<1>7. \A q \in Partitions : Len(topic[q]) <= Len(topic'[q])
  BY EmitTopic
<1>8. OnTopic \subseteq OnTopic'
  <2> SUFFICES ASSUME NEW r \in Reports, NEW q \in Partitions, NEW n \in DOMAIN topic[q],
                      topic[q][n] = r
               PROVE  n \in DOMAIN topic'[q] /\ topic'[q][n] = r
    BY DEF OnTopic
  <2> QED
    BY EmitTopic
<1>9. OnTopic' \subseteq OnTopic \cup {new}
  <2> SUFFICES ASSUME NEW r \in Reports, NEW q \in Partitions, NEW n \in DOMAIN topic'[q],
                      topic'[q][n] = r, r # new
               PROVE  n \in DOMAIN topic[q] /\ topic[q][n] = r
    BY DEF OnTopic
  <2> QED
    BY EmitTopic DEF new
<1>10. TypeOK'
  <2>1. made' \in [Flows -> 0..MaxReports]
    BY <1>1, <1>2 DEF IInv, TypeOK
  <2>2. total' \in [Flows -> Bytes]
    BY <1>1, <1>2 DEF IInv, TypeOK
  <2>3. \A q \in Partitions : committed[q] <= position[q] /\ position[q] <= Len(topic'[q])
    <3> SUFFICES ASSUME NEW q \in Partitions
                 PROVE  committed[q] <= position[q] /\ position[q] <= Len(topic'[q])
      OBVIOUS
    <3>1. Len(topic'[q]) \in Nat
      BY <1>6, LenProperties
    <3> QED
      BY <1>7, <3>1, Offsets
  <2> QED
    BY <1>1, <1>6, <2>1, <2>2, <2>3 DEF IInv, TypeOK, reader, FaultsGrow
<1>11. Handling'
  <2>1. boots' <= faults'
    BY <1>1, NatAssumption DEF IInv, Handling, TypeOK, FaultsGrow
  <2> QED
    BY <1>1, <1>8, <2>1 DEF IInv, Handling
<1>12. Showing'
  BY <1>1, <1>8 DEF IInv, Showing, Computed
<1>13. ASSUME NEW r \in OnTopic, r.flow = f
       PROVE  /\ r.time <= made[f] /\ r.time \in Nat /\ r.sent \in Bytes /\ made[f] - r.time \in Nat
              /\ r.boot = boots => Between(r.sent, sum, k - r.time)
  <2>1. r.time <= made[f] /\ r.time \in Nat /\ r.sent \in Bytes /\ made[f] - r.time \in Nat
    BY <1>2, <1>13 DEF OnTopic, Reports, IInv, Growth
  <2>2. ASSUME r.boot = boots PROVE Between(r.sent, sum, k - r.time)
    <3>1. Between(r.sent, total[f], made[f] - r.time)
      BY <1>13, <2>2 DEF IInv, Growth
    <3>2. Between(r.sent, sum, (made[f] - r.time) + 1)
      BY <1>5, <2>1, <3>1
    <3>3. (made[f] - r.time) + 1 = k - r.time
      BY <1>2, <2>1
    <3> QED
      BY <3>2, <3>3
  <2> QED
    BY <2>1, <2>2
<1>14. Between(sum, sum, 0)
  BY <1>2, BetweenSelf
<1>15. Growth'
  <2>1. ASSUME NEW r \in OnTopic'
        PROVE  /\ r.rx = r.sent.rx % Word /\ r.tx = r.sent.tx % Word
               /\ r.time <= made'[r.flow] /\ r.boot <= boots'
               /\ r.boot = boots' => Between(r.sent, total'[r.flow], made'[r.flow] - r.time)
    <3>1. CASE r = new
      <4>1. k - k = 0 /\ k <= k /\ boots <= boots
        BY <1>2
      <4> QED
        BY <1>1, <1>3, <1>4, <1>14, <3>1, <4>1
    <3>2. CASE r # new
      <4>1. r \in OnTopic /\ r.flow \in Flows
        BY <1>9, <3>2 DEF OnTopic, Reports
      <4>2. r.rx = r.sent.rx % Word /\ r.tx = r.sent.tx % Word /\ r.boot <= boots'
        BY <1>1, <4>1 DEF IInv, Growth
      <4>3. CASE r.flow = f
        <5>1. r.time <= k
          BY <1>2, <1>13, <4>1, <4>3
        <5> QED
          BY <1>1, <1>3, <1>13, <4>1, <4>2, <4>3, <5>1
      <4>4. CASE r.flow # f
        <5>1. made'[r.flow] = made[r.flow] /\ total'[r.flow] = total[r.flow]
          BY <1>1, <4>1, <4>4 DEF IInv, TypeOK
        <5> QED
          BY <1>1, <4>1, <4>2, <5>1 DEF IInv, Growth
      <4> QED
        BY <4>3, <4>4
    <3> QED
      BY <3>1, <3>2
  <2>2. ASSUME NEW q \in OnTopic', NEW r \in OnTopic',
               q.flow = r.flow, q.boot = r.boot, q.time <= r.time
        PROVE  Between(q.sent, r.sent, r.time - q.time)
    <3>1. CASE q # new /\ r # new
      BY <1>9, <2>2, <3>1 DEF IInv, Growth
    <3>2. CASE q # new /\ r = new
      <4>1. q \in OnTopic /\ q.flow = f /\ q.boot = boots
        BY <1>4, <1>9, <2>2, <3>2
      <4> QED
        BY <1>4, <1>13, <3>2, <4>1
    <3>3. CASE q = new /\ r # new
      <4>1. r \in OnTopic /\ r.flow = f /\ k <= r.time
        BY <1>4, <1>9, <2>2, <3>3
      <4>2. FALSE
        BY <1>2, <1>13, <4>1
      <4> QED
        BY <4>2
    <3>4. CASE q = new /\ r = new
      <4>1. k - k = 0
        BY <1>2
      <4> QED
        BY <1>4, <1>14, <3>4, <4>1
    <3> QED
      BY <3>1, <3>2, <3>3, <3>4
  <2> QED
    BY <2>1, <2>2 DEF Growth
<1> QED
  BY <1>10, <1>11, <1>12, <1>15 DEF IInv

-----------------------------------------------------------------------------
LEMMA IInvStep == IInv /\ [Next]_vars => IInv'
<1> SUFFICES ASSUME IInv, [Next]_vars PROVE IInv'
  OBVIOUS
<1>1. CASE Switch
  <2>1. PICK f \in Flows, t \in Traffic : Report(f, t) \/ ReportTwice(f, t)
    BY <1>1 DEF Switch
  <2>2. CASE Report(f, t)
    BY <2>2, EmitStep, FaultCounts DEF Report
  <2>3. CASE ReportTwice(f, t)
    BY <2>3, EmitStep, FaultCounts DEF ReportTwice
  <2> QED
    BY <2>1, <2>2, <2>3
<1>2. CASE Consumer \/ Failure
  BY <1>2, ConsumerStep, FailureStep, RestartStep DEF Failure
<1>3. CASE UNCHANGED vars
  <2>1. position \in [Partitions -> Nat] /\ committed \in [Partitions -> Nat]
    BY Offsets
  <2>2. TypeOK'
    BY <1>3 DEF vars, switch, reader, IInv, TypeOK
  <2> QED
    BY <1>3, <2>2, TopicKept DEF vars, reader, switch, IInv, Handling, Showing, Computed
<1> QED
  BY <1>1, <1>2, <1>3 DEF Next

(***************************************************************************)
(* A rate computed from two reports of one boot is the true one: less than *)
(* a word was counted between them.                                        *)
(***************************************************************************)
LEMMA LessThanAWord ==
  ASSUME NEW q \in Reports, NEW r \in Reports, q.time < r.time,
         Between(q.sent, r.sent, r.time - q.time)
  PROVE  /\ r.sent.rx - q.sent.rx < Word
         /\ r.sent.tx - q.sent.tx < Word
<1> DEFINE d == r.sent.rx - q.sent.rx
           k == r.time - q.time
<1>1. /\ d \in Nat /\ k \in Nat /\ k <= MaxReports /\ MaxReports \in Nat \ {0}
      /\ Word \in Nat \ {0}
      /\ MaxReports * d <= k * (Word - 1) /\ r.sent.tx - q.sent.tx <= d /\ r.sent.tx - q.sent.tx \in Nat
  BY NatAssumption DEF Between, Reports, Bytes
<1> HIDE DEF d, k
<1>2. d < Word
  <2> SUFFICES ASSUME d >= Word PROVE FALSE
    BY <1>1
  <2>1. MaxReports * d >= MaxReports * Word
    BY <1>1
  <2>2. k * (Word - 1) <= MaxReports * (Word - 1)
    BY <1>1
  <2>3. MaxReports * (Word - 1) < MaxReports * Word
    BY <1>1
  <2> QED
    BY <1>1, <2>1, <2>2, <2>3
<1> QED
  BY <1>1, <1>2 DEF d

LEMMA ShownIsReal == IInv => RateIsReal
<1> SUFFICES ASSUME IInv, NEW f \in Flows, shown[f] # NoMetrics
             PROVE  LET from == shown[f].from
                        to   == shown[f].to
                    IN  /\ from.flow = f /\ to.flow = f
                        /\ shown[f].dt > 0 /\ shown[f].dt = to.time - from.time
                        /\ from.boot = to.boot =>
                             /\ shown[f].rx = to.sent.rx - from.sent.rx
                             /\ shown[f].tx = to.sent.tx - from.sent.tx
                             /\ shown[f].drop = shown[f].rx - shown[f].tx
  BY DEF RateIsReal
<1> DEFINE m == shown[f]
           q == shown[f].from
           r == shown[f].to
<1>1. /\ q \in OnTopic /\ r \in OnTopic /\ q \in Reports /\ r \in Reports
      /\ q.flow = f /\ r.flow = f /\ m.dt > 0 /\ Computed(m) /\ m.from = q /\ m.to = r
  BY DEF IInv, Showing, OnTopic
<1>2. m.dt = r.time - q.time /\ q.time < r.time
  <2>1. m.dt = r.time - q.time
    BY <1>1 DEF Computed
  <2> QED
    BY <1>1, <2>1 DEF Reports
<1>3. ASSUME q.boot = r.boot
      PROVE  m.rx = r.sent.rx - q.sent.rx /\ m.tx = r.sent.tx - q.sent.tx /\ m.drop = m.rx - m.tx
  <2> HIDE DEF m, q, r
  <2>1. Between(q.sent, r.sent, r.time - q.time)
    BY <1>1, <1>2, <1>3 DEF IInv, Growth, Reports
  <2>2. /\ q.rx = q.sent.rx % Word /\ q.tx = q.sent.tx % Word
        /\ r.rx = r.sent.rx % Word /\ r.tx = r.sent.tx % Word
    BY <1>1 DEF IInv, Growth
  <2>3. /\ q.sent.rx \in Nat /\ q.sent.tx \in Nat /\ r.sent.rx \in Nat /\ r.sent.tx \in Nat
        /\ q.sent.rx <= r.sent.rx /\ q.sent.tx <= r.sent.tx
        /\ r.sent.tx - q.sent.tx <= r.sent.rx - q.sent.rx
    BY <1>1, <2>1 DEF Reports, Bytes, Between
  <2>4. r.sent.rx - q.sent.rx < Word /\ r.sent.tx - q.sent.tx < Word
    BY <1>1, <1>2, <2>1, LessThanAWord
  <2>5. /\ m.rx = Delta(r.rx, q.rx) /\ m.tx = Delta(r.tx, q.tx)
        /\ m.drop = IF m.rx > m.tx THEN m.rx - m.tx ELSE 0
    BY <1>1 DEF Computed
  <2>6. m.rx = r.sent.rx - q.sent.rx /\ m.tx = r.sent.tx - q.sent.tx
    BY <2>2, <2>3, <2>4, <2>5, DeltaRecovers
  <2> QED
    BY <2>3, <2>5, <2>6
<1> QED
  BY <1>1, <1>2, <1>3

-----------------------------------------------------------------------------
(***************************************************************************)
(* Type correctness.                                                       *)
(***************************************************************************)
THEOREM TypeCorrect == Spec => []TypeOK
<1>1. IInv => TypeOK
  BY DEF IInv
<1> QED
  BY <1>1, IInvInit, IInvStep, PTL DEF Spec

(***************************************************************************)
(* Every rate shown is the true average between two reports of the flow,   *)
(* whatever was lost, doubled or reordered between them, and across a wrap *)
(* of the counters.                                                        *)
(***************************************************************************)
THEOREM RateIsRealHolds == Spec => []RateIsReal
  BY ShownIsReal, IInvInit, IInvStep, PTL DEF Spec

-----------------------------------------------------------------------------
(***************************************************************************)
(* The order of rates.  Within a partition times only grow, and what is    *)
(* handled has been committed: so whatever is read later is no older than  *)
(* what is shown, for a flow that keeps to one partition.  A copy of the   *)
(* report shown finds either the report itself as the last one, and is     *)
(* passed over, or the one before, and gives the same rate again.          *)
(***************************************************************************)
Sorted ==
  /\ \A p \in Partitions : \A n \in DOMAIN topic[p] :
       /\ p \in PartitionsOf[topic[p][n].flow]
       /\ \A m \in DOMAIN topic[p] :
            topic[p][m].flow = topic[p][n].flow /\ m <= n => topic[p][m].time <= topic[p][n].time
  /\ \A q, r \in OnTopic : q.flow = r.flow /\ q.time = r.time => q = r

Held ==
  /\ pc # "read" =>
       \E p \in Partitions : committed[p] \in DOMAIN topic[p] /\ topic[p][committed[p]] = report
  /\ pc = "publish" => prev = state[report.flow]

(***************************************************************************)
(* No report of flow f at or after place n of partition p is older than t. *)
(***************************************************************************)
NotBefore(f, p, n, t) ==
  \A m \in DOMAIN topic[p] : m >= n /\ topic[p][m].flow = f => topic[p][m].time >= t

Onward ==
  \A f \in Flows : Ordered(f) /\ shown[f] # NoMetrics =>
    /\ \A p \in PartitionsOf[f] : NotBefore(f, p, committed[p] + 1, shown[f].to.time)
    /\ pc # "read" /\ report.flow = f => report.time >= shown[f].to.time
    /\ state[f] # NoReport => state[f].time >= shown[f].to.time \/ state[f] = shown[f].from

OInv == IInv /\ Sorted /\ Held /\ Onward

LEMMA OnePartition ==
  ASSUME NEW f \in Flows, Ordered(f), NEW p \in PartitionsOf[f], NEW q \in PartitionsOf[f]
  PROVE  p = q
  BY DEF Ordered

LEMMA OInvInit == Init => OInv
<1> SUFFICES ASSUME Init PROVE OInv
  OBVIOUS
<1>1. IInv
  BY IInvInit
<1>2. \A p \in Partitions : topic[p] = <<>> /\ DOMAIN topic[p] = {}
  BY DEF Init
<1>3. OnTopic = {}
  BY <1>2 DEF OnTopic
<1>4. Sorted
  BY <1>2, <1>3 DEF Sorted
<1>5. Held /\ Onward
  BY DEF Init, Held, Onward
<1> QED
  BY <1>1, <1>4, <1>5 DEF OInv

(***************************************************************************)
(* The topic grows at the end, by reports of a later time.                 *)
(***************************************************************************)
LEMMA EmitSorted ==
  ASSUME OInv, NEW f \in Flows, NEW t \in Traffic, NEW copies \in 1..2, Emit(f, t, copies)
  PROVE  Sorted'
<1> DEFINE new == NewReport(f, t)
<1>1. /\ \A q \in Partitions : \A n \in DOMAIN topic[q] : topic'[q][n] = topic[q][n]
      /\ \A q \in Partitions : \A n \in DOMAIN topic'[q] \ DOMAIN topic[q] :
           q \in PartitionsOf[f] /\ n > Len(topic[q]) /\ topic'[q][n] = new
  BY EmitTopic DEF OInv
<1>2. new.flow = f /\ new.time = made[f] + 1 /\ made[f] \in Nat
  BY NewTypes DEF NewReport, Emit, OInv
<1> HIDE DEF new
<1>3. \A r \in OnTopic : r.time <= made[r.flow] /\ r.time \in Nat
  BY DEF OInv, IInv, Growth, OnTopic, Reports
<1>4. \A q \in Partitions : \A n \in DOMAIN topic[q] : topic[q][n] \in OnTopic
  BY ElementOfSeq, Offsets DEF OInv, IInv, TypeOK, OnTopic
<1>5. \A q \in Partitions : \A n \in DOMAIN topic[q] : n \in Nat /\ n <= Len(topic[q]) /\ Len(topic[q]) \in Nat
  BY Offsets DEF OInv
<1>6. \A q \in Partitions : \A n \in DOMAIN topic'[q] : n \in Nat
  BY EmitTopic, LenProperties DEF OInv
<1>7. ASSUME NEW p \in Partitions, NEW n \in DOMAIN topic'[p]
      PROVE  /\ p \in PartitionsOf[topic'[p][n].flow]
             /\ \A m \in DOMAIN topic'[p] :
                  topic'[p][m].flow = topic'[p][n].flow /\ m <= n
                    => topic'[p][m].time <= topic'[p][n].time
  <2>1. p \in PartitionsOf[topic'[p][n].flow]
    BY <1>1, <1>2, <1>7 DEF OInv, Sorted
  <2>2. ASSUME NEW m \in DOMAIN topic'[p], topic'[p][m].flow = topic'[p][n].flow, m <= n
        PROVE  topic'[p][m].time <= topic'[p][n].time
    <3>1. CASE m \in DOMAIN topic[p] /\ n \in DOMAIN topic[p]
      BY <1>1, <2>2, <3>1 DEF OInv, Sorted
    <3>2. CASE m \in DOMAIN topic[p] /\ n \notin DOMAIN topic[p]
      <4>1. topic'[p][n] = new /\ topic'[p][m] = topic[p][m]
        BY <1>1, <3>2
      <4>2. topic[p][m] \in OnTopic /\ topic[p][m].flow = f
        BY <1>2, <1>4, <2>2, <3>2, <4>1
      <4>3. topic[p][m].time <= made[f] /\ topic[p][m].time \in Nat
        BY <1>3, <4>2
      <4> QED
        BY <1>2, <4>1, <4>3
    <3>3. CASE m \notin DOMAIN topic[p] /\ n \in DOMAIN topic[p]
      BY <1>1, <1>5, <1>6, <2>2, <3>3
    <3>4. CASE m \notin DOMAIN topic[p] /\ n \notin DOMAIN topic[p]
      BY <1>1, <1>2, <3>4
    <3> QED
      BY <3>1, <3>2, <3>3, <3>4
  <2> QED
    BY <2>1, <2>2
<1>8. ASSUME NEW q \in OnTopic', NEW r \in OnTopic', q.flow = r.flow, q.time = r.time
      PROVE  q = r
  <2>1. OnTopic' \subseteq OnTopic \cup {new}
    <3> SUFFICES ASSUME NEW a \in Reports, NEW p \in Partitions, NEW n \in DOMAIN topic'[p],
                        topic'[p][n] = a, a # new
                 PROVE  n \in DOMAIN topic[p] /\ topic[p][n] = a
      BY DEF OnTopic
    <3> QED
      BY <1>1
  <2>2. ASSUME NEW a \in OnTopic, a.flow = f PROVE a.time # new.time
    BY <1>2, <1>3, <2>2
  <2> QED
    BY <1>2, <1>8, <2>1, <2>2 DEF OInv, Sorted
<1> QED
  BY <1>7, <1>8 DEF Sorted

LEMMA EmitOnward ==
  ASSUME OInv, NEW f \in Flows, NEW t \in Traffic, NEW copies \in 1..2, Emit(f, t, copies)
  PROVE  Held' /\ Onward'
<1> DEFINE new == NewReport(f, t)
<1>1. UNCHANGED <<committed, pc, report, prev, state, shown>>
  BY DEF Emit, reader
<1>2. /\ \A q \in Partitions : \A n \in DOMAIN topic[q] :
           n \in DOMAIN topic'[q] /\ topic'[q][n] = topic[q][n]
      /\ \A q \in Partitions : \A n \in DOMAIN topic'[q] \ DOMAIN topic[q] : topic'[q][n] = new
  BY EmitTopic DEF OInv
<1>3. Held'
  BY <1>1, <1>2 DEF OInv, Held
<1>4. new.flow = f /\ new.time = made[f] + 1 /\ made[f] \in Nat
  BY NewTypes DEF NewReport, Emit, OInv
<1> HIDE DEF new
<1>5. ASSUME NEW g \in Flows, Ordered(g), shown[g] # NoMetrics, NEW p \in PartitionsOf[g],
             NEW m \in DOMAIN topic'[p], m >= committed[p] + 1, topic'[p][m].flow = g
      PROVE  topic'[p][m].time >= shown[g].to.time
  <2>1. p \in Partitions
    BY PartitionAssumption
  <2>2. CASE m \in DOMAIN topic[p]
    BY <1>2, <1>5, <2>1, <2>2 DEF OInv, Onward, NotBefore
  <2>3. CASE m \notin DOMAIN topic[p]
    <3>1. topic'[p][m] = new /\ g = f
      BY <1>2, <1>4, <1>5, <2>1, <2>3
    <3>2. shown[g].to \in OnTopic /\ shown[g].to.flow = g
      BY <1>5 DEF OInv, IInv, Showing
    <3>3. shown[g].to.time <= made[g] /\ shown[g].to.time \in Nat
      BY <3>2 DEF OInv, IInv, Growth, OnTopic, Reports
    <3> QED
      BY <1>4, <3>1, <3>3
  <2> QED
    BY <2>2, <2>3
<1>6. \A g \in Flows : Ordered(g) /\ shown[g] # NoMetrics =>
        \A p \in PartitionsOf[g] : NotBefore(g, p, committed[p] + 1, shown[g].to.time)'
  BY <1>1, <1>5 DEF NotBefore
<1>7. Onward'
  BY <1>1, <1>6 DEF OInv, Onward, NotBefore
<1> QED
  BY <1>3, <1>7

(***************************************************************************)
(* Steps of the consumer that show nothing new.                            *)
(***************************************************************************)
LEMMA SortedKept ==
  ASSUME Sorted, UNCHANGED topic
  PROVE  Sorted'
  BY DEF Sorted, OnTopic

LEMMA OnwardKept ==
  ASSUME OInv, UNCHANGED <<topic, shown>>,
         committed' \in [Partitions -> Nat], \A p \in Partitions : committed[p] <= committed'[p],
         \A f \in Flows : Ordered(f) /\ shown[f] # NoMetrics =>
           /\ pc' # "read" /\ report'.flow = f => report'.time >= shown[f].to.time
           /\ state'[f] = state[f] \/ state'[f].time >= shown[f].to.time
  PROVE  Onward'
<1> SUFFICES ASSUME NEW f \in Flows, Ordered(f), shown[f] # NoMetrics
             PROVE  /\ \A p \in PartitionsOf[f] : NotBefore(f, p, committed[p] + 1, shown[f].to.time)'
                    /\ pc' # "read" /\ report'.flow = f => report'.time >= shown[f].to.time
                    /\ state'[f] # NoReport =>
                         state'[f].time >= shown[f].to.time \/ state'[f] = shown[f].from
  BY DEF Onward
<1>1. ASSUME NEW p \in PartitionsOf[f]
      PROVE  NotBefore(f, p, committed[p] + 1, shown[f].to.time)'
  <2> SUFFICES ASSUME NEW m \in DOMAIN topic[p], m >= committed'[p] + 1, topic[p][m].flow = f
               PROVE  topic[p][m].time >= shown[f].to.time
    BY DEF NotBefore
  <2>1. p \in Partitions /\ m \in Nat /\ committed[p] \in Nat /\ committed'[p] \in Nat
    BY PartitionAssumption, Offsets DEF OInv
  <2>2. m >= committed[p] + 1
    BY <2>1
  <2> QED
    BY <2>2 DEF OInv, Onward, NotBefore
<1>2. state'[f] # NoReport => state'[f].time >= shown[f].to.time \/ state'[f] = shown[f].from
  BY DEF OInv, Onward
<1> QED
  BY <1>1, <1>2

LEMMA ReadOnward ==
  ASSUME OInv, NEW p \in Partitions, Read(p)
  PROVE  Held' /\ Onward'
<1>1. /\ position[p] < Len(topic[p]) /\ position' = [position EXCEPT ![p] = @ + 1]
      /\ committed' = [committed EXCEPT ![p] = position'[p]] /\ report' = topic[p][position'[p]] /\ pc' = "get"
      /\ UNCHANGED <<topic, state, shown>>
  BY DEF Read, switch
<1>2. /\ position'[p] \in DOMAIN topic[p] /\ position'[p] >= committed[p] + 1
      /\ committed' \in [Partitions -> Nat] /\ \A q \in Partitions : committed[q] <= committed'[q]
  BY <1>1, Offsets DEF OInv
<1>3. Held'
  BY <1>1, <1>2 DEF Held
<1>4. ASSUME NEW f \in Flows, Ordered(f), shown[f] # NoMetrics, report'.flow = f
      PROVE  report'.time >= shown[f].to.time
  <2>1. p \in PartitionsOf[f]
    BY <1>1, <1>2, <1>4 DEF OInv, Sorted
  <2> QED
    BY <1>1, <1>2, <1>4, <2>1 DEF OInv, Onward, NotBefore
<1>5. Onward'
  BY <1>1, <1>2, <1>4, OnwardKept
<1> QED
  BY <1>3, <1>5

LEMMA QuietOnward ==
  ASSUME OInv,
         \/ GetState \/ GetStateFails \/ PublishFails \/ SetState \/ SetStateFails \/ Restart
         \/ SwitchRestarts \/ UNCHANGED vars
         \/ \E p \in Partitions : CommitFails(p)
  PROVE  Held' /\ Onward'
<1>1. UNCHANGED <<topic, shown>>
  BY DEF GetState, GetStateFails, Found, PublishFails, SetState, SetStateFails, Restart,
         SwitchRestarts, CommitFails, switch, vars
<1>2. committed' \in [Partitions -> Nat] /\ \A p \in Partitions : committed[p] <= committed'[p]
  <2>1. CASE UNCHANGED committed
    BY <2>1, Offsets DEF OInv
  <2>2. CASE \E p \in Partitions : CommitFails(p)
    <3>1. PICK p \in Partitions : CommitFails(p)
      BY <2>2
    <3>2. /\ position' = [position EXCEPT ![p] = @ + 1]
          /\ committed' \in {committed, [committed EXCEPT ![p] = position'[p]]}
      BY <3>1 DEF CommitFails
    <3>3. position'[p] \in Nat /\ committed[p] <= position'[p]
      BY <3>2, Offsets DEF OInv
    <3>4. CASE committed' = committed
      BY <3>4, Offsets DEF OInv
    <3>5. CASE committed' = [committed EXCEPT ![p] = position'[p]]
      BY <3>3, <3>5, Offsets DEF OInv
    <3> QED
      BY <3>2, <3>4, <3>5
  <2> QED
    BY <2>1, <2>2 DEF GetState, GetStateFails, Found, PublishFails, SetState, SetStateFails, Restart,
       SwitchRestarts, reader, vars
<1>3. CASE GetState \/ GetStateFails
  <2>1. PICK found \in {NoReport, state[report.flow]} : Found(found)
    BY <1>3 DEF GetState, GetStateFails
  <2>2. UNCHANGED <<committed, report, state>> /\ prev' = found /\ pc # "read"
        /\ pc' = IF HasRate(found) THEN "publish" ELSE "set"
    BY <2>1 DEF Found, reader
  <2>3. Held'
    BY <1>1, <2>2 DEF OInv, Held, HasRate
  <2>4. Onward'
    BY <1>1, <1>2, <2>2, OnwardKept DEF OInv, Onward
  <2> QED
    BY <2>3, <2>4
<1>4. CASE PublishFails
  <2>1. UNCHANGED <<committed, report, state>> /\ pc # "read" /\ pc' = "set"
    BY <1>4 DEF PublishFails, reader
  <2> QED
    BY <1>1, <1>2, <2>1, OnwardKept DEF OInv, Held, Onward
<1>5. CASE SetState
  <2>1. pc = "set" /\ pc' = "read" /\ state' = [state EXCEPT ![report.flow] = report]
    BY <1>5 DEF SetState, Handled
  <2>2. ASSUME NEW f \in Flows, Ordered(f), shown[f] # NoMetrics
        PROVE  state'[f] = state[f] \/ state'[f].time >= shown[f].to.time
    BY <2>1, <2>2 DEF OInv, Onward, IInv, TypeOK
  <2>3. Onward'
    BY <1>1, <1>2, <2>1, <2>2, OnwardKept
  <2> QED
    BY <2>1, <2>3 DEF Held
<1>6. CASE SetStateFails \/ Restart
  <2>1. pc' = "read" /\ UNCHANGED state
    BY <1>6 DEF SetStateFails, Restart, Handled
  <2> QED
    BY <1>1, <1>2, <2>1, OnwardKept DEF Held
<1>7. CASE SwitchRestarts \/ UNCHANGED vars
  <2>1. UNCHANGED <<committed, pc, report, prev, state>>
    BY <1>7 DEF SwitchRestarts, reader, vars
  <2> QED
    BY <1>1, <1>2, <2>1, OnwardKept DEF OInv, Held, Onward
<1>8. CASE \E p \in Partitions : CommitFails(p)
  <2>1. pc = "read" /\ UNCHANGED <<pc, report, state>>
    BY <1>8 DEF CommitFails
  <2> QED
    BY <1>1, <1>2, <2>1, OnwardKept DEF Held
<1> QED
  BY <1>3, <1>4, <1>5, <1>6, <1>7, <1>8

(***************************************************************************)
(* A rate is shown: a later one than before, or the same again.            *)
(***************************************************************************)
LEMMA SameMetrics ==
  ASSUME NEW m \in Metrics, NEW n \in Metrics, Computed(m), Computed(n), m.from = n.from, m.to = n.to
  PROVE  m = n
<1>1. /\ m = [rx |-> m.rx, tx |-> m.tx, drop |-> m.drop, dt |-> m.dt, from |-> m.from, to |-> m.to]
      /\ n = [rx |-> n.rx, tx |-> n.tx, drop |-> n.drop, dt |-> n.dt, from |-> n.from, to |-> n.to]
  BY DEF Metrics
<1>2. m.rx = n.rx /\ m.tx = n.tx /\ m.dt = n.dt
  BY DEF Computed
<1>3. m.drop = n.drop
  BY <1>2 DEF Computed
<1> QED
  BY <1>1, <1>2, <1>3

LEMMA PublishOnward ==
  ASSUME OInv, PublishMetrics
  PROVE  /\ Held' /\ Onward'
         /\ \A f \in Flows :
              Ordered(f) /\ shown[f] # NoMetrics /\ shown'[f] # shown[f]
                => shown'[f].to.time > shown[f].to.time
<1> DEFINE f == report.flow
           m == ComputeMetrics
<1>1. /\ report \in OnTopic /\ prev \in OnTopic /\ report \in Reports /\ prev \in Reports
      /\ prev.flow = f /\ prev.time < report.time /\ prev = state[f] /\ f \in Flows
  BY DEF PublishMetrics, OInv, IInv, Handling, Held, OnTopic, Reports
<1>2. /\ pc = "publish" /\ pc' = "set" /\ shown' = [shown EXCEPT ![f] = m]
      /\ UNCHANGED <<topic, committed, report, state>>
  BY DEF PublishMetrics, switch, reader
<1>3. m.from = prev /\ m.to = report /\ Computed(m) /\ m # NoMetrics
  BY <1>1 DEF ComputeMetrics, Computed, Reports, NoMetrics
<1>4. IInv' /\ shown' \in [Flows -> Metrics \cup {NoMetrics}]
  <2>1. IInv'
    BY PublishStep DEF OInv
  <2> QED
    BY <2>1 DEF IInv, TypeOK
<1> HIDE DEF f, m
<1>5. shown'[f] = m /\ \A g \in Flows \ {f} : shown'[g] = shown[g]
  BY <1>1, <1>2 DEF OInv, IInv, TypeOK
<1>6. Held'
  BY <1>2 DEF OInv, Held
<1>7. ASSUME Ordered(f), NEW p \in PartitionsOf[f]
      PROVE  NotBefore(f, p, committed[p] + 1, report.time)
  <2>1. PICK q \in Partitions : committed[q] \in DOMAIN topic[q] /\ topic[q][committed[q]] = report
    BY <1>2 DEF OInv, Held
  <2>2. p = q
    BY <1>1, <1>7, <2>1, OnePartition DEF OInv, Sorted, f
  <2>3. \A n \in DOMAIN topic[p] : n \in Nat /\ topic[p][n] \in Reports
    BY <2>1, <2>2, ElementOfSeq, Offsets DEF OInv, IInv, TypeOK
  <2> SUFFICES ASSUME NEW n \in DOMAIN topic[p], n >= committed[p] + 1, topic[p][n].flow = f
               PROVE  topic[p][n].time >= report.time
    BY DEF NotBefore
  <2>4. committed[p] <= n
    BY <2>1, <2>2, <2>3
  <2>5. report.time <= topic[p][n].time
    BY <2>1, <2>2, <2>4 DEF OInv, Sorted, f
  <2>6. report.time \in Int /\ topic[p][n].time \in Int
    BY <1>1, <2>3 DEF Reports
  <2> QED
    BY <2>5, <2>6
<1>8. ASSUME NEW g \in Flows, Ordered(g), shown'[g] # NoMetrics
      PROVE  /\ \A p \in PartitionsOf[g] : NotBefore(g, p, committed[p] + 1, shown'[g].to.time)
             /\ report.flow = g => report.time >= shown'[g].to.time
             /\ state[g] # NoReport =>
                  state[g].time >= shown'[g].to.time \/ state[g] = shown'[g].from
  <2>1. CASE g = f
    BY <1>1, <1>3, <1>5, <1>7, <1>8, <2>1 DEF Reports
  <2>2. CASE g # f
    BY <1>5, <1>8, <2>2 DEF OInv, Onward, f
  <2> QED
    BY <2>1, <2>2
<1>9. Onward'
  BY <1>2, <1>8 DEF Onward, NotBefore
<1>10. ASSUME Ordered(f), shown[f] # NoMetrics, m # shown[f]
       PROVE  report.time > shown[f].to.time
  <2> DEFINE n == shown[f]
  <2>1. /\ n \in Metrics /\ Computed(n) /\ n.to \in OnTopic /\ n.to \in Reports /\ n.to.flow = f
    BY <1>1, <1>10 DEF OInv, IInv, TypeOK, Showing, OnTopic
  <2>2. m \in Metrics \cup {NoMetrics}
    BY <1>1, <1>4, <1>5
  <2>3. report.time >= n.to.time
    BY <1>1, <1>2, <1>10 DEF OInv, Onward, f
  <2>4. CASE report.time = n.to.time
    <3>1. report = n.to
      BY <1>1, <2>1, <2>4 DEF OInv, Sorted, f
    <3>2. state[f] # NoReport
      BY <1>1 DEF NoReport, Reports
    <3>3. ~(state[f].time >= n.to.time)
      BY <1>1, <2>1, <2>4 DEF Reports
    <3>4. state[f] = n.from
      BY <1>1, <1>10, <3>2, <3>3 DEF OInv, Onward
    <3>5. m \in Metrics
      BY <1>3, <2>2
    <3> HIDE DEF n
    <3>6. m = n
      BY <1>1, <1>3, <2>1, <3>1, <3>4, <3>5, SameMetrics
    <3> QED
      BY <1>10, <3>6 DEF n
  <2>5. report.time \in Int /\ n.to.time \in Int
    BY <1>1, <2>1 DEF Reports
  <2> QED
    BY <2>3, <2>4, <2>5
<1> QED
  BY <1>1, <1>3, <1>5, <1>6, <1>9, <1>10

-----------------------------------------------------------------------------
LEMMA OInvStep ==
  ASSUME OInv, [Next]_vars
  PROVE  /\ OInv'
         /\ \A f \in Flows :
              Ordered(f) /\ shown[f] # NoMetrics /\ shown'[f] # shown[f]
                => shown'[f].to.time > shown[f].to.time
<1>1. IInv'
  BY IInvStep DEF OInv
<1>2. CASE Switch
  <2>1. PICK f \in Flows, t \in Traffic, copies \in 1..2 : Emit(f, t, copies)
    BY <1>2 DEF Switch, Report, ReportTwice
  <2>2. UNCHANGED shown
    BY <2>1 DEF Emit
  <2> QED
    BY <1>1, <2>1, <2>2, EmitSorted, EmitOnward DEF OInv
<1>3. ASSUME NEW p \in Partitions, Read(p) PROVE OInv' /\ UNCHANGED shown
  BY <1>1, <1>3, ReadOnward, SortedKept DEF OInv, Read, switch
<1>4. CASE PublishMetrics
  BY <1>1, <1>4, PublishOnward, SortedKept DEF OInv, PublishMetrics, switch
<1>5. ASSUME \/ GetState \/ GetStateFails \/ PublishFails \/ SetState \/ SetStateFails \/ Restart
             \/ SwitchRestarts \/ UNCHANGED vars
             \/ \E p \in Partitions : CommitFails(p)
      PROVE  OInv' /\ UNCHANGED shown
  <2>1. UNCHANGED <<topic, shown>>
    BY <1>5 DEF GetState, GetStateFails, Found, PublishFails, SetState, SetStateFails, Restart,
       SwitchRestarts, CommitFails, switch, vars
  <2> QED
    BY <1>1, <1>5, <2>1, QuietOnward, SortedKept DEF OInv
<1> QED
  BY <1>2, <1>3, <1>4, <1>5 DEF Next, Consumer, Failure

(***************************************************************************)
(* For a flow that keeps to one partition a rate is never replaced by an   *)
(* older one, restarts, failures and duplicates included.                  *)
(***************************************************************************)
THEOREM NeverGoesBackHolds == Spec => NeverGoesBack
<1>1. OInv /\ [Next]_vars => OInv'
  BY OInvStep
<1>2. OInv /\ [Next]_vars =>
        [\A f \in Flows :
           Ordered(f) /\ shown[f] # NoMetrics /\ shown'[f] # shown[f]
             => shown'[f].to.time > shown[f].to.time]_vars
  BY OInvStep
<1> QED
  BY <1>1, <1>2, OInvInit, PTL DEF Spec, NeverGoesBack
=============================================================================
