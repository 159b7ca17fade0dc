----------------------------- MODULE MCExchange -----------------------------
(***************************************************************************)
(* Values of the constants of Exchange for TLC.  The workloads put the     *)
(* weight on one kind of client after the other, with a little of the      *)
(* rest.                                                                   *)
(***************************************************************************)
EXTENDS Exchange

Customer(id, ports) == [id |-> id, switch |-> "sw-1", ports |-> ports, valuation |-> 0]
Switch(id, ports) == [id |-> id, ingress |-> ports, egress |-> <<0>>, capacity |-> 5]
FileOf(pattern, switches, customers) ==
  [version |-> "v1", reserve |-> 1, telemetry |-> 1, auction |-> 2,
   switches |-> switches, customers |-> customers,
   traffic |-> [pattern |-> pattern, rate |-> 2, spikeAfter |-> 1, spikeRate |-> 3]]
File(pattern, customers) == FileOf(pattern, <<Switch("sw-1", <<1, 2>>)>>, customers)

Pair(p, q) == <<Customer("a", p), Customer("b", q)>>
TwoEntries == <<Customer("a", <<1>>), Customer("b", <<>>), Customer("a", <<2>>)>>

\* port 2 of a second switch, of a customer who has that port on the first one or has not
Elsewhere(id, ports) == [Customer(id, ports) EXCEPT !.switch = "sw-2"]
TwoSwitches ==
  {FileOf("spike", <<Switch("sw-1", <<1, 2>>), Switch("sw-2", <<2>>)>>, customers) :
     customers \in {<<Elsewhere("b", <<2>>), Customer("a", <<1, 2>>)>>,
                    <<Elsewhere("a", <<2>>), Customer("a", <<1>>), Customer("b", <<2>>)>>}}

\* shared and unassigned ports, ports of no switch, a customer with two entries, two switches
AllFiles == {File("spike", Pair(p, q)) : p, q \in {<<1>>, <<2>>, <<1, 2>>, <<3>>, <<>>}}
            \cup {File("spike", TwoEntries)} \cup TwoSwitches
OneEach == {File("spike", Pair(<<1>>, <<2>>))}
OneHasBoth == {File("spike", TwoEntries)}
OneOwner == {File("spike", <<Customer("a", <<1, 2>>)>>)}
Random == {File("", Pair(<<1>>, <<2>>))}

Posts ==
  {[customer |-> "a", ingress |-> 1, egress |-> 0, units |-> 1, price |-> 1],
   [customer |-> "a", ingress |-> 1, egress |-> 0, units |-> 2, price |-> 1],
   [customer |-> "b", ingress |-> 2, egress |-> 0, units |-> 1, price |-> 1],
   [customer |-> "a", ingress |-> 5, egress |-> 0, units |-> 1, price |-> 1],
   [customer |-> "a", ingress |-> 1, egress |-> 7, units |-> 1, price |-> 1],
   [customer |-> "a", ingress |-> 2, egress |-> 0, units |-> 1, price |-> 1],
   [customer |-> "a", ingress |-> 1, egress |-> 0, units |-> 0, price |-> 1],
   [customer |-> "",  ingress |-> 1, egress |-> 0, units |-> 1, price |-> 1]}

\* port 5 is port 1 to the gateway
Awards == {[q \in {5, 2} |-> IF q = 5 THEN 1 ELSE 2], [q \in {2} |-> 0]}

Workload(files, posts, rounds, reports, faults, scrapers, others, n, restarts) ==
  [files |-> files,
   gateway |-> [posts |-> posts, rounds |-> rounds, reports |-> reports, faults |-> faults,
                failed |-> 0, scrapers |-> scrapers],
   switch |-> [deployed |-> n > 0, results |-> others, ticks |-> n, faults |-> restarts]]

Loads ==
  {Workload(OneEach, 3, 1, 0, 0, {}, 0, 0, 0),
   Workload(OneEach, 2, 1, 0, 1, {}, 0, 0, 0),
   Workload(OneHasBoth, 0, 2, 0, 1, {1}, 0, 0, 0),
   Workload(OneOwner, 0, 2, 0, 0, {1, 2}, 0, 0, 0),
   Workload(AllFiles, 0, 1, 1, 1, {1}, 0, 0, 0),
   Workload(AllFiles, 1, 1, 0, 0, {}, 0, 0, 0),
   Workload(OneEach, 0, 1, 0, 0, {}, 2, 2, 1),
   Workload(Random, 0, 0, 0, 0, {}, 1, 1, 0)}

\* a round, and the switch that reads its results
Listening == {Workload(OneEach, 0, 1, 0, 0, {}, 0, 1, 0)}
=============================================================================
