------------------------------ MODULE MCMarket ------------------------------
(***************************************************************************)
(* Values of the constants of Market for TLC: two customers.  Each         *)
(* strategy meets a follower, and those that set prices one that bids its  *)
(* valuation.                                                              *)
(***************************************************************************)
EXTENDS Market

TwoCustomers == 1..2
Valuations == <<3, 5>>
Balances == <<8, 0>>
OnePort == <<0>>
Halves == <<1, 2>>
Pairs ==
  {<<s, "demand_corrected">> : s \in StrategyNames} \cup
  {<<s, "valuation_based">> : s \in {"price_insensitive", "budget_aware", "throughput_optimizer"}}
OnlyTruthful == {<<"valuation_based", "valuation_based">>}
OnlyLearning == {<<"q_learning", "price_insensitive">>}
\* nothing, a little, and more than the capacity with drops
Loads == {[rx |-> 0, drop |-> 0], [rx |-> 2, drop |-> 0], [rx |-> 3, drop |-> 2]}
=============================================================================
