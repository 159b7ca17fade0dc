----------------------------- MODULE MCCredits -----------------------------
(***************************************************************************)
(* Values of the constants of Credits for TLC.  The first scenario has one *)
(* customer without a budget, as experiment-1 does; with the second, while *)
(* the first still has its bids, it gets a budget and another customer     *)
(* joins.                                                                  *)
(***************************************************************************)
EXTENDS Credits, TLC

CONSTANTS ann, bob

Customer(c, balance) == [id |-> c, balance |-> balance]
BobJoins == <<<<Customer(ann, 0)>>, <<Customer(ann, 5), Customer(bob, 3)>>>>

PodsAlike == Permutations(ApiPods) \cup Permutations(RunnerPods)
=============================================================================
