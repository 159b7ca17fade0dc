--------------------------- MODULE AuctionLedger ---------------------------
(***************************************************************************)
(* What the control plane promises about money: bids are collected in the  *)
(* book of an egress port; an auction of the port charges every winner the *)
(* units it is awarded at the one clearing price, and credits it with the  *)
(* difference to its valuation, all at once; a book is auctioned at most   *)
(* once before it is cleared.  AuctionRunner implements it when no call    *)
(* fails.                                                                  *)
(***************************************************************************)
EXTENDS Integers, Functions

CONSTANTS Customers, Ingress, Owner, Valuation, Ports, Bids, PriceOf(_), AwardsOf(_)

VARIABLES
  book,     \* the bids of each port
  closing,  \* ports auctioned and not yet cleared
  spent,
  earned

vars == <<book, closing, spent, earned>>

WonBy(bids, c) ==
  SumFunctionOnSet(AwardsOf(bids), {i \in DOMAIN AwardsOf(bids) : Owner[i] = c})

Charge(bids, c) == PriceOf(bids) * WonBy(bids, c)
Gain(bids, c) == (Valuation[c] - PriceOf(bids)) * WonBy(bids, c)

Init ==
  /\ book = [p \in Ports |-> <<>>]
  /\ closing = {}
  /\ spent = [c \in Customers |-> 0]
  /\ earned = [c \in Customers |-> 0]

Post(p, i, bid) ==
  /\ book' = [book EXCEPT ![p] = [j \in DOMAIN @ \cup {i} |-> IF j = i THEN bid ELSE @[j]]]
  /\ UNCHANGED <<closing, spent, earned>>

Auction(p) ==
  /\ closing = {}
  /\ DOMAIN book[p] # {}
  /\ closing' = {p}
  /\ spent' = [c \in Customers |-> spent[c] + Charge(book[p], c)]
  /\ earned' = [c \in Customers |-> earned[c] + Gain(book[p], c)]
  /\ UNCHANGED book

Clear(p) ==
  /\ p \in closing
  /\ closing' = {}
  /\ book' = [book EXCEPT ![p] = <<>>]
  /\ UNCHANGED <<spent, earned>>

Next ==
  \E p \in Ports :
    \/ \E i \in Ingress, bid \in Bids : Post(p, i, bid)
    \/ Auction(p)
    \/ Clear(p)

Spec == Init /\ [][Next]_vars
=============================================================================
