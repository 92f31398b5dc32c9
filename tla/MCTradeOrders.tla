---------------------------- MODULE MCTradeOrders ----------------------------
(* An instance of TradeOrders for TLC: one sub-account with orders of each   *)
(* kind, a market and a limit intent, positions of up to two on either side. *)
EXTENDS TradeOrders

CONSTANT alice

Traders == {alice}

Order(market, sizeDelta, reduceOnly) ==
  [market |-> market, sizeDelta |-> sizeDelta, reduceOnly |-> reduceOnly,
   executionFee |-> 1]

SomeOrders == {Order(TRUE, -1, FALSE), Order(FALSE, AllOf, TRUE)}

Intent(n, market, sizeDelta, reduceOnly) ==
  [account |-> alice, createdTimestamp |-> n, market |-> market,
   sizeDelta |-> sizeDelta, reduceOnly |-> reduceOnly]

(* A market intent that is sent in two ways, and a limit intent in one. *)
SomeKeys ==
  [intent : {Intent(1, TRUE, 2, FALSE)}, rest : {"zeros", "ones"}]
    \cup [intent : {Intent(2, FALSE, -2, TRUE)}, rest : {"zeros"}]

SomeLimits == {[trade |-> 0, position |-> 0], [trade |-> 2, position |-> 1]}
=============================================================================
