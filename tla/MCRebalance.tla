----------------------------- MODULE MCRebalance -----------------------------
(* Instances of Rebalance for TLC: one GMX market GM over a long token A and *)
(* a short token B, liquidity added by providers, two orders.                *)
EXTENDS Rebalance, TLC

CONSTANTS A, B, GM, lp, k1, k2

PoolTokens == {A, B, GM}
NoTraders == {lp}
PoolAssets == <<A, B, GM>>
NoFees == {0}
NoSettlement == {}
OrderKeys == {k1, k2}
KeySymmetry == Permutations(OrderKeys)

Deposit(long, short) ==
  [market |-> GM, longToken |-> A, shortToken |-> B,
   longTokenAmount |-> long, shortTokenAmount |-> short]

LongOnly == {Deposit(1, 0), Deposit(2, 0)}
BothSides == {Deposit(1, 0), Deposit(0, 1), Deposit(1, 1)}
OneSize == {Deposit(1, 0)}

GmToBoth == {[market |-> GM, longToken |-> A, shortToken |-> B, amount |-> 1]}

OneOrNone == {0, 1}
OnlyA == {A}

AnyBalance == {[t \in Tokens |-> MaxBalance]}
=============================================================================
