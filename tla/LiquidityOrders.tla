--------------------------- MODULE LiquidityOrders ---------------------------
(* handlers/LiquidityHandler02.sol: providers leave orders to add or remove  *)
(* liquidity, with the tokens and an execution fee, in the handler's         *)
(* custody; whitelisted executors execute them in later transactions, in     *)
(* batches; providers may cancel.  Calls of both are sent against the state  *)
(* their sender saw and land later.                                          *)
EXTENDS Sums, FiniteSets

CONSTANTS
  SubAccounts,     \* the sub-accounts that create orders
  OrderExecutors,  \* those of them whose owner is an order executor too
  Assets,          \* the tokens an order may leave with the handler, HLP included
  Weth,            \* wrapped native token: fees are kept in it
  Requests,        \* what an order may be for: an amount of an asset, and its fee
  None,            \* no order: account 0
  LateCalls,       \* may calls land after the order they name was settled, or not?
  MaxOrders,       \* bound on the orders of one sub-account
  MaxBatch         \* bound on the orders of one executeOrders call

Status == {"PENDING", "SUCCESS"}

Orders == [asset : Assets, amount : Nat, executionFee : Nat, status : Status]

ASSUME OrdersAssumption ==
  /\ IsFiniteSet(SubAccounts) /\ OrderExecutors \subseteq SubAccounts
  /\ IsFiniteSet(Assets) /\ Weth \in Assets
  /\ Requests \subseteq [asset : Assets, amount : Nat \ {0}, executionFee : Nat]
  /\ None \notin Orders
  /\ LateCalls \subseteq BOOLEAN /\ MaxOrders \in Nat /\ MaxBatch \in Nat \ {0}

VARIABLES
  liquidityOrders,       \* pointer -> order, or None
  liquidityOrdersIndex,  \* sub-account -> the index of its next order
  active,                \* _activeOrderPointers (the per-account sets are its parts)
  executed,              \* _executedOrderPointers
  held,                  \* asset -> the handler's balance
  late                   \* do calls land late?  (a fact of the run, it never changes)

vars == <<liquidityOrders, liquidityOrdersIndex, active, executed, held, late>>

(* _encodePointer: a sub-account and an index. *)
Pointers == SubAccounts \X (0 .. MaxOrders - 1)

Order(r, status) ==
  [asset |-> r.asset, amount |-> r.amount, executionFee |-> r.executionFee,
   status |-> status]

Init ==
  /\ liquidityOrders = [p \in Pointers |-> None]
  /\ liquidityOrdersIndex = [a \in SubAccounts |-> 0]
  /\ active = {} /\ executed = {}
  /\ held = [x \in Assets |-> 0]
  /\ late \in LateCalls

-----------------------------------------------------------------------------
(* createAddLiquidityOrder leaves a token, createRemoveLiquidityOrder HLP.   *)
CreateOrder(a, r) ==
  LET p == <<a, liquidityOrdersIndex[a]>>
      paid == [held EXCEPT ![r.asset] = @ + r.amount]
  IN  /\ liquidityOrdersIndex[a] < MaxOrders
      /\ liquidityOrdersIndex' = [liquidityOrdersIndex EXCEPT ![a] = @ + 1]
      /\ liquidityOrders' = [liquidityOrders EXCEPT ![p] = Order(r, "PENDING")]
      /\ active' = active \cup {p}
      /\ held' = [paid EXCEPT ![Weth] = @ + r.executionFee]
      /\ UNCHANGED <<executed, late>>

-----------------------------------------------------------------------------
(* A state s of a call: the storage, the fees collected so far, and ok, on   *)
(* which the whole call reverts as soon as it is false.                      *)

(* A wrong variant, for TypeOK to notice: more may be taken than is there. *)
TakeUnchecked(s, asset, amount) == [s EXCEPT !.held[asset] = @ - amount]

Take(s, asset, amount) ==
  [s EXCEPT !.held[asset] = @ - amount, !.ok = @ /\ amount <= s.held[asset]]

(* Wrong variants, for HoldsPending and OrdersHandled to notice: the fee is  *)
(* returned although the executor has earned it; the pointer stays listed.   *)
CancelReturningFee(s, p, byExecutor) ==
  LET refunded == Take(Take(s, Weth, s.orders[p].executionFee),
                       s.orders[p].asset, s.orders[p].amount)
  IN  [refunded EXCEPT !.active = @ \ {p}, !.orders[p] = None]

CancelStillListed(s, p, byExecutor) ==
  LET o == s.orders[p]
      returned == IF byExecutor THEN s ELSE Take(s, Weth, o.executionFee)
  IN  [Take(returned, o.asset, o.amount) EXCEPT !.orders[p] = None]

(* _cancelOrder: off the active list, the amount refunded, the order deleted *)
(* and, unless an executor calls, the execution fee returned.                *)
CancelOrder(s, p, byExecutor) ==
  LET o == s.orders[p]
      returned == IF byExecutor THEN s ELSE Take(s, Weth, o.executionFee)
      refunded == Take(returned, o.asset, o.amount)
  IN  [refunded EXCEPT !.active = @ \ {p}, !.orders[p] = None]

(* A wrong variant, for ListsAgree to notice: the pointer stays active. *)
SuccessStillListed(s, p) ==
  [s EXCEPT !.executed = @ \cup {p}, !.orders[p].status = "SUCCESS"]

(* _handleOrderSuccess *)
OrderSuccess(s, p) ==
  [s EXCEPT !.active = @ \ {p}, !.executed = @ \cup {p},
            !.orders[p].status = "SUCCESS"]

(* _executeOrder: executeLiquidity is tried; it succeeds or not for the      *)
(* service's reasons, and fails when the handler does not have the amount.   *)
(* A failure is undone and the order cancelled; the executor earns the fee   *)
(* either way.  (No stored order has amount 0, which would be skipped.)      *)
ExecuteOrder(s, call) ==
  LET p == call.pointer
      o == s.orders[p]
      tried == Take(s, o.asset, o.amount)
      done == IF call.succeeds /\ o.amount <= s.held[o.asset]
              THEN OrderSuccess(tried, p) ELSE CancelOrder(s, p, TRUE)
  IN  IF o = None THEN [s EXCEPT !.ok = FALSE]
      ELSE [done EXCEPT !.fees = @ + o.executionFee]

Storage ==
  [orders |-> liquidityOrders, active |-> active, executed |-> executed,
   held |-> held, fees |-> 0, ok |-> TRUE]

Commit(s) ==
  /\ s.ok
  /\ liquidityOrders' = s.orders /\ active' = s.active /\ executed' = s.executed
  /\ held' = s.held
  /\ UNCHANGED <<liquidityOrdersIndex, late>>

(* executeOrders, the fees paid to the executor at the end.  With isRevert a *)
(* failing order reverts the call: the state does not change.                *)
ExecuteOrders(batch) ==
  LET end == Through(batch, ExecuteOrder, Storage)
  IN  Commit(Take(end, Weth, end.fees))

CancelLiquidityOrder(p) ==
  /\ liquidityOrders[p] # None
  /\ Commit(CancelOrder(Storage, p, p[1] \in OrderExecutors))

-----------------------------------------------------------------------------
(* The orders a call may name: all that were ever created, or those the      *)
(* getters list as active when the call lands.                               *)
Named == IF late THEN {p \in Pointers : p[2] < liquidityOrdersIndex[p[1]]} ELSE active

Calls == [pointer : Named, succeeds : BOOLEAN]

Batches ==
  {b \in UNION {[1 .. n -> Calls] : n \in 1 .. MaxBatch} :
     late \/ \A i, j \in DOMAIN b : i # j => b[i].pointer # b[j].pointer}

Next ==
  \/ \E a \in SubAccounts, r \in Requests : CreateOrder(a, r)
  \/ \E batch \in Batches : ExecuteOrders(batch)
  \/ \E p \in Named : CancelLiquidityOrder(p)

Spec == Init /\ [][Next]_vars

(* Executors pick up every active order: p is in a batch sooner or later.    *)
(* (What they do where calls land late is left open.)                        *)
Executes(p) ==
  ~late /\ p \in active /\ \E succeeds \in BOOLEAN :
                     ExecuteOrders(<<[pointer |-> p, succeeds |-> succeeds]>>)

FairSpec == Spec /\ \A p \in Pointers : WF_vars(Executes(p))

-----------------------------------------------------------------------------
TypeOK ==
  /\ liquidityOrders \in [Pointers -> Orders \cup {None}]
  /\ liquidityOrdersIndex \in [SubAccounts -> 0 .. MaxOrders]
  /\ active \subseteq Pointers /\ executed \subseteq Pointers
  /\ held \in [Assets -> Nat]

(* What order o is worth to the handler in asset x: the amount left with it  *)
(* and, in WETH, the execution fee.                                          *)
Share(o, x) ==
  (IF o.asset = x THEN o.amount ELSE 0) + (IF x = Weth THEN o.executionFee ELSE 0)

(* What the handler must have in asset x for the orders still active. *)
Due(x) ==
  SumOver(Pointers, [p \in Pointers |->
                       IF p \in active THEN Share(liquidityOrders[p], x) ELSE 0])

(* While no call lands late, the handler can always settle every active      *)
(* order: successes, failures refunded in the middle of a batch, fees and    *)
(* cancellations each take exactly their own order's share.                  *)
HoldsPending == late \/ \A x \in Assets : held[x] >= Due(x)

(* The lists the keepers and the front ends read agree with the orders: an   *)
(* order is listed active exactly while it is pending, and one listed active *)
(* was never executed, even when late and repeated calls land.               *)
ListsAgree ==
  /\ \A p \in Pointers :
        p \in active <=> (liquidityOrders[p] # None /\ liquidityOrders[p].status = "PENDING")
  /\ active \cap executed = {}

(* Every order is settled, executed, failed and refunded, or cancelled, as   *)
(* long as no call lands late.                                               *)
OrdersHandled == \A p \in Pointers : (p \in active /\ ~late) ~> p \notin active

(* "if found order with amount 0. means order has been executed or canceled" *)
(* (LiquidityHandler02.sol:574): an order that was executed has nothing left *)
(* to refund, so cancelling it gives back none of the asset.                 *)
NothingLeftAfterExecution ==
  [][\A p \in executed :
        liquidityOrders[p] # None /\ liquidityOrders'[p] = None =>
           \A x \in Assets \ {Weth} : held'[x] = held[x]]_vars
=============================================================================
