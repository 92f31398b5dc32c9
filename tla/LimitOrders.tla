----------------------------- MODULE LimitOrders -----------------------------
(* handlers/LimitTradeHandler.sol: traders leave market and limit orders     *)
(* with an execution fee in the handler's custody; whitelisted executors     *)
(* carry them out in later transactions, in batches.  A market order is gone *)
(* after one attempt; a limit order stays until it succeeds or is cancelled. *)
EXTENDS Positions, Sums

CONSTANTS
  OrderRequests,  \* what an order may ask for
  AllOf,          \* type(int256).max: as much as the position has
  None,           \* no order: account 0
  MaxOrders,      \* bound on the orders of one sub-account
  MaxBatch        \* bound on the orders or commands of one call

Orders == [market : BOOLEAN, sizeDelta : Int, reduceOnly : BOOLEAN, executionFee : Nat]

ASSUME LimitOrdersAssumption ==
  /\ OrderRequests \subseteq Orders /\ None \notin Orders
  /\ AllOf \in Nat /\ AllOf > 2 * MaxPosition
  /\ MaxOrders \in Nat /\ MaxBatch \in Nat \ {0}

VARIABLES
  limitOrders,               \* pointer -> order, or None
  limitOrdersIndex,          \* sub-account -> the index of its next order
  activeOrderPointers,
  activeMarketOrderPointers, \* the pointers of each kind: the per-account sets
  activeLimitOrderPointers,  \* are their parts
  held,                      \* the handler's WETH
  orderLimit                 \* LimitTradeHelper's limits

orderVars == <<limitOrders, limitOrdersIndex, activeOrderPointers,
               activeMarketOrderPointers, activeLimitOrderPointers, held>>

(* _encodePointer: a sub-account and an index. *)
Pointers == SubAccounts \X (0 .. MaxOrders - 1)

LimitOrdersInit ==
  /\ limitOrders = [p \in Pointers |-> None]
  /\ limitOrdersIndex = [a \in SubAccounts |-> 0]
  /\ activeOrderPointers = {} /\ activeMarketOrderPointers = {}
  /\ activeLimitOrderPointers = {}
  /\ held = 0
  /\ orderLimit = [trade |-> 0, position |-> 0]

-----------------------------------------------------------------------------
(* A state s of a call, which reverts as soon as ok is false. *)
Storage ==
  [orders |-> limitOrders, index |-> limitOrdersIndex, active |-> activeOrderPointers,
   markets |-> activeMarketOrderPointers, limits |-> activeLimitOrderPointers,
   held |-> held, position |-> position, due |-> 0, ok |-> TRUE]

Commit(s) ==
  /\ s.ok
  /\ limitOrders' = s.orders /\ limitOrdersIndex' = s.index
  /\ activeOrderPointers' = s.active
  /\ activeMarketOrderPointers' = s.markets /\ activeLimitOrderPointers' = s.limits
  /\ held' = s.held /\ position' = s.position

Revert(s) == [s EXCEPT !.ok = FALSE]

(* _transferOutETH: what is not there cannot be unwrapped. *)
TransferOut(s, amount) ==
  [s EXCEPT !.held = @ - amount, !.ok = @ /\ amount <= s.held]

(* _createOrder and _addOrder.  The order is stored with triggerPrice 0 and  *)
(* triggerAboveThreshold when it is a market order.                          *)
CreateOrder(s, a, r) ==
  LET p == <<a, s.index[a]>>
  IN  IF ~WithinLimits(orderLimit, s.position[a], r.sizeDelta, r.reduceOnly)
      THEN Revert(s)
      ELSE [s EXCEPT !.index[a] = @ + 1, !.orders[p] = r, !.active = @ \cup {p},
                     !.markets = IF r.market THEN @ \cup {p} ELSE @,
                     !.limits = IF r.market THEN @ ELSE @ \cup {p},
                     !.due = @ + r.executionFee]

(* A wrong variant, for MarketOrdersSettle to notice: the list of the market *)
(* orders is not updated.                                                    *)
RemoveListedOrder(s, p) ==
  [s EXCEPT !.orders[p] = None, !.active = @ \ {p},
            !.limits = IF s.orders[p].market THEN @ ELSE @ \ {p}]

(* _removeOrder *)
RemoveOrder(s, p) ==
  [s EXCEPT !.orders[p] = None, !.active = @ \ {p},
            !.markets = IF s.orders[p].market THEN @ \ {p} ELSE @,
            !.limits = IF s.orders[p].market THEN @ ELSE @ \ {p}]

(* _cancelOrder *)
CancelOrder(s, p) == TransferOut(RemoveOrder(s, p), s.orders[p].executionFee)

(* A wrong variant, for ListsAgree to notice: a limit order may become a     *)
(* market order, and is still listed with the limit orders.                  *)
UpdateToAnyOrder(s, p, r) ==
  IF s.orders[p] = None \/ r.sizeDelta = 0 \/ s.orders[p].market
  THEN Revert(s)
  ELSE [s EXCEPT !.orders[p] = [r EXCEPT !.executionFee = s.orders[p].executionFee]]

(* _updateOrder: only a limit order, and it stays one. *)
UpdateOrder(s, p, r) ==
  IF s.orders[p] = None \/ r.sizeDelta = 0 \/ s.orders[p].market \/ r.market
  THEN Revert(s)
  ELSE [s EXCEPT !.orders[p] = [r EXCEPT !.executionFee = s.orders[p].executionFee]]

-----------------------------------------------------------------------------
(* The largest integers stand for the whole position, on the side named. *)
RevisedDelta(delta, size) ==
  IF delta = AllOf THEN Size(size) ELSE IF delta = -AllOf THEN -Size(size) ELSE delta

(* A wrong variant, for LimitsKept to notice: the limits are checked only    *)
(* when the order is created.                                                *)
ExecuteUnlimitedOrder(s, p) ==
  LET o == s.orders[p]
      a == p[1]
      delta == RevisedDelta(o.sizeDelta, s.position[a])
      size == CarryOut(s.position[a], delta, o.reduceOnly)
      ends == TransferOut([RemoveOrder(s, p) EXCEPT !.position[a] = size], o.executionFee)
  IN  [ends EXCEPT !.ok = @ /\ delta # 0 /\ MarketAllows(size)]

(* executeLimitOrder, if the prices and the service let it through. *)
ExecuteLimitOrder(s, p) ==
  LET o == s.orders[p]
      a == p[1]
      delta == RevisedDelta(o.sizeDelta, s.position[a])
      size == CarryOut(s.position[a], delta, o.reduceOnly)
      ends == TransferOut([RemoveOrder(s, p) EXCEPT !.position[a] = size], o.executionFee)
  IN  [ends EXCEPT
         !.ok = /\ @ /\ delta # 0 /\ MarketAllows(size)
                /\ WithinLimits(orderLimit, s.position[a], o.sizeDelta, o.reduceOnly)]

(* A wrong variant, for FeesHeld to notice: the executor is paid for the     *)
(* failure of a limit order, which stays.                                    *)
HandleFailurePaid(s, p) ==
  LET o == s.orders[p]
  IN  TransferOut(IF o.market THEN RemoveOrder(s, p) ELSE s, o.executionFee)

(* _handleOrderFail: a market order is dropped and its fee earned all the    *)
(* same; a limit order stays.  (With isRevert a limit order that fails       *)
(* reverts the call: the state does not change.)                             *)
HandleOrderFail(s, p) ==
  IF s.orders[p].market THEN TransferOut(RemoveOrder(s, p), s.orders[p].executionFee) ELSE s

(* What may become of an order in a call: a market order older than          *)
(* minExecutionTimestamp is stale; the trigger, the acceptable price, the    *)
(* market's status and the service accept it or refuse.                      *)
Outcomes == {"stale", "accepted", "refused"}

(* _executeOrder *)
ExecuteOrder(s, call) ==
  LET p == call.pointer
      tried == ExecuteLimitOrder(s, p)
  IN  IF s.orders[p] = None THEN Revert(s)
      ELSE IF s.orders[p].market /\ call.outcome = "stale" THEN CancelOrder(s, p)
      ELSE IF call.outcome = "accepted" /\ tried.ok THEN tried
      ELSE HandleOrderFail(s, p)

ExecuteOrders(calls) == Commit(Through(calls, ExecuteOrder, Storage))

Calls == [pointer : Pointers, outcome : Outcomes]

-----------------------------------------------------------------------------
(* createOrder, and a command of batch to create: the fee is paid for at the *)
(* end of the call.                                                          *)
Command(s, a, c) ==
  CASE c.command = "create" -> IF s.index[a] < MaxOrders THEN CreateOrder(s, a, c.request)
                               ELSE Revert(s)
    [] c.command = "update" -> UpdateOrder(s, <<a, c.index>>, c.request)
    [] c.command = "cancel" -> IF s.orders[<<a, c.index>>] = None THEN Revert(s)
                               ELSE CancelOrder(s, <<a, c.index>>)

Commands ==
  [command : {"create"}, request : OrderRequests]
    \cup [command : {"update"}, index : 0 .. MaxOrders - 1, request : OrderRequests]
    \cup [command : {"cancel"}, index : 0 .. MaxOrders - 1]

(* batch, and createOrder, updateOrder, cancelOrder and batchCancelOrders,   *)
(* which do what it does with one command or with cancellations: by the      *)
(* account or its delegate.                                                  *)
Batch(a, commands) ==
  LET Run(s, c) == Command(s, a, c)
      end == Through(commands, Run, Storage)
  IN  Commit([end EXCEPT !.held = @ + end.due])

SetOrderLimit(limit) == orderLimit' = limit /\ UNCHANGED <<orderVars, position>>
=============================================================================
