-------------------------- MODULE TradeOrdersProofs --------------------------
(* LimitTradeHandler and IntentHandler for every number of sub-accounts,     *)
(* orders, intents and commands or calls in a transaction: fees and lists    *)
(* agree with the orders, intent words take effect once at most, reduce-only *)
(* orders only reduce, and no limit is passed.                               *)
EXTENDS TradeOrders, SumsProofs, SequenceTheorems

-----------------------------------------------------------------------------
(* Positions. *)

(* The smaller of two numbers, which SMT finds no way to compute. *)
LEMMA MinIs ==
  ASSUME NEW m \in Int, NEW n \in Int
  PROVE  Min({m, n}) = IF m < n THEN m ELSE n
BY DEF Min

(* after is not larger than before, and on the same side if it is open. *)
Shrinks(before, after) ==
  /\ Size(after) <= Size(before)
  /\ after # 0 => SameSide(after, before)

LEMMA ShrinksTwice ==
  ASSUME NEW x \in Int, NEW y \in Int, NEW z \in Int, Shrinks(x, y), Shrinks(y, z)
  PROVE  Shrinks(x, z)
BY DEF Shrinks, Size, SameSide

(* A reduce-only order shrinks a position; any other adds what it is for.    *)
LEMMA CarryOutIs ==
  ASSUME NEW size \in Int, NEW delta \in Int, NEW reduceOnly \in BOOLEAN
  PROVE  /\ CarryOut(size, delta, reduceOnly) \in Int
         /\ reduceOnly => Shrinks(size, CarryOut(size, delta, reduceOnly))
         /\ ~reduceOnly => CarryOut(size, delta, reduceOnly) = size + delta
<1> DEFINE closes == size # 0 /\ delta # 0 /\ ~SameSide(size, delta)
           least == Min({Size(delta), Size(size)})
<1>1. Size(delta) \in Int /\ Size(size) \in Int BY DEF Size
<1>2. least = IF Size(delta) < Size(size) THEN Size(delta) ELSE Size(size)
  BY <1>1, MinIs
<1> HIDE DEF least
<1>3. ASSUME reduceOnly
      PROVE  /\ CarryOut(size, delta, reduceOnly) \in Int
             /\ Shrinks(size, CarryOut(size, delta, reduceOnly))
  <2>1. CarryOut(size, delta, reduceOnly) = IF closes THEN Decrease(size, least) ELSE size
    BY <1>3 DEF CarryOut, least
  <2>2. CASE closes
    BY <1>2, <2>1, <2>2 DEF Decrease, Shrinks, Size, SameSide
  <2>3. CASE ~closes
    BY <2>1, <2>3 DEF Shrinks, Size, SameSide
  <2> QED BY <2>2, <2>3
<1>4. ASSUME ~reduceOnly
      PROVE  CarryOut(size, delta, reduceOnly) = size + delta
  BY <1>4 DEF CarryOut, Increase, Decrease, Size, SameSide
<1> QED BY <1>3, <1>4

-----------------------------------------------------------------------------
(* The state of a call to LimitTradeHandler, field by field. *)

OrderStorages ==
  [orders : [Pointers -> Orders \cup {None}], index : [SubAccounts -> 0 .. MaxOrders],
   active : SUBSET Pointers, markets : SUBSET Pointers, limits : SUBSET Pointers,
   held : Int, position : [SubAccounts -> Int], due : Nat, ok : BOOLEAN]

Fields(o, i, a, m, l, h, n, d, k) ==
  [orders |-> o, index |-> i, active |-> a, markets |-> m, limits |-> l,
   held |-> h, position |-> n, due |-> d, ok |-> k]

LEMMA SetOrders ==
  ASSUME NEW s \in OrderStorages, NEW e
  PROVE  [s EXCEPT !.orders = e] =
           Fields(e, s.index, s.active, s.markets, s.limits, s.held, s.position,
                  s.due, s.ok)
BY DEF OrderStorages, Fields

LEMMA SetIndex ==
  ASSUME NEW s \in OrderStorages, NEW e
  PROVE  [s EXCEPT !.index = e] =
           Fields(s.orders, e, s.active, s.markets, s.limits, s.held, s.position,
                  s.due, s.ok)
BY DEF OrderStorages, Fields

LEMMA SetActive ==
  ASSUME NEW s \in OrderStorages, NEW e
  PROVE  [s EXCEPT !.active = e] =
           Fields(s.orders, s.index, e, s.markets, s.limits, s.held, s.position,
                  s.due, s.ok)
BY DEF OrderStorages, Fields

LEMMA SetMarkets ==
  ASSUME NEW s \in OrderStorages, NEW e
  PROVE  [s EXCEPT !.markets = e] =
           Fields(s.orders, s.index, s.active, e, s.limits, s.held, s.position,
                  s.due, s.ok)
BY DEF OrderStorages, Fields

LEMMA SetLimits ==
  ASSUME NEW s \in OrderStorages, NEW e
  PROVE  [s EXCEPT !.limits = e] =
           Fields(s.orders, s.index, s.active, s.markets, e, s.held, s.position,
                  s.due, s.ok)
BY DEF OrderStorages, Fields

LEMMA SetHeld ==
  ASSUME NEW s \in OrderStorages, NEW e
  PROVE  [s EXCEPT !.held = e] =
           Fields(s.orders, s.index, s.active, s.markets, s.limits, e, s.position,
                  s.due, s.ok)
BY DEF OrderStorages, Fields

LEMMA SetPosition ==
  ASSUME NEW s \in OrderStorages, NEW e
  PROVE  [s EXCEPT !.position = e] =
           Fields(s.orders, s.index, s.active, s.markets, s.limits, s.held, e,
                  s.due, s.ok)
BY DEF OrderStorages, Fields

LEMMA SetDue ==
  ASSUME NEW s \in OrderStorages, NEW e
  PROVE  [s EXCEPT !.due = e] =
           Fields(s.orders, s.index, s.active, s.markets, s.limits, s.held,
                  s.position, e, s.ok)
BY DEF OrderStorages, Fields

LEMMA SetOk ==
  ASSUME NEW s \in OrderStorages, NEW e
  PROVE  [s EXCEPT !.ok = e] =
           Fields(s.orders, s.index, s.active, s.markets, s.limits, s.held,
                  s.position, s.due, e)
BY DEF OrderStorages, Fields

(* A transfer out of the handler. *)
LEMMA TransferOutIs ==
  ASSUME NEW s \in OrderStorages, NEW amount \in Nat
  PROVE  /\ TransferOut(s, amount) =
              Fields(s.orders, s.index, s.active, s.markets, s.limits,
                     s.held - amount, s.position, s.due, s.ok /\ amount <= s.held)
         /\ TransferOut(s, amount) \in OrderStorages
<1> DEFINE paid == [s EXCEPT !.held = @ - amount]
           r == [paid EXCEPT !.ok = @ /\ amount <= s.held]
<1>1. TransferOut(s, amount) = r BY Zenon DEF TransferOut
<1>2. paid = Fields(s.orders, s.index, s.active, s.markets, s.limits,
                    s.held - amount, s.position, s.due, s.ok)
  BY SetHeld
<1> HIDE DEF paid
<1>3. s.held - amount \in Int BY DEF OrderStorages
<1>4. paid \in OrderStorages BY <1>2, <1>3 DEF OrderStorages, Fields
<1>5. r = Fields(paid.orders, paid.index, paid.active, paid.markets, paid.limits,
                 paid.held, paid.position, paid.due, paid.ok /\ amount <= s.held)
  BY <1>4, SetOk
<1> HIDE DEF r
<1>6. r = Fields(s.orders, s.index, s.active, s.markets, s.limits,
                 s.held - amount, s.position, s.due, s.ok /\ amount <= s.held)
  BY <1>2, <1>5 DEF Fields
<1>7. (s.ok /\ amount <= s.held) \in BOOLEAN OBVIOUS
<1>8. r \in OrderStorages BY <1>3, <1>6, <1>7 DEF OrderStorages, Fields
<1> QED BY <1>1, <1>6, <1>8

(* _removeOrder *)
LEMMA RemoveOrderIs ==
  ASSUME NEW s \in OrderStorages, NEW p \in Pointers
  PROVE  /\ RemoveOrder(s, p) =
              Fields([s.orders EXCEPT ![p] = None], s.index, s.active \ {p},
                     IF s.orders[p].market THEN s.markets \ {p} ELSE s.markets,
                     IF s.orders[p].market THEN s.limits ELSE s.limits \ {p},
                     s.held, s.position, s.due, s.ok)
         /\ RemoveOrder(s, p) \in OrderStorages
<1> DEFINE orders == [s.orders EXCEPT ![p] = None]
           markets == IF s.orders[p].market THEN s.markets \ {p} ELSE s.markets
           limits == IF s.orders[p].market THEN s.limits ELSE s.limits \ {p}
           gone == [s EXCEPT !.orders = orders]
           off == [gone EXCEPT !.active = @ \ {p}]
           unlisted == [off EXCEPT !.markets = IF s.orders[p].market THEN @ \ {p} ELSE @]
           r == [unlisted EXCEPT !.limits = IF s.orders[p].market THEN @ ELSE @ \ {p}]
<1>1. RemoveOrder(s, p) = r BY Zenon DEF RemoveOrder
<1>2. /\ orders \in [Pointers -> Orders \cup {None}]
      /\ markets \in SUBSET Pointers /\ limits \in SUBSET Pointers
      /\ s.active \ {p} \in SUBSET Pointers
  BY DEF OrderStorages
<1> HIDE DEF orders
<1>3. gone = Fields(orders, s.index, s.active, s.markets, s.limits, s.held,
                    s.position, s.due, s.ok)
  BY SetOrders
<1> HIDE DEF gone
<1>4. gone \in OrderStorages BY <1>2, <1>3 DEF OrderStorages, Fields
<1>5. off = Fields(orders, s.index, s.active \ {p}, s.markets, s.limits, s.held,
                   s.position, s.due, s.ok)
  BY <1>3, <1>4, SetActive DEF Fields
<1> HIDE DEF off
<1>6. off \in OrderStorages BY <1>2, <1>5 DEF OrderStorages, Fields
<1>7. unlisted = Fields(orders, s.index, s.active \ {p}, markets, s.limits, s.held,
                        s.position, s.due, s.ok)
  BY <1>5, <1>6, SetMarkets DEF Fields
<1> HIDE DEF unlisted
<1>8. unlisted \in OrderStorages BY <1>2, <1>7 DEF OrderStorages, Fields
<1>9. r = Fields(orders, s.index, s.active \ {p}, markets, limits, s.held,
                 s.position, s.due, s.ok)
  BY <1>7, <1>8, SetLimits DEF Fields
<1> HIDE DEF r
<1>10. r \in OrderStorages BY <1>2, <1>9 DEF OrderStorages, Fields
<1> QED BY <1>1, <1>9, <1>10 DEF orders

-----------------------------------------------------------------------------
(* Lists and fees in the middle of a call. *)

FeeFor(s, p) == IF p \in s.active THEN s.orders[p].executionFee ELSE 0

(* The execution fees of the orders that are active. *)
FeesIn(s) == SumOver(Pointers, [p \in Pointers |-> FeeFor(s, p)])

(* The lists agree with the orders, only pointers that were given out are    *)
(* listed, and the fees of what is listed are held, or due at the end of the *)
(* call.                                                                     *)
Listed(s) ==
  /\ s.active = {p \in Pointers : s.orders[p] # None}
  /\ s.markets = {p \in s.active : s.orders[p].market}
  /\ s.limits = s.active \ s.markets
  /\ \A p \in s.active : p[2] < s.index[p[1]]

OrderStage(s) == s \in OrderStorages /\ Listed(s) /\ s.held + s.due = FeesIn(s)

LEMMA PointersFinite == IsFiniteSet(Pointers)
<1>1. IsFiniteSet(0 .. MaxOrders - 1)
  BY LimitOrdersAssumption, FS_Interval
<1> QED BY <1>1, PositionsAssumption, FS_Product DEF Pointers

LEMMA OrderIs ==
  ASSUME NEW s \in OrderStorages, NEW p \in Pointers, s.orders[p] # None
  PROVE  /\ s.orders[p] \in Orders /\ s.orders[p].executionFee \in Nat
         /\ s.orders[p].sizeDelta \in Int /\ s.orders[p].market \in BOOLEAN
         /\ s.orders[p].reduceOnly \in BOOLEAN
<1>1. s.orders[p] \in Orders BY DEF OrderStorages
<1> QED BY <1>1 DEF Orders

(* Where one pointer changes, the fees change by what is for its order.      *)
LEMMA FeesMove ==
  ASSUME NEW s \in OrderStorages, Listed(s), NEW r \in OrderStorages, Listed(r),
         NEW p \in Pointers,
         \A q \in Pointers : q # p => r.orders[q] = s.orders[q]
  PROVE  /\ FeesIn(r) = FeesIn(s) - FeeFor(s, p) + FeeFor(r, p)
         /\ FeesIn(s) \in Int /\ FeesIn(r) \in Int
<1> DEFINE f == [q \in Pointers |-> FeeFor(s, q)]
           h == [q \in Pointers |-> FeeFor(r, q)]
<1>1. f \in [Pointers -> Int] /\ h \in [Pointers -> Int]
  <2>1. \A q \in Pointers : FeeFor(s, q) \in Int /\ FeeFor(r, q) \in Int
    BY OrderIs DEF FeeFor, Listed
  <2> QED BY <2>1
<1>2. \A q \in Pointers : q # p => h[q] = f[q] BY DEF FeeFor, Listed
<1>3. f[p] = FeeFor(s, p) /\ h[p] = FeeFor(r, p) OBVIOUS
<1>4. FeesIn(s) = SumOver(Pointers, f) /\ FeesIn(r) = SumOver(Pointers, h)
  BY DEF FeesIn
<1> HIDE DEF f, h
<1>5. SumOver(Pointers, h) = SumOver(Pointers, f) - f[p] + h[p]
  BY <1>1, <1>2, PointersFinite, SumUpdate
<1>6. SumOver(Pointers, f) \in Int /\ SumOver(Pointers, h) \in Int
  BY <1>1, PointersFinite, SumInt
<1> QED BY <1>3, <1>4, <1>5, <1>6

(* r is s without order p, its fee paid. *)
Removed(s, r, p) ==
  /\ r.orders = [s.orders EXCEPT ![p] = None] /\ r.index = s.index
  /\ r.active = s.active \ {p}
  /\ r.markets = IF s.orders[p].market THEN s.markets \ {p} ELSE s.markets
  /\ r.limits = IF s.orders[p].market THEN s.limits ELSE s.limits \ {p}
  /\ r.held = s.held - s.orders[p].executionFee /\ r.due = s.due

LEMMA RemovedStage ==
  ASSUME NEW s, OrderStage(s), NEW p \in Pointers, s.orders[p] # None,
         NEW r \in OrderStorages, Removed(s, r, p)
  PROVE  OrderStage(r)
<1>1. s \in OrderStorages /\ Listed(s) BY DEF OrderStage
<1>2. /\ r.orders[p] = None
      /\ \A q \in Pointers : q # p => r.orders[q] = s.orders[q]
  BY <1>1 DEF Removed, OrderStorages
<1>3. Listed(r)
  <2>1. r.active = {q \in Pointers : r.orders[q] # None}
    BY <1>1, <1>2 DEF Listed, Removed
  <2>2. r.markets = {q \in r.active : r.orders[q].market}
    BY <1>1, <1>2 DEF Listed, Removed
  <2>3. r.limits = r.active \ r.markets BY <1>1, <1>2 DEF Listed, Removed
  <2>4. \A q \in r.active : q[2] < r.index[q[1]] BY <1>1 DEF Listed, Removed
  <2> QED BY <2>1, <2>2, <2>3, <2>4 DEF Listed
<1>4. FeeFor(s, p) = s.orders[p].executionFee /\ FeeFor(r, p) = 0
  BY <1>1, <1>2, <1>3 DEF FeeFor, Listed
<1>5. /\ FeesIn(r) = FeesIn(s) - FeeFor(s, p) + FeeFor(r, p)
      /\ FeesIn(s) \in Int /\ FeesIn(r) \in Int
  BY <1>1, <1>2, <1>3, FeesMove
<1>6. s.orders[p].executionFee \in Nat BY <1>1, OrderIs
<1>7. s.held \in Int /\ s.due \in Nat BY <1>1 DEF OrderStorages
<1>8. r.held + r.due = FeesIn(r)
  BY <1>4, <1>5, <1>6, <1>7 DEF Removed, OrderStage
<1> QED BY <1>3, <1>8 DEF OrderStage

(* _cancelOrder, which a failed market order goes through as well. *)
LEMMA CancelOrderStage ==
  ASSUME NEW s, OrderStage(s), NEW p \in Pointers, s.orders[p] # None
  PROVE  LET r == CancelOrder(s, p)
         IN  OrderStage(r) /\ Removed(s, r, p) /\ r.position = s.position
<1> DEFINE gone == RemoveOrder(s, p)
           fee == s.orders[p].executionFee
           r == TransferOut(gone, fee)
<1>1. s \in OrderStorages /\ fee \in Nat BY OrderIs DEF OrderStage
<1>2. gone = Fields([s.orders EXCEPT ![p] = None], s.index, s.active \ {p},
                    IF s.orders[p].market THEN s.markets \ {p} ELSE s.markets,
                    IF s.orders[p].market THEN s.limits ELSE s.limits \ {p},
                    s.held, s.position, s.due, s.ok)
  BY <1>1, RemoveOrderIs
<1>3. gone \in OrderStorages BY <1>1, RemoveOrderIs
<1> HIDE DEF gone
<1>4. r = Fields(gone.orders, gone.index, gone.active, gone.markets, gone.limits,
                 gone.held - fee, gone.position, gone.due, gone.ok /\ fee <= gone.held)
  BY <1>1, <1>3, TransferOutIs
<1>5. r \in OrderStorages BY <1>1, <1>3, TransferOutIs
<1> HIDE DEF r
<1>6. /\ gone.orders = [s.orders EXCEPT ![p] = None] /\ gone.index = s.index
      /\ gone.active = s.active \ {p}
      /\ gone.markets = IF s.orders[p].market THEN s.markets \ {p} ELSE s.markets
      /\ gone.limits = IF s.orders[p].market THEN s.limits ELSE s.limits \ {p}
      /\ gone.held = s.held /\ gone.position = s.position /\ gone.due = s.due
  BY <1>2 DEF Fields
<1>7. /\ r.orders = gone.orders /\ r.index = gone.index /\ r.active = gone.active
      /\ r.markets = gone.markets /\ r.limits = gone.limits
      /\ r.held = gone.held - fee /\ r.position = gone.position /\ r.due = gone.due
  BY <1>4 DEF Fields
<1>8. Removed(s, r, p) /\ r.position = s.position BY <1>6, <1>7 DEF Removed
<1>9. OrderStage(r) BY <1>5, <1>8, RemovedStage
<1>10. CancelOrder(s, p) = r BY DEF CancelOrder, r, gone
<1> QED BY <1>8, <1>9, <1>10

(* executeLimitOrder: what becomes of the position, and that it is refused   *)
(* over the limits.                                                          *)
LEMMA ExecuteLimitOrderStage ==
  ASSUME NEW s, OrderStage(s), NEW p \in Pointers, s.orders[p] # None
  PROVE  LET o == s.orders[p]
             a == p[1]
             size == CarryOut(s.position[a], RevisedDelta(o.sizeDelta, s.position[a]),
                              o.reduceOnly)
             r == ExecuteLimitOrder(s, p)
         IN  /\ OrderStage(r) /\ Removed(s, r, p)
             /\ r.position = [s.position EXCEPT ![a] = size] /\ size \in Int
             /\ r.ok => /\ MarketAllows(size)
                        /\ WithinLimits(orderLimit, s.position[a], o.sizeDelta,
                                        o.reduceOnly)
<1> DEFINE o == s.orders[p]
           a == p[1]
           delta == RevisedDelta(o.sizeDelta, s.position[a])
           size == CarryOut(s.position[a], delta, o.reduceOnly)
           fee == o.executionFee
           gone == RemoveOrder(s, p)
           moved == [gone EXCEPT !.position[a] = size]
           ends == TransferOut(moved, fee)
           ok == /\ ends.ok /\ delta # 0 /\ MarketAllows(size)
                 /\ WithinLimits(orderLimit, s.position[a], o.sizeDelta, o.reduceOnly)
           r == [ends EXCEPT !.ok = ok]
<1>1. s \in OrderStorages /\ a \in SubAccounts BY DEF OrderStage, Pointers
<1>2. /\ fee \in Nat /\ o.sizeDelta \in Int /\ o.reduceOnly \in BOOLEAN
      /\ s.position[a] \in Int
  BY <1>1, OrderIs DEF OrderStorages
<1>3. delta \in Int BY <1>2 DEF RevisedDelta, Size
<1> HIDE DEF delta
<1>4. size \in Int BY <1>2, <1>3, CarryOutIs
<1> HIDE DEF size
<1>5. gone = Fields([s.orders EXCEPT ![p] = None], s.index, s.active \ {p},
                    IF s.orders[p].market THEN s.markets \ {p} ELSE s.markets,
                    IF s.orders[p].market THEN s.limits ELSE s.limits \ {p},
                    s.held, s.position, s.due, s.ok)
  BY <1>1, RemoveOrderIs
<1>6. gone \in OrderStorages BY <1>1, RemoveOrderIs
<1> HIDE DEF gone
<1>7. /\ gone.orders = [s.orders EXCEPT ![p] = None] /\ gone.index = s.index
      /\ gone.active = s.active \ {p}
      /\ gone.markets = IF s.orders[p].market THEN s.markets \ {p} ELSE s.markets
      /\ gone.limits = IF s.orders[p].market THEN s.limits ELSE s.limits \ {p}
      /\ gone.held = s.held /\ gone.position = s.position /\ gone.due = s.due
  BY <1>5 DEF Fields
<1>8. moved = Fields(gone.orders, gone.index, gone.active, gone.markets, gone.limits,
                     gone.held, [gone.position EXCEPT ![a] = size], gone.due, gone.ok)
  BY <1>6, SetPosition
<1> HIDE DEF moved
<1>9. moved \in OrderStorages
  BY <1>4, <1>6, <1>8 DEF OrderStorages, Fields
<1>10. ends = Fields(moved.orders, moved.index, moved.active, moved.markets,
                     moved.limits, moved.held - fee, moved.position, moved.due,
                     moved.ok /\ fee <= moved.held)
  BY <1>2, <1>9, TransferOutIs
<1>11. ends \in OrderStorages BY <1>2, <1>9, TransferOutIs
<1> HIDE DEF ends
<1>12. ok \in BOOLEAN OBVIOUS
<1> HIDE DEF ok
<1>13. r = Fields(ends.orders, ends.index, ends.active, ends.markets, ends.limits,
                  ends.held, ends.position, ends.due, ok)
  BY <1>11, SetOk
<1> HIDE DEF r
<1>14. r \in OrderStorages BY <1>11, <1>12, <1>13 DEF OrderStorages, Fields
<1>15. Removed(s, r, p) /\ r.position = [s.position EXCEPT ![a] = size]
  BY <1>7, <1>8, <1>10, <1>13 DEF Fields, Removed
<1>16. OrderStage(r) BY <1>14, <1>15, RemovedStage
<1>17. r.ok = ok BY <1>13 DEF Fields
<1>18. ExecuteLimitOrder(s, p) = r
  BY Zenon DEF ExecuteLimitOrder, r, ok, ends, moved, gone, size, delta
<1>19. r.ok => /\ MarketAllows(size)
               /\ WithinLimits(orderLimit, s.position[a], o.sizeDelta, o.reduceOnly)
  BY <1>17 DEF ok
<1> QED BY <1>4, <1>15, <1>16, <1>18, <1>19 DEF size, delta

-----------------------------------------------------------------------------
(* executeOrders. *)

(* The limits the owner may have set. *)
LimitsInBounds ==
  /\ orderLimit \in LimitTypes /\ orderLimit.position <= MaxPosition
  /\ intentLimit \in LimitTypes /\ intentLimit.position <= MaxPosition

InBounds(positions) == \A a \in SubAccounts : Size(positions[a]) <= MaxPosition

(* Since the call began orders were only removed.  If those of a that were   *)
(* removed are all reduce-only, its position has only shrunk; if it has not, *)
(* it is within the limit.                                                   *)
Executed(s) ==
  /\ \A p \in Pointers : s.orders[p] \in {limitOrders[p], None}
  /\ InBounds(s.position)
  /\ \A a \in SubAccounts :
        \/ Shrinks(position[a], s.position[a])
        \/ \E p \in Pointers : /\ p[1] = a /\ limitOrders[p] # None /\ s.orders[p] = None
                               /\ ~limitOrders[p].reduceOnly
  /\ \A a \in SubAccounts :
        \/ Shrinks(position[a], s.position[a])
        \/ orderLimit.position > 0 => Size(s.position[a]) <= orderLimit.position

(* An order that was let through leaves a position that is smaller, or       *)
(* within the market's maximum and the handler's limit.                      *)
LEMMA LetThrough ==
  ASSUME LimitsInBounds, NEW x \in Int, Size(x) <= MaxPosition, NEW o \in Orders,
         NEW size, size = CarryOut(x, RevisedDelta(o.sizeDelta, x), o.reduceOnly),
         WithinLimits(orderLimit, x, o.sizeDelta, o.reduceOnly)
  PROVE  /\ o.reduceOnly => Shrinks(x, size)
         /\ ~o.reduceOnly /\ orderLimit.position > 0 => Size(size) <= orderLimit.position
<1> DEFINE delta == RevisedDelta(o.sizeDelta, x)
<1>1. /\ o.sizeDelta \in Int /\ o.reduceOnly \in BOOLEAN BY DEF Orders
<1>2. delta \in Int BY <1>1 DEF RevisedDelta, Size
<1>3. /\ o.reduceOnly => Shrinks(x, size)
      /\ ~o.reduceOnly => size = x + delta
  BY <1>1, <1>2, CarryOutIs
<1>4. ASSUME ~o.reduceOnly, orderLimit.position > 0
      PROVE  Size(size) <= orderLimit.position
  <2>1. Size(x + o.sizeDelta) <= orderLimit.position
    BY <1>4 DEF WithinLimits
  <2>2. /\ AllOf \in Nat /\ AllOf > 2 * MaxPosition /\ MaxPosition \in Nat
        /\ orderLimit.position \in Nat /\ orderLimit.position <= MaxPosition
    BY LimitOrdersAssumption, PositionsAssumption DEF LimitsInBounds, LimitTypes
  <2>3. o.sizeDelta # AllOf /\ o.sizeDelta # -AllOf
    BY <1>1, <2>1, <2>2 DEF Size
  <2>4. delta = o.sizeDelta BY <2>3 DEF RevisedDelta
  <2> HIDE DEF delta
  <2> QED BY <1>3, <1>4, <2>1, <2>4
<1> QED BY <1>3, <1>4

(* A position that shrinks stays in bounds and within limits. *)
LEMMA ShrinksWithin ==
  ASSUME NEW x \in Int, NEW y \in Int, NEW limit \in Nat, Shrinks(x, y), Size(x) <= limit
  PROVE  Size(y) <= limit
BY DEF Shrinks, Size

(* One turn of executeOrders. *)
LEMMA ExecuteOrderStage ==
  ASSUME LimitsInBounds, NEW s, OrderStage(s), Executed(s), NEW call \in Calls,
         position \in [SubAccounts -> Int]
  PROVE  LET r == ExecuteOrder(s, call)
         IN  OrderStage(r) /\ Executed(r) /\ r.due = s.due
<1> DEFINE p == call.pointer
           a == p[1]
           o == s.orders[p]
           tried == ExecuteLimitOrder(s, p)
           r == ExecuteOrder(s, call)
<1>1. s \in OrderStorages /\ p \in Pointers /\ a \in SubAccounts
  BY DEF OrderStage, Calls, Pointers
<1>2. r = IF o = None THEN Revert(s)
          ELSE IF o.market /\ call.outcome = "stale" THEN CancelOrder(s, p)
          ELSE IF call.outcome = "accepted" /\ tried.ok THEN tried
          ELSE IF o.market THEN CancelOrder(s, p) ELSE s
  BY DEF ExecuteOrder, HandleOrderFail, CancelOrder
<1> HIDE DEF tried, r
<1>3. ASSUME o = None, r = Revert(s) PROVE OrderStage(r) /\ Executed(r) /\ r.due = s.due
  <2>1. r = Fields(s.orders, s.index, s.active, s.markets, s.limits, s.held, s.position,
                   s.due, FALSE)
    BY <1>1, <1>3, SetOk DEF Revert
  <2>2. r \in OrderStorages BY <1>1, <2>1 DEF OrderStorages, Fields
  <2>3. /\ r.orders = s.orders /\ r.active = s.active /\ r.markets = s.markets
        /\ r.limits = s.limits /\ r.index = s.index /\ r.position = s.position
        /\ r.held = s.held /\ r.due = s.due
    BY <2>1 DEF Fields
  <2>4. FeesIn(r) = FeesIn(s) BY <2>3 DEF FeesIn, FeeFor
  <2>5. OrderStage(r) BY <2>2, <2>3, <2>4 DEF OrderStage, Listed
  <2> QED BY <2>3, <2>5 DEF Executed
<1>4. ASSUME o # None, r = CancelOrder(s, p)
      PROVE  OrderStage(r) /\ Executed(r) /\ r.due = s.due
  <2>1. OrderStage(r) /\ Removed(s, r, p) /\ r.position = s.position
    BY <1>1, <1>4, CancelOrderStage
  <2>2. /\ \A q \in Pointers : r.orders[q] \in {s.orders[q], None}
        /\ \A q \in Pointers : s.orders[q] = None => r.orders[q] = None
    BY <1>1, <2>1 DEF Removed, OrderStorages
  <2> QED BY <2>1, <2>2 DEF Executed, Removed
<1>5. ASSUME o # None, r = tried, tried.ok
      PROVE  OrderStage(r) /\ Executed(r) /\ r.due = s.due
  <2> DEFINE x == s.position[a]
             size == CarryOut(x, RevisedDelta(o.sizeDelta, x), o.reduceOnly)
  <2>1. /\ OrderStage(r) /\ Removed(s, r, p)
        /\ r.position = [s.position EXCEPT ![a] = size] /\ size \in Int
        /\ MarketAllows(size) /\ WithinLimits(orderLimit, x, o.sizeDelta, o.reduceOnly)
    BY <1>1, <1>5, ExecuteLimitOrderStage DEF tried
  <2>2. /\ \A q \in Pointers : r.orders[q] \in {s.orders[q], None}
        /\ \A q \in Pointers : s.orders[q] = None => r.orders[q] = None
        /\ r.orders[p] = None
    BY <1>1, <2>1 DEF Removed, OrderStorages
  <2>3. o = limitOrders[p] /\ o \in Orders /\ x \in Int /\ Size(x) <= MaxPosition
    BY <1>1, <1>5, OrderIs DEF Executed, OrderStorages, InBounds
  <2>4. /\ o.reduceOnly => Shrinks(x, size)
        /\ ~o.reduceOnly /\ orderLimit.position > 0 => Size(size) <= orderLimit.position
    BY <2>1, <2>3, LetThrough
  <2> HIDE DEF size
  <2>5. /\ r.position[a] = size
        /\ \A b \in SubAccounts : b # a => r.position[b] = s.position[b]
    BY <1>1, <2>1 DEF OrderStorages
  <2>6. \A q \in Pointers : r.orders[q] \in {limitOrders[q], None}
    BY <2>2 DEF Executed
  <2>7. InBounds(r.position)
    BY <2>1, <2>5 DEF Executed, InBounds, MarketAllows
  <2>8. ASSUME NEW b \in SubAccounts
        PROVE  \/ Shrinks(position[b], r.position[b])
               \/ \E q \in Pointers : /\ q[1] = b /\ limitOrders[q] # None
                                      /\ r.orders[q] = None /\ ~limitOrders[q].reduceOnly
    <3>1. CASE \E q \in Pointers : /\ q[1] = b /\ limitOrders[q] # None
                                   /\ s.orders[q] = None /\ ~limitOrders[q].reduceOnly
      BY <2>2, <3>1
    <3>2. CASE Shrinks(position[b], s.position[b]) /\ b # a
      BY <2>5, <3>2
    <3>3. CASE Shrinks(position[b], s.position[b]) /\ b = a /\ o.reduceOnly
      <4>1. Shrinks(position[a], x) /\ Shrinks(x, size) /\ position[a] \in Int
        BY <1>1, <2>4, <3>3
      <4> QED BY <2>1, <2>3, <2>5, <3>3, <4>1, ShrinksTwice
    <3>4. CASE b = a /\ ~o.reduceOnly
      BY <1>1, <1>5, <2>2, <2>3, <3>4
    <3> QED BY <3>1, <3>2, <3>3, <3>4 DEF Executed
  <2>9. ASSUME NEW b \in SubAccounts
        PROVE  \/ Shrinks(position[b], r.position[b])
               \/ orderLimit.position > 0 => Size(r.position[b]) <= orderLimit.position
    <3>1. CASE b # a BY <2>5, <3>1 DEF Executed
    <3>2. CASE b = a /\ ~o.reduceOnly BY <2>4, <2>5, <3>2
    <3>3. CASE b = a /\ o.reduceOnly /\ Shrinks(position[b], s.position[b])
      <4>1. Shrinks(position[a], x) /\ Shrinks(x, size) /\ position[a] \in Int
        BY <1>1, <2>4, <3>3
      <4> QED BY <2>1, <2>3, <2>5, <3>3, <4>1, ShrinksTwice
    <3>4. CASE /\ b = a /\ o.reduceOnly
               /\ orderLimit.position > 0 => Size(x) <= orderLimit.position
      <4>1. orderLimit.position \in Nat BY DEF LimitsInBounds, LimitTypes
      <4> QED BY <2>1, <2>3, <2>4, <2>5, <3>4, <4>1, ShrinksWithin
    <3> QED BY <3>1, <3>2, <3>3, <3>4 DEF Executed
  <2>10. r.due = s.due BY <2>1 DEF Removed
  <2> QED BY <2>1, <2>6, <2>7, <2>8, <2>9, <2>10 DEF Executed
<1> QED BY <1>2, <1>3, <1>4, <1>5 DEF r

(* The lists that a call may bring. *)
LEMMA ListIs ==
  ASSUME NEW T, NEW m \in Nat, NEW list \in SeqOf(T, m)
  PROVE  Len(list) \in Nat /\ \A i \in 1 .. Len(list) : list[i] \in T
<1>1. PICK n \in 0 .. m : list \in [1 .. n -> T]
  BY DEF SeqOf
<1>2. n \in Nat /\ list \in Seq(T) BY <1>1, SeqDef
<1> QED BY <1>1, <1>2, LenProperties

(* executeOrders ends at a stage whatever the calls. *)
LEMMA ExecuteOrdersLoop ==
  ASSUME LimitsInBounds, position \in [SubAccounts -> Int],
         OrderStage(Storage), Executed(Storage), NEW calls \in SeqOf(Calls, MaxBatch)
  PROVE  LET end == Through(calls, ExecuteOrder, Storage)
         IN  OrderStage(end) /\ Executed(end) /\ end.due = 0
<1> DEFINE S == {s \in OrderStorages : OrderStage(s) /\ Executed(s) /\ s.due = 0}
           n == Len(calls)
           Leg(s, i) == ExecuteOrder(s, calls[i])
           step == [x \in S \X (1 .. n) |-> Leg(x[1], x[2])]
           Body(g) == [i \in 0 .. n |-> IF i = 0 THEN Storage ELSE Leg(g[i - 1], i)]
           after == CHOOSE g : g = Body(g)
<1>1. n \in Nat /\ \A i \in 1 .. n : calls[i] \in Calls
  BY ListIs, LimitOrdersAssumption
<1>2. Storage \in S
  <2>1. Storage.due = 0 BY DEF Storage
  <2> QED BY <2>1 DEF OrderStage
<1>3. \A s \in S, i \in 1 .. n : Leg(s, i) \in S
  BY <1>1, ExecuteOrderStage DEF OrderStage
<1>4. Through(calls, ExecuteOrder, Storage) = after[n]
  BY DEF Through
<1> HIDE DEF S, n, Leg
<1>5. step \in [S \X (1 .. n) -> S]
  BY <1>3
<1>6. PICK f \in [0 .. n -> S] : IsRun(f, n, Storage, step)
  <2> HIDE DEF step
  <2> QED BY <1>1, <1>2, <1>5, RunExists
<1>7. f = Body(f)
  <2>1. f = [i \in 0 .. n |-> IF i = 0 THEN Storage ELSE step[<<f[i - 1], i>>]]
    BY <1>6 DEF IsRun
  <2>2. ASSUME NEW i \in 0 .. n, i # 0
        PROVE  step[<<f[i - 1], i>>] = Leg(f[i - 1], i)
    <3>1. <<f[i - 1], i>> \in S \X (1 .. n) BY <1>1, <2>2
    <3> QED BY <3>1
  <2> HIDE DEF step
  <2> QED BY <2>1, <2>2
<1>8. after = Body(after)
  <2> HIDE DEF Body
  <2> QED BY <1>7
<1> HIDE DEF after
<1>9. after[0] = Storage /\ \A i \in 1 .. n : after[i] = Leg(after[i - 1], i)
  BY <1>1, <1>8
<1> HIDE DEF Body
<1>10. after[n] \in S
  <2>1. \A i \in 1 .. n : after[i - 1] \in S => after[i] \in S
    BY <1>1, <1>3, <1>9
  <2> QED BY <1>1, <1>2, <1>9, <2>1, RunInvariant
<1> QED BY <1>4, <1>10 DEF S

-----------------------------------------------------------------------------
(* batch. *)

(* A call that reverts leaves a stage. *)
LEMMA RevertStage ==
  ASSUME NEW s, OrderStage(s)
  PROVE  OrderStage(Revert(s)) /\ Revert(s).position = s.position
<1> DEFINE r == Revert(s)
<1>1. s \in OrderStorages BY DEF OrderStage
<1>2. r = Fields(s.orders, s.index, s.active, s.markets, s.limits, s.held, s.position,
                 s.due, FALSE)
  BY <1>1, SetOk DEF Revert
<1> HIDE DEF r
<1>3. r \in OrderStorages BY <1>1, <1>2 DEF OrderStorages, Fields
<1>4. /\ r.orders = s.orders /\ r.active = s.active /\ r.markets = s.markets
      /\ r.limits = s.limits /\ r.index = s.index /\ r.position = s.position
      /\ r.held = s.held /\ r.due = s.due
  BY <1>2 DEF Fields
<1>5. FeesIn(r) = FeesIn(s) BY <1>4 DEF FeesIn, FeeFor
<1>6. OrderStage(r) BY <1>3, <1>4, <1>5 DEF OrderStage, Listed
<1> QED BY <1>4, <1>6 DEF r

(* _createOrder lists the order under a pointer never given out, and its fee *)
(* is due.                                                                   *)
LEMMA CreateOrderStage ==
  ASSUME NEW s, OrderStage(s), NEW a \in SubAccounts, s.index[a] < MaxOrders,
         NEW o \in OrderRequests
  PROVE  OrderStage(CreateOrder(s, a, o)) /\ CreateOrder(s, a, o).position = s.position
<1> DEFINE p == <<a, s.index[a]>>
           index == [s.index EXCEPT ![a] = @ + 1]
           orders == [s.orders EXCEPT ![p] = o]
           active == s.active \cup {p}
           markets == IF o.market THEN s.markets \cup {p} ELSE s.markets
           limits == IF o.market THEN s.limits ELSE s.limits \cup {p}
           q1 == [s EXCEPT !.index[a] = @ + 1]
           q2 == [q1 EXCEPT !.orders[p] = o]
           q3 == [q2 EXCEPT !.active = @ \cup {p}]
           q4 == [q3 EXCEPT !.markets = IF o.market THEN @ \cup {p} ELSE @]
           q5 == [q4 EXCEPT !.limits = IF o.market THEN @ ELSE @ \cup {p}]
           r == [q5 EXCEPT !.due = @ + o.executionFee]
<1>1. s \in OrderStorages /\ Listed(s) BY DEF OrderStage
<1>2. /\ o \in Orders /\ o # None /\ o.market \in BOOLEAN /\ o.executionFee \in Nat
      /\ MaxOrders \in Nat
  BY LimitOrdersAssumption DEF Orders
<1>3. s.index[a] \in 0 .. MaxOrders - 1 BY <1>1, <1>2 DEF OrderStorages
<1>4. p \in Pointers BY <1>3 DEF Pointers
<1>5. p \notin s.active /\ s.orders[p] = None
  BY <1>3, <1>4, <1>1 DEF Listed
<1>6. index \in [SubAccounts -> 0 .. MaxOrders] BY <1>1, <1>2, <1>3 DEF OrderStorages
<1>7. orders \in [Pointers -> Orders \cup {None}] BY <1>1, <1>2 DEF OrderStorages
<1>8. active \in SUBSET Pointers /\ markets \in SUBSET Pointers /\ limits \in SUBSET Pointers
  BY <1>1, <1>4 DEF OrderStorages
<1>9. s.due + o.executionFee \in Nat BY <1>1, <1>2 DEF OrderStorages
<1>10. WithinLimits(orderLimit, s.position[a], o.sizeDelta, o.reduceOnly)
         => CreateOrder(s, a, o) = r
  BY Zenon DEF CreateOrder
<1>11. ~WithinLimits(orderLimit, s.position[a], o.sizeDelta, o.reduceOnly)
         => CreateOrder(s, a, o) = Revert(s)
  BY Zenon DEF CreateOrder
<1> HIDE DEF index, orders
<1>12. q1 = Fields(s.orders, index, s.active, s.markets, s.limits, s.held, s.position,
                   s.due, s.ok)
  BY <1>1, SetIndex DEF index
<1> HIDE DEF q1
<1>13. q1 \in OrderStorages BY <1>1, <1>6, <1>12 DEF OrderStorages, Fields
<1>14. q1.orders = s.orders BY <1>12 DEF Fields
<1>15. q2 = Fields([q1.orders EXCEPT ![p] = o], q1.index, q1.active, q1.markets,
                   q1.limits, q1.held, q1.position, q1.due, q1.ok)
  BY <1>13, SetOrders
<1> HIDE DEF q2
<1>16. q2 = Fields(orders, index, s.active, s.markets, s.limits, s.held, s.position,
                   s.due, s.ok)
  BY <1>12, <1>14, <1>15 DEF Fields, orders
<1>17. q2 \in OrderStorages BY <1>1, <1>6, <1>7, <1>16 DEF OrderStorages, Fields
<1> HIDE DEF active, markets, limits
<1>18. q3 = Fields(orders, index, active, s.markets, s.limits, s.held, s.position,
                   s.due, s.ok)
  BY <1>16, <1>17, SetActive DEF Fields, active
<1> HIDE DEF q3
<1>19. q3 \in OrderStorages BY <1>1, <1>6, <1>7, <1>8, <1>18 DEF OrderStorages, Fields
<1>20. q4 = Fields(orders, index, active, markets, s.limits, s.held, s.position,
                   s.due, s.ok)
  BY <1>18, <1>19, SetMarkets DEF Fields, markets
<1> HIDE DEF q4
<1>21. q4 \in OrderStorages BY <1>1, <1>6, <1>7, <1>8, <1>20 DEF OrderStorages, Fields
<1>22. q5 = Fields(orders, index, active, markets, limits, s.held, s.position,
                   s.due, s.ok)
  BY <1>20, <1>21, SetLimits DEF Fields, limits
<1> HIDE DEF q5
<1>23. q5 \in OrderStorages BY <1>1, <1>6, <1>7, <1>8, <1>22 DEF OrderStorages, Fields
<1>24. r = Fields(orders, index, active, markets, limits, s.held, s.position,
                  s.due + o.executionFee, s.ok)
  BY <1>22, <1>23, SetDue DEF Fields
<1> HIDE DEF r
<1>25. r \in OrderStorages
  BY <1>1, <1>6, <1>7, <1>8, <1>9, <1>24 DEF OrderStorages, Fields
<1>26. /\ r.orders = orders /\ r.index = index /\ r.active = active
       /\ r.markets = markets /\ r.limits = limits /\ r.held = s.held
       /\ r.position = s.position /\ r.due = s.due + o.executionFee
  BY <1>24 DEF Fields
<1>27. orders[p] = o /\ \A q \in Pointers : q # p => orders[q] = s.orders[q]
  BY <1>1, <1>4 DEF OrderStorages, orders
<1>28. Listed(r)
  <2>1. active = {q \in Pointers : orders[q] # None}
    BY <1>1, <1>2, <1>4, <1>27 DEF Listed, active
  <2>2. markets = {q \in active : orders[q].market}
    BY <1>1, <1>2, <1>4, <1>5, <1>27 DEF Listed, active, markets
  <2>3. limits = active \ markets
    BY <1>1, <1>2, <1>4, <1>5, <1>27 DEF Listed, active, markets, limits
  <2>4. ASSUME NEW q \in active PROVE q[2] < index[q[1]]
    <3>1. q[1] \in SubAccounts /\ q[2] \in Int
      BY <1>1, <1>4, <2>4 DEF active, Pointers, OrderStorages
    <3>2. s.index \in [SubAccounts -> 0 .. MaxOrders] BY <1>1 DEF OrderStorages
    <3>3. CASE q \in s.active
      <4>1. q[2] < s.index[q[1]] BY <1>1, <3>3 DEF Listed
      <4> QED BY <1>2, <3>1, <3>2, <4>1 DEF index
    <3>4. CASE q = p BY <1>3, <3>2, <3>4 DEF index
    <3> QED BY <2>4, <3>3, <3>4 DEF active
  <2> QED BY <1>26, <2>1, <2>2, <2>3, <2>4 DEF Listed
<1>29. FeeFor(s, p) = 0 /\ FeeFor(r, p) = o.executionFee
  BY <1>5, <1>26, <1>27 DEF FeeFor, active
<1>30. /\ FeesIn(r) = FeesIn(s) - FeeFor(s, p) + FeeFor(r, p)
       /\ FeesIn(s) \in Int /\ FeesIn(r) \in Int
  BY <1>1, <1>4, <1>25, <1>26, <1>27, <1>28, FeesMove
<1>31. r.held + r.due = FeesIn(r)
  <2>1. s.held \in Int /\ s.due \in Nat /\ s.held + s.due = FeesIn(s)
    BY <1>1 DEF OrderStorages, OrderStage
  <2> QED BY <1>2, <1>26, <1>29, <1>30, <2>1
<1>32. OrderStage(r) BY <1>25, <1>28, <1>31 DEF OrderStage
<1> QED BY <1>10, <1>11, <1>26, <1>32, RevertStage

(* _updateOrder keeps the fee, and the list the order is on. *)
LEMMA UpdateOrderStage ==
  ASSUME NEW s, OrderStage(s), NEW p \in Pointers, NEW request \in OrderRequests
  PROVE  /\ OrderStage(UpdateOrder(s, p, request))
         /\ UpdateOrder(s, p, request).position = s.position
<1> DEFINE o == s.orders[p]
           updated == [request EXCEPT !.executionFee = o.executionFee]
           r == [s EXCEPT !.orders[p] = updated]
<1>1. s \in OrderStorages /\ Listed(s) BY DEF OrderStage
<1>2. \/ UpdateOrder(s, p, request) = Revert(s)
      \/ /\ UpdateOrder(s, p, request) = r
         /\ o # None /\ ~o.market /\ ~request.market
  BY Zenon DEF UpdateOrder
<1>3. ASSUME o # None, ~o.market, ~request.market
      PROVE  OrderStage(r) /\ r.position = s.position
  <2>1. o \in Orders /\ o.executionFee \in Nat BY <1>1, <1>3, OrderIs
  <2>2. request \in Orders BY LimitOrdersAssumption
  <2>3. /\ updated \in Orders /\ ~updated.market
        /\ updated.executionFee = o.executionFee
    BY <1>3, <2>1, <2>2 DEF Orders
  <2>4. updated # None BY <2>3, LimitOrdersAssumption
  <2> HIDE DEF updated
  <2>5. r = Fields([s.orders EXCEPT ![p] = updated], s.index, s.active, s.markets,
                   s.limits, s.held, s.position, s.due, s.ok)
    BY <1>1, SetOrders
  <2> HIDE DEF r
  <2>6. r \in OrderStorages BY <1>1, <2>3, <2>5 DEF OrderStorages, Fields
  <2>7. /\ r.orders = [s.orders EXCEPT ![p] = updated] /\ r.index = s.index
        /\ r.active = s.active /\ r.markets = s.markets /\ r.limits = s.limits
        /\ r.held = s.held /\ r.position = s.position /\ r.due = s.due
    BY <2>5 DEF Fields
  <2>8. r.orders[p] = updated /\ \A q \in Pointers : q # p => r.orders[q] = s.orders[q]
    BY <1>1, <2>7 DEF OrderStorages
  <2>9. p \in s.active BY <1>1, <1>3 DEF Listed
  <2>10. Listed(r)
    <3>1. r.active = {q \in Pointers : r.orders[q] # None}
      BY <1>1, <1>3, <2>4, <2>7, <2>8 DEF Listed
    <3>2. r.markets = {q \in r.active : r.orders[q].market}
      BY <1>1, <1>3, <2>3, <2>7, <2>8 DEF Listed
    <3> QED BY <1>1, <2>7, <3>1, <3>2 DEF Listed
  <2>11. FeeFor(r, p) = FeeFor(s, p) BY <2>3, <2>7, <2>8, <2>9 DEF FeeFor
  <2>12. /\ FeesIn(r) = FeesIn(s) - FeeFor(s, p) + FeeFor(r, p) /\ FeesIn(s) \in Int
    BY <1>1, <2>6, <2>8, <2>10, FeesMove
  <2>13. FeeFor(s, p) \in Int BY <2>1, <2>9 DEF FeeFor
  <2>14. r.held + r.due = FeesIn(r) BY <2>7, <2>11, <2>12, <2>13 DEF OrderStage
  <2> QED BY <2>6, <2>7, <2>10, <2>14 DEF OrderStage
<1> QED BY <1>2, <1>3, RevertStage

(* A command of a batch leaves a stage, and every position as it is. *)
LEMMA CommandStage ==
  ASSUME NEW s, OrderStage(s), NEW a \in SubAccounts, NEW c \in Commands
  PROVE  OrderStage(Command(s, a, c)) /\ Command(s, a, c).position = s.position
<1>1. CASE c \in [command : {"create"}, request : OrderRequests]
  <2>1. Command(s, a, c) = IF s.index[a] < MaxOrders THEN CreateOrder(s, a, c.request)
                           ELSE Revert(s)
    BY <1>1 DEF Command
  <2> QED BY <1>1, <2>1, CreateOrderStage, RevertStage
<1>2. CASE c \in [command : {"update"}, index : 0 .. MaxOrders - 1,
                  request : OrderRequests]
  <2>1. Command(s, a, c) = UpdateOrder(s, <<a, c.index>>, c.request)
    BY <1>2 DEF Command
  <2>2. <<a, c.index>> \in Pointers /\ c.request \in OrderRequests
    BY <1>2 DEF Pointers
  <2> QED BY <2>1, <2>2, UpdateOrderStage
<1>3. CASE c \in [command : {"cancel"}, index : 0 .. MaxOrders - 1]
  <2> DEFINE p == <<a, c.index>>
  <2>1. Command(s, a, c) = IF s.orders[p] = None THEN Revert(s) ELSE CancelOrder(s, p)
    BY <1>3 DEF Command
  <2>2. p \in Pointers BY <1>3 DEF Pointers
  <2> QED BY <2>1, <2>2, CancelOrderStage, RevertStage
<1> QED BY <1>1, <1>2, <1>3 DEF Commands

(* batch ends at a stage whatever the commands. *)
LEMMA BatchLoop ==
  ASSUME OrderStage(Storage), NEW a \in SubAccounts,
         NEW commands \in SeqOf(Commands, MaxBatch)
  PROVE  LET Run(s, c) == Command(s, a, c)
             end == Through(commands, Run, Storage)
         IN  OrderStage(end) /\ end.position = position
<1> DEFINE S == {s \in OrderStorages : OrderStage(s) /\ s.position = position}
           n == Len(commands)
           Leg(s, i) == Command(s, a, commands[i])
           step == [x \in S \X (1 .. n) |-> Leg(x[1], x[2])]
           Body(g) == [i \in 0 .. n |-> IF i = 0 THEN Storage ELSE Leg(g[i - 1], i)]
           after == CHOOSE g : g = Body(g)
           Run(s, c) == Command(s, a, c)
<1>1. n \in Nat /\ \A i \in 1 .. n : commands[i] \in Commands
  BY ListIs, LimitOrdersAssumption
<1>2. Storage \in S
  <2>1. Storage.position = position BY DEF Storage
  <2> QED BY <2>1 DEF OrderStage
<1>3. \A s \in S, i \in 1 .. n : Leg(s, i) \in S
  BY <1>1, CommandStage DEF OrderStage
<1>4. Through(commands, Run, Storage) = after[n]
  BY DEF Through
<1> HIDE DEF S, n, Leg
<1>5. step \in [S \X (1 .. n) -> S]
  BY <1>3
<1>6. PICK f \in [0 .. n -> S] : IsRun(f, n, Storage, step)
  <2> HIDE DEF step
  <2> QED BY <1>1, <1>2, <1>5, RunExists
<1>7. f = Body(f)
  <2>1. f = [i \in 0 .. n |-> IF i = 0 THEN Storage ELSE step[<<f[i - 1], i>>]]
    BY <1>6 DEF IsRun
  <2>2. ASSUME NEW i \in 0 .. n, i # 0
        PROVE  step[<<f[i - 1], i>>] = Leg(f[i - 1], i)
    <3>1. <<f[i - 1], i>> \in S \X (1 .. n) BY <1>1, <2>2
    <3> QED BY <3>1
  <2> HIDE DEF step
  <2> QED BY <2>1, <2>2
<1>8. after = Body(after)
  <2> HIDE DEF Body
  <2> QED BY <1>7
<1> HIDE DEF after
<1>9. after[0] = Storage /\ \A i \in 1 .. n : after[i] = Leg(after[i - 1], i)
  BY <1>1, <1>8
<1> HIDE DEF Body
<1>10. after[n] \in S
  <2>1. \A i \in 1 .. n : after[i - 1] \in S => after[i] \in S
    BY <1>1, <1>3, <1>9
  <2> QED BY <1>1, <1>2, <1>9, <2>1, RunInvariant
<1> QED BY <1>4, <1>10 DEF S

-----------------------------------------------------------------------------
(* execute. *)

IntentStorages ==
  [executed : SUBSET Keys, filled : [Keys -> Nat],
   charged : [Keys -> Nat], position : [SubAccounts -> Int]]

IntentFields(e, f, c, n) ==
  [executed |-> e, filled |-> f, charged |-> c, position |-> n]

LEMMA SetExecuted ==
  ASSUME NEW s \in IntentStorages, NEW e
  PROVE  [s EXCEPT !.executed = e] = IntentFields(e, s.filled, s.charged, s.position)
BY DEF IntentStorages, IntentFields

LEMMA SetFilled ==
  ASSUME NEW s \in IntentStorages, NEW e
  PROVE  [s EXCEPT !.filled = e] = IntentFields(s.executed, e, s.charged, s.position)
BY DEF IntentStorages, IntentFields

LEMMA SetCharged ==
  ASSUME NEW s \in IntentStorages, NEW e
  PROVE  [s EXCEPT !.charged = e] = IntentFields(s.executed, s.filled, e, s.position)
BY DEF IntentStorages, IntentFields

LEMMA SetIntentPosition ==
  ASSUME NEW s \in IntentStorages, NEW e
  PROVE  [s EXCEPT !.position = e] = IntentFields(s.executed, s.filled, s.charged, e)
BY DEF IntentStorages, IntentFields

(* What was filled is used up, and so is a market intent that was charged    *)
(* for; no intent was filled twice, nor a market intent charged for twice.   *)
Once(s) ==
  \A k \in Keys :
    /\ s.filled[k] <= 1 /\ (s.filled[k] = 1 => k \in s.executed)
    /\ k.intent.market => s.charged[k] <= 1 /\ (s.charged[k] = 1 => k \in s.executed)

IntentStage(s) == s \in IntentStorages /\ Once(s)

(* Since the call began intents were only used up.  If those of a that were  *)
(* are all reduce-only, its position has only shrunk; if it has not, it is   *)
(* within the limit.                                                         *)
Spent(s) ==
  /\ executedIntents \subseteq s.executed
  /\ InBounds(s.position)
  /\ \A a \in SubAccounts :
        \/ Shrinks(position[a], s.position[a])
        \/ \E k \in s.executed \ executedIntents :
             k.intent.account = a /\ ~k.intent.reduceOnly
  /\ \A a \in SubAccounts :
        \/ Shrinks(position[a], s.position[a])
        \/ intentLimit.position > 0 => Size(s.position[a]) <= intentLimit.position

(* The fee of an intent is collected, or not. *)
LEMMA CollectFeeIs ==
  ASSUME NEW s \in IntentStorages, NEW call \in IntentCalls
  PROVE  LET r == CollectFee(s, call)
             k == call.key
         IN  /\ r \in IntentStorages
             /\ r.executed = s.executed /\ r.filled = s.filled /\ r.position = s.position
             /\ r.charged \in {s.charged, [s.charged EXCEPT ![k] = @ + 1]}
<1> DEFINE k == call.key
           charged1 == [s.charged EXCEPT ![k] = @ + 1]
           r == [s EXCEPT !.charged = charged1]
<1>1. k \in Keys BY DEF IntentCalls
<1>2. CollectFee(s, call) = IF call.outcome = "uncollected" THEN s ELSE r
  BY Zenon DEF CollectFee
<1>3. charged1 \in [Keys -> Nat] BY <1>1 DEF IntentStorages
<1>4. r = IntentFields(s.executed, s.filled, charged1, s.position)
  BY SetCharged
<1> HIDE DEF charged1
<1> HIDE DEF r
<1>5. r \in IntentStorages BY <1>3, <1>4 DEF IntentStorages, IntentFields
<1>6. /\ r.executed = s.executed /\ r.filled = s.filled /\ r.position = s.position
      /\ r.charged = charged1
  BY <1>4 DEF IntentFields
<1> QED BY <1>2, <1>5, <1>6 DEF charged1

(* r is s with intent k used up, and charged for or not. *)
Marks(s, r, k) ==
  /\ k \notin s.executed /\ r.executed = s.executed \cup {k}
  /\ r.charged \in {s.charged, [s.charged EXCEPT ![k] = @ + 1]}

(* What becomes of an intent in execute: it is skipped; used up; carried     *)
(* out; or, a limit order, charged for at most.                              *)
LEMMA ExecuteIntentIs ==
  ASSUME NEW s \in IntentStorages, NEW call \in IntentCalls
  PROVE  LET k == call.key
             a == k.intent.account
             size == CarryOut(s.position[a], k.intent.sizeDelta, k.intent.reduceOnly)
             r == ExecuteIntent(s, call)
         IN  /\ r \in IntentStorages
             /\ \/ r = s
                \/ Marks(s, r, k) /\ r.filled = s.filled /\ r.position = s.position
                \/ /\ Marks(s, r, k) /\ r.filled = [s.filled EXCEPT ![k] = @ + 1]
                   /\ r.position = [s.position EXCEPT ![a] = size] /\ MarketAllows(size)
                   /\ WithinLimits(intentLimit, s.position[a], k.intent.sizeDelta,
                                   k.intent.reduceOnly)
                \/ /\ ~k.intent.market /\ r.executed = s.executed /\ r.filled = s.filled
                   /\ r.position = s.position
                   /\ r.charged \in {s.charged, [s.charged EXCEPT ![k] = @ + 1]}
<1> DEFINE k == call.key
           a == k.intent.account
           size == CarryOut(s.position[a], k.intent.sizeDelta, k.intent.reduceOnly)
           done == call.outcome # "refused" /\ MarketAllows(size)
           marked == [s EXCEPT !.executed = @ \cup {k}]
           counted == [marked EXCEPT !.filled[k] = @ + 1]
           filledIn == [counted EXCEPT !.position[a] = size]
           r == ExecuteIntent(s, call)
<1>1. /\ k \in Keys /\ a \in SubAccounts /\ k.intent.sizeDelta \in Int
      /\ k.intent.reduceOnly \in BOOLEAN /\ k.intent.market \in BOOLEAN
  BY IntentsAssumption DEF IntentCalls
<1>2. size \in Int BY <1>1, CarryOutIs DEF IntentStorages
<1>3. r = IF k \in s.executed \/ call.outcome = "badSignature" THEN s
          ELSE IF ~PreValidate(s, call) THEN marked
          ELSE CollectFee(IF done THEN filledIn
                          ELSE IF k.intent.market THEN marked ELSE s, call)
  BY Zenon DEF ExecuteIntent, Filled
<1> HIDE DEF size
<1>4. marked = IntentFields(s.executed \cup {k}, s.filled, s.charged, s.position)
  BY SetExecuted
<1> HIDE DEF marked
<1>5. s.executed \cup {k} \in SUBSET Keys BY <1>1 DEF IntentStorages
<1>6. marked \in IntentStorages BY <1>4, <1>5 DEF IntentStorages, IntentFields
<1>7. /\ marked.executed = s.executed \cup {k} /\ marked.filled = s.filled
      /\ marked.charged = s.charged /\ marked.position = s.position
  BY <1>4 DEF IntentFields
<1>8. counted = IntentFields(marked.executed, [marked.filled EXCEPT ![k] = @ + 1],
                             marked.charged, marked.position)
  BY <1>6, SetFilled
<1> HIDE DEF counted
<1>9. counted \in IntentStorages
  <2>1. [marked.filled EXCEPT ![k] = @ + 1] \in [Keys -> Nat]
    BY <1>1, <1>6 DEF IntentStorages
  <2> QED BY <1>6, <1>8, <2>1 DEF IntentStorages, IntentFields
<1>10. filledIn = IntentFields(counted.executed, counted.filled, counted.charged,
                               [counted.position EXCEPT ![a] = size])
  BY <1>9, SetIntentPosition
<1> HIDE DEF filledIn
<1>11. filledIn \in IntentStorages
  <2>1. [counted.position EXCEPT ![a] = size] \in [SubAccounts -> Int]
    BY <1>1, <1>2, <1>9 DEF IntentStorages
  <2> QED BY <1>9, <1>10, <2>1 DEF IntentStorages, IntentFields
<1>12. /\ filledIn.executed = s.executed \cup {k} /\ filledIn.charged = s.charged
       /\ filledIn.filled = [s.filled EXCEPT ![k] = @ + 1]
       /\ filledIn.position = [s.position EXCEPT ![a] = size]
  BY <1>7, <1>8, <1>10 DEF IntentFields
<1> HIDE DEF r
<1>13. CASE k \in s.executed \/ call.outcome = "badSignature"
  BY <1>3, <1>13 DEF r
<1>14. CASE k \notin s.executed /\ call.outcome # "badSignature" /\ ~PreValidate(s, call)
  BY <1>3, <1>6, <1>7, <1>14 DEF r, Marks
<1>15. CASE k \notin s.executed /\ call.outcome # "badSignature" /\ PreValidate(s, call)
  <2>1. CASE done
    <3>1. r = CollectFee(filledIn, call) BY <1>3, <1>15, <2>1
    <3>2. WithinLimits(intentLimit, s.position[a], k.intent.sizeDelta,
                       k.intent.reduceOnly)
      BY <1>15 DEF PreValidate
    <3>3. /\ r \in IntentStorages
          /\ r.executed = filledIn.executed /\ r.filled = filledIn.filled
          /\ r.position = filledIn.position
          /\ r.charged \in {filledIn.charged, [filledIn.charged EXCEPT ![k] = @ + 1]}
      BY <1>11, <3>1, CollectFeeIs
    <3> QED BY <1>12, <1>15, <2>1, <3>2, <3>3 DEF r, Marks, size
  <2>2. CASE ~done /\ k.intent.market
    <3>1. r = CollectFee(marked, call) BY <1>3, <1>15, <2>2
    <3>2. /\ r \in IntentStorages
          /\ r.executed = marked.executed /\ r.filled = marked.filled
          /\ r.position = marked.position
          /\ r.charged \in {marked.charged, [marked.charged EXCEPT ![k] = @ + 1]}
      BY <1>6, <3>1, CollectFeeIs
    <3> QED BY <1>7, <1>15, <3>2 DEF r, Marks
  <2>3. CASE ~done /\ ~k.intent.market
    <3>1. r = CollectFee(s, call) BY <1>3, <1>15, <2>3
    <3>2. /\ r \in IntentStorages
          /\ r.executed = s.executed /\ r.filled = s.filled /\ r.position = s.position
          /\ r.charged \in {s.charged, [s.charged EXCEPT ![k] = @ + 1]}
      BY <3>1, CollectFeeIs
    <3> QED BY <2>3, <3>2 DEF r
  <2> QED BY <2>1, <2>2, <2>3
<1> QED BY <1>13, <1>14, <1>15

(* One turn of execute. *)
LEMMA ExecuteIntentStage ==
  ASSUME LimitsInBounds, position \in [SubAccounts -> Int],
         executedIntents \subseteq Keys,
         NEW s, IntentStage(s), Spent(s), NEW call \in IntentCalls
  PROVE  IntentStage(ExecuteIntent(s, call)) /\ Spent(ExecuteIntent(s, call))
<1> DEFINE k == call.key
           a == k.intent.account
           x == s.position[a]
           size == CarryOut(x, k.intent.sizeDelta, k.intent.reduceOnly)
           r == ExecuteIntent(s, call)
<1>1. s \in IntentStorages /\ Once(s) BY DEF IntentStage
<1>2. /\ k \in Keys /\ a \in SubAccounts /\ k.intent.sizeDelta \in Int
      /\ k.intent.reduceOnly \in BOOLEAN /\ k.intent.market \in BOOLEAN
  BY IntentsAssumption DEF IntentCalls
<1>3. /\ r \in IntentStorages
      /\ \/ r = s
         \/ Marks(s, r, k) /\ r.filled = s.filled /\ r.position = s.position
         \/ /\ Marks(s, r, k) /\ r.filled = [s.filled EXCEPT ![k] = @ + 1]
            /\ r.position = [s.position EXCEPT ![a] = size] /\ MarketAllows(size)
            /\ WithinLimits(intentLimit, x, k.intent.sizeDelta, k.intent.reduceOnly)
         \/ /\ ~k.intent.market /\ r.executed = s.executed /\ r.filled = s.filled
            /\ r.position = s.position
            /\ r.charged \in {s.charged, [s.charged EXCEPT ![k] = @ + 1]}
  BY <1>1, ExecuteIntentIs
<1> HIDE DEF r
<1>4. CASE r = s BY <1>4 DEF IntentStage, r
<1>5. CASE Marks(s, r, k) /\ r.filled = s.filled /\ r.position = s.position
  <2>1. Once(r) BY <1>1, <1>2, <1>5 DEF Once, Marks, IntentStorages
  <2>2. Spent(r) BY <1>5 DEF Spent, Marks
  <2> QED BY <1>3, <2>1, <2>2 DEF IntentStage, r
<1>6. CASE /\ ~k.intent.market /\ r.executed = s.executed /\ r.filled = s.filled
           /\ r.position = s.position
           /\ r.charged \in {s.charged, [s.charged EXCEPT ![k] = @ + 1]}
  <2>1. Once(r) BY <1>1, <1>2, <1>6 DEF Once, IntentStorages
  <2>2. Spent(r) BY <1>6 DEF Spent
  <2> QED BY <1>3, <2>1, <2>2 DEF IntentStage, r
<1>7. CASE /\ Marks(s, r, k) /\ r.filled = [s.filled EXCEPT ![k] = @ + 1]
           /\ r.position = [s.position EXCEPT ![a] = size] /\ MarketAllows(size)
           /\ WithinLimits(intentLimit, x, k.intent.sizeDelta, k.intent.reduceOnly)
  <2>1. Once(r)
    <3> SUFFICES ASSUME NEW j \in Keys
                 PROVE  /\ r.filled[j] <= 1 /\ (r.filled[j] = 1 => j \in r.executed)
                        /\ j.intent.market => r.charged[j] <= 1
                             /\ (r.charged[j] = 1 => j \in r.executed)
      BY DEF Once
    <3>1. /\ s.filled \in [Keys -> Nat] /\ s.charged \in [Keys -> Nat]
          /\ k \notin s.executed /\ r.executed = s.executed \cup {k}
          /\ r.charged \in {s.charged, [s.charged EXCEPT ![k] = @ + 1]}
      BY <1>1, <1>7 DEF Marks, IntentStorages
    <3>2. /\ s.filled[j] <= 1 /\ (s.filled[j] = 1 => j \in s.executed)
          /\ j.intent.market => s.charged[j] <= 1
               /\ (s.charged[j] = 1 => j \in s.executed)
      BY <1>1 DEF Once
    <3>3. r.filled[j] <= 1 /\ (r.filled[j] = 1 => j \in r.executed)
      BY <1>2, <1>7, <3>1, <3>2
    <3>4. ASSUME j.intent.market
          PROVE  r.charged[j] <= 1 /\ (r.charged[j] = 1 => j \in r.executed)
      BY <1>2, <3>1, <3>2, <3>4
    <3> QED BY <3>3, <3>4
  <2>2. x \in Int /\ Size(x) <= MaxPosition /\ position[a] \in Int
    BY <1>1, <1>2 DEF IntentStorages, Spent, InBounds
  <2>3. /\ size \in Int
        /\ k.intent.reduceOnly => Shrinks(x, size)
        /\ ~k.intent.reduceOnly => size = x + k.intent.sizeDelta
    BY <1>2, <2>2, CarryOutIs
  <2>4. ~k.intent.reduceOnly /\ intentLimit.position > 0 => Size(size) <= intentLimit.position
    <3> HIDE DEF size
    <3> QED BY <1>7, <2>3 DEF WithinLimits
  <2> HIDE DEF size
  <2>5. /\ r.position[a] = size
        /\ \A b \in SubAccounts : b # a => r.position[b] = s.position[b]
    BY <1>1, <1>2, <1>7 DEF IntentStorages
  <2>6. executedIntents \subseteq r.executed /\ k \in r.executed \ executedIntents
        /\ s.executed \subseteq r.executed
    BY <1>7 DEF Spent, Marks
  <2>7. InBounds(r.position)
    BY <1>7, <2>5 DEF Spent, InBounds, MarketAllows
  <2>8. ASSUME Shrinks(position[a], x), k.intent.reduceOnly
        PROVE  Shrinks(position[a], r.position[a])
    BY <2>2, <2>3, <2>5, <2>8, ShrinksTwice
  <2>9. ASSUME NEW b \in SubAccounts
        PROVE  \/ Shrinks(position[b], r.position[b])
               \/ \E j \in r.executed \ executedIntents :
                    j.intent.account = b /\ ~j.intent.reduceOnly
    BY <2>5, <2>6, <2>8 DEF Spent
  <2>10. ASSUME NEW b \in SubAccounts
         PROVE  \/ Shrinks(position[b], r.position[b])
                \/ intentLimit.position > 0 => Size(r.position[b]) <= intentLimit.position
    <3>1. CASE b # a BY <2>5, <3>1 DEF Spent
    <3>2. CASE b = a /\ ~k.intent.reduceOnly BY <2>4, <2>5, <3>2
    <3>3. CASE b = a /\ k.intent.reduceOnly /\ Shrinks(position[b], s.position[b])
      BY <2>8, <3>3
    <3>4. CASE /\ b = a /\ k.intent.reduceOnly
               /\ intentLimit.position > 0 => Size(x) <= intentLimit.position
      <4>1. intentLimit.position \in Nat BY DEF LimitsInBounds, LimitTypes
      <4> QED BY <2>2, <2>3, <2>5, <3>4, <4>1, ShrinksWithin
    <3> QED BY <3>1, <3>2, <3>3, <3>4 DEF Spent
  <2>11. Spent(r) BY <2>6, <2>7, <2>9, <2>10 DEF Spent
  <2> QED BY <1>3, <2>1, <2>11 DEF IntentStage, r
<1> QED BY <1>3, <1>4, <1>5, <1>6, <1>7

(* execute ends at a stage whatever the calls. *)
LEMMA ExecuteLoop ==
  ASSUME LimitsInBounds, position \in [SubAccounts -> Int],
         executedIntents \subseteq Keys,
         IntentStage(IntentStorage), Spent(IntentStorage),
         NEW calls \in SeqOf(IntentCalls, MaxBatch)
  PROVE  LET end == Through(calls, ExecuteIntent, IntentStorage)
         IN  IntentStage(end) /\ Spent(end)
<1> DEFINE S == {s \in IntentStorages : IntentStage(s) /\ Spent(s)}
           n == Len(calls)
           Leg(s, i) == ExecuteIntent(s, calls[i])
           step == [x \in S \X (1 .. n) |-> Leg(x[1], x[2])]
           Body(g) == [i \in 0 .. n |-> IF i = 0 THEN IntentStorage ELSE Leg(g[i - 1], i)]
           after == CHOOSE g : g = Body(g)
<1>1. n \in Nat /\ \A i \in 1 .. n : calls[i] \in IntentCalls
  BY ListIs, LimitOrdersAssumption
<1>2. IntentStorage \in S BY DEF IntentStage
<1>3. \A s \in S, i \in 1 .. n : Leg(s, i) \in S
  BY <1>1, ExecuteIntentStage DEF IntentStage
<1>4. Through(calls, ExecuteIntent, IntentStorage) = after[n]
  BY DEF Through
<1> HIDE DEF S, n, Leg
<1>5. step \in [S \X (1 .. n) -> S]
  BY <1>3
<1>6. PICK f \in [0 .. n -> S] : IsRun(f, n, IntentStorage, step)
  <2> HIDE DEF step
  <2> QED BY <1>1, <1>2, <1>5, RunExists
<1>7. f = Body(f)
  <2>1. f = [i \in 0 .. n |-> IF i = 0 THEN IntentStorage ELSE step[<<f[i - 1], i>>]]
    BY <1>6 DEF IsRun
  <2>2. ASSUME NEW i \in 0 .. n, i # 0
        PROVE  step[<<f[i - 1], i>>] = Leg(f[i - 1], i)
    <3>1. <<f[i - 1], i>> \in S \X (1 .. n) BY <1>1, <2>2
    <3> QED BY <3>1
  <2> HIDE DEF step
  <2> QED BY <2>1, <2>2
<1>8. after = Body(after)
  <2> HIDE DEF Body
  <2> QED BY <1>7
<1> HIDE DEF after
<1>9. after[0] = IntentStorage /\ \A i \in 1 .. n : after[i] = Leg(after[i - 1], i)
  BY <1>1, <1>8
<1> HIDE DEF Body
<1>10. after[n] \in S
  <2>1. \A i \in 1 .. n : after[i - 1] \in S => after[i] \in S
    BY <1>1, <1>3, <1>9
  <2> QED BY <1>1, <1>2, <1>9, <2>1, RunInvariant
<1> QED BY <1>4, <1>10 DEF S

-----------------------------------------------------------------------------
(* The inductive invariant: what is stored is a stage of a call that nothing *)
(* is due in, positions are within the market's maximum and limits too.      *)

TradeInv ==
  /\ OrderStage(Storage) /\ IntentStage(IntentStorage)
  /\ InBounds(position) /\ LimitsInBounds

(* What is stored, and what a call that commits leaves stored. *)
LEMMA Stored ==
  ASSUME TradeInv
  PROVE  /\ Storage \in OrderStorages /\ IntentStorage \in IntentStorages
         /\ position \in [SubAccounts -> Int] /\ executedIntents \subseteq Keys
<1>1. Storage \in OrderStorages /\ IntentStorage \in IntentStorages
  BY DEF TradeInv, OrderStage, IntentStage
<1>2. Storage.position = position /\ IntentStorage.executed = executedIntents
  BY DEF Storage, IntentStorage
<1> QED BY <1>1, <1>2 DEF OrderStorages, IntentStorages

LEMMA CommitStage ==
  ASSUME NEW s, OrderStage(s), s.due = 0, Commit(s)
  PROVE  OrderStage(Storage)' /\ position' = s.position
<1>1. s \in OrderStorages /\ Listed(s) /\ s.held + s.due = FeesIn(s)
  BY DEF OrderStage
<1> DEFINE r == Storage'
<1>2. r = Fields(s.orders, s.index, s.active, s.markets, s.limits, s.held, s.position,
                 0, TRUE)
  BY DEF Storage, Commit, Fields
<1> HIDE DEF r
<1>3. /\ r.orders = s.orders /\ r.active = s.active /\ r.markets = s.markets
      /\ r.limits = s.limits /\ r.index = s.index /\ r.position = s.position
      /\ r.held = s.held /\ r.due = s.due
  BY <1>2 DEF Fields
<1>4. r \in OrderStorages BY <1>1, <1>2 DEF OrderStorages, Fields
<1>5. FeesIn(r) = FeesIn(s) BY <1>3 DEF FeesIn, FeeFor
<1>6. OrderStage(r) BY <1>1, <1>3, <1>4, <1>5 DEF OrderStage, Listed
<1>7. OrderStage(r) <=> OrderStage(Storage)' BY DEF r
<1> QED BY <1>6, <1>7 DEF Commit

(* What the two action properties ask of a step. *)
Kept(a) == Shrinks(position[a], position'[a])

Reduces ==
  \A a \in SubAccounts :
     \/ Kept(a)
     \/ \E p \in Gone(a) : ~limitOrders[p].reduceOnly
     \/ \E k \in Used(a) : ~k.intent.reduceOnly

Limited ==
  \A a \in SubAccounts :
     \/ Kept(a)
     \/ /\ Gone(a) # {} /\ orderLimit.position > 0 =>
             Size(position'[a]) <= orderLimit.position
        /\ Used(a) # {} /\ intentLimit.position > 0 =>
             Size(position'[a]) <= intentLimit.position

(* Orders or intents that a step leaves alone, and positions. *)
LEMMA ShrinksNot ==
  ASSUME NEW x \in Int PROVE Shrinks(x, x) /\ Shrinks(x, 0)
BY DEF Shrinks, Size, SameSide

LEMMA OrdersAlone ==
  ASSUME TradeInv, UNCHANGED orderVars
  PROVE  \A a \in SubAccounts : Gone(a) = {}
BY DEF orderVars, Gone

LEMMA IntentsAlone ==
  ASSUME UNCHANGED intentVars
  PROVE  \A a \in SubAccounts : Used(a) = {}
BY DEF intentVars, Used

LEMMA OrderStageAlone ==
  ASSUME TradeInv, UNCHANGED orderVars, position' \in [SubAccounts -> Int]
  PROVE  OrderStage(Storage)'
<1> DEFINE s == Storage
           r == Storage'
<1>1. s \in OrderStorages /\ Listed(s) /\ s.held + s.due = FeesIn(s)
  BY DEF TradeInv, OrderStage
<1>2. /\ r.orders = s.orders /\ r.index = s.index /\ r.active = s.active
      /\ r.markets = s.markets /\ r.limits = s.limits /\ r.held = s.held
      /\ r.due = s.due /\ r.position = position'
  BY DEF Storage, orderVars
<1>3. r = Fields(s.orders, s.index, s.active, s.markets, s.limits, s.held, position',
                 s.due, s.ok)
  BY DEF Storage, orderVars, Fields
<1>4. OrderStage(r) <=> OrderStage(Storage)' OBVIOUS
<1> HIDE DEF s, r
<1>5. r \in OrderStorages BY <1>1, <1>3 DEF OrderStorages, Fields
<1>6. FeesIn(r) = FeesIn(s) BY <1>2 DEF FeesIn, FeeFor
<1>7. OrderStage(r) BY <1>1, <1>2, <1>5, <1>6 DEF OrderStage, Listed
<1> QED BY <1>4, <1>7

LEMMA IntentStageAlone ==
  ASSUME TradeInv, UNCHANGED intentVars, position' \in [SubAccounts -> Int]
  PROVE  IntentStage(IntentStorage)'
<1>1. IntentStorage \in IntentStorages /\ Once(IntentStorage)
  BY DEF TradeInv, IntentStage
<1>2. IntentStorage' \in IntentStorages
  BY <1>1 DEF IntentStorage, IntentStorages, intentVars
<1>3. Once(IntentStorage)' BY <1>1 DEF Once, IntentStorage, intentVars
<1> QED BY <1>2, <1>3 DEF IntentStage

-----------------------------------------------------------------------------
(* Each step preserves the invariant, reduces and keeps to the limits. *)

Holds == TradeInv' /\ Reduces /\ Limited

(* batch: the fees that are due are paid in at its end. *)
LEMMA BatchKeeps ==
  ASSUME TradeInv, NEW a \in SubAccounts, NEW commands \in SeqOf(Commands, MaxBatch),
         Batch(a, commands), UNCHANGED <<orderLimit, intentVars, intentLimit>>
  PROVE  Holds
<1> DEFINE Run(s, c) == Command(s, a, c)
           end == Through(commands, Run, Storage)
           paid == [end EXCEPT !.held = @ + end.due]
<1>1. OrderStage(Storage) BY DEF TradeInv
<1>2. OrderStage(end) /\ end.position = position BY Zenon, <1>1, BatchLoop
<1>3. Commit(paid) BY Zenon DEF Batch, paid, end, Run
<1> HIDE DEF end
<1>4. end \in OrderStorages /\ Listed(end) /\ end.held + end.due = FeesIn(end)
  BY <1>2 DEF OrderStage
<1>5. paid = Fields(end.orders, end.index, end.active, end.markets, end.limits,
                    end.held + end.due, end.position, end.due, end.ok)
  BY <1>4, SetHeld
<1> HIDE DEF paid
<1> DEFINE r == Fields(end.orders, end.index, end.active, end.markets, end.limits,
                       end.held + end.due, end.position, 0, end.ok)
<1>6. end.held + end.due \in Int BY <1>4 DEF OrderStorages
<1>7. r \in OrderStorages BY <1>4, <1>6 DEF OrderStorages, Fields
<1>8. /\ r.orders = end.orders /\ r.active = end.active /\ r.markets = end.markets
      /\ r.limits = end.limits /\ r.index = end.index /\ r.position = end.position
      /\ r.held = end.held + end.due /\ r.due = 0 /\ r.ok = end.ok
  BY DEF Fields
<1>9. /\ paid.orders = end.orders /\ paid.active = end.active
      /\ paid.markets = end.markets /\ paid.limits = end.limits
      /\ paid.index = end.index /\ paid.position = end.position
      /\ paid.held = end.held + end.due /\ paid.ok = end.ok
  BY <1>5 DEF Fields
<1> HIDE DEF r
<1>10. FeesIn(r) = FeesIn(end) BY <1>8 DEF FeesIn, FeeFor
<1>11. OrderStage(r) BY <1>4, <1>6, <1>7, <1>8, <1>10 DEF OrderStage, Listed
<1>12. Commit(r) BY <1>3, <1>8, <1>9 DEF Commit
<1>13. OrderStage(Storage)' /\ position' = position
  BY <1>2, <1>8, <1>11, <1>12, CommitStage
<1>14. UNCHANGED intentVars /\ orderLimit' = orderLimit /\ intentLimit' = intentLimit
  OBVIOUS
<1>15. position \in [SubAccounts -> Int] BY Stored
<1>16. IntentStage(IntentStorage)' BY <1>13, <1>14, <1>15, IntentStageAlone
<1>17. TradeInv'
  BY <1>13, <1>14, <1>16 DEF TradeInv, InBounds, LimitsInBounds
<1>18. \A b \in SubAccounts : Kept(b) BY <1>13, <1>15, ShrinksNot DEF Kept
<1> QED BY <1>17, <1>18 DEF Holds, Reduces, Limited

(* executeOrders. *)
LEMMA ExecuteOrdersKeeps ==
  ASSUME TradeInv, NEW calls \in SeqOf(Calls, MaxBatch), ExecuteOrders(calls),
         UNCHANGED <<orderLimit, intentVars, intentLimit>>
  PROVE  Holds
<1> DEFINE end == Through(calls, ExecuteOrder, Storage)
<1>1. /\ OrderStage(Storage) /\ LimitsInBounds /\ InBounds(position)
      /\ Storage \in OrderStorages /\ position \in [SubAccounts -> Int]
  BY Stored DEF TradeInv
<1>2. Executed(Storage)
  <2>1. Storage.orders = limitOrders /\ Storage.position = position BY DEF Storage
  <2>2. \A a \in SubAccounts : Shrinks(position[a], position[a]) BY <1>1, ShrinksNot
  <2> QED BY <1>1, <2>1, <2>2 DEF Executed
<1>3. OrderStage(end) /\ Executed(end) /\ end.due = 0
  BY <1>1, <1>2, ExecuteOrdersLoop
<1>4. Commit(end) BY DEF ExecuteOrders
<1> HIDE DEF end
<1>5. OrderStage(Storage)' /\ position' = end.position /\ limitOrders' = end.orders
  BY <1>3, <1>4, CommitStage DEF Commit
<1>6. UNCHANGED intentVars /\ orderLimit' = orderLimit /\ intentLimit' = intentLimit
  OBVIOUS
<1>7. position' \in [SubAccounts -> Int]
  BY <1>3, <1>5 DEF OrderStage, OrderStorages
<1>8. IntentStage(IntentStorage)' BY <1>6, <1>7, IntentStageAlone
<1>9. TradeInv'
  BY <1>3, <1>5, <1>6, <1>8 DEF TradeInv, Executed, InBounds, LimitsInBounds,
                                 LimitTypes
<1>10. Reduces
  <2>1. ASSUME NEW a \in SubAccounts, ~Kept(a)
        PROVE  \E p \in Gone(a) : ~limitOrders[p].reduceOnly
    BY <1>3, <1>5, <2>1 DEF Executed, Kept, Gone
  <2> QED BY <2>1 DEF Reduces
<1>11. Limited
  <2>1. \A a \in SubAccounts : Used(a) = {} BY <1>6, IntentsAlone
  <2>2. \A a \in SubAccounts :
          Kept(a) \/ (orderLimit.position > 0 => Size(position'[a]) <= orderLimit.position)
    BY <1>3, <1>5 DEF Executed, Kept
  <2> QED BY <2>1, <2>2 DEF Limited
<1> QED BY <1>9, <1>10, <1>11 DEF Holds

(* execute. *)
LEMMA ExecuteKeeps ==
  ASSUME TradeInv, NEW calls \in SeqOf(IntentCalls, MaxBatch), Execute(calls),
         UNCHANGED <<orderVars, orderLimit, intentLimit>>
  PROVE  Holds
<1> DEFINE end == Through(calls, ExecuteIntent, IntentStorage)
<1>1. /\ IntentStage(IntentStorage) /\ LimitsInBounds /\ InBounds(position)
      /\ position \in [SubAccounts -> Int] /\ executedIntents \subseteq Keys
  BY Stored DEF TradeInv
<1>2. Spent(IntentStorage)
  <2>1. IntentStorage.executed = executedIntents /\ IntentStorage.position = position
    BY DEF IntentStorage
  <2>2. \A a \in SubAccounts : Shrinks(position[a], position[a]) BY <1>1, ShrinksNot
  <2> QED BY <1>1, <2>1, <2>2 DEF Spent
<1>3. IntentStage(end) /\ Spent(end) BY <1>1, <1>2, ExecuteLoop
<1>4. /\ executedIntents' = end.executed /\ filled' = end.filled
      /\ charged' = end.charged /\ position' = end.position
  BY DEF Execute
<1> HIDE DEF end
<1>5. end \in IntentStorages /\ Once(end) BY <1>3 DEF IntentStage
<1>6. IntentStorage' = end
  BY <1>4, <1>5 DEF IntentStorage, IntentStorages
<1>7. IntentStage(IntentStorage)'
  <2>1. (IntentStorage \in IntentStorages)' BY <1>5, <1>6
  <2>2. Once(IntentStorage)' BY <1>4, <1>5 DEF Once, IntentStorage
  <2> QED BY <2>1, <2>2 DEF IntentStage
<1>8. UNCHANGED orderVars /\ orderLimit' = orderLimit /\ intentLimit' = intentLimit
  OBVIOUS
<1>9. position' \in [SubAccounts -> Int] BY <1>4, <1>5 DEF IntentStorages
<1>10. OrderStage(Storage)' BY <1>8, <1>9, OrderStageAlone
<1>11. TradeInv'
  BY <1>3, <1>4, <1>7, <1>8, <1>10 DEF TradeInv, Spent, InBounds, LimitsInBounds,
                                        LimitTypes
<1>12. Reduces
  <2>1. ASSUME NEW a \in SubAccounts, ~Kept(a)
        PROVE  \E k \in Used(a) : ~k.intent.reduceOnly
    BY <1>3, <1>4, <2>1 DEF Spent, Kept, Used
  <2> QED BY <2>1 DEF Reduces
<1>13. Limited
  <2>1. \A a \in SubAccounts : Gone(a) = {} BY <1>8, OrdersAlone
  <2>2. \A a \in SubAccounts :
          Kept(a) \/ (intentLimit.position > 0 => Size(position'[a]) <= intentLimit.position)
    BY <1>3, <1>4 DEF Spent, Kept
  <2> QED BY <2>1, <2>2 DEF Limited
<1> QED BY <1>11, <1>12, <1>13 DEF Holds

(* A position manager closes a position. *)
LEMMA CloseByBotKeeps ==
  ASSUME TradeInv, NEW a \in SubAccounts, CloseByBot(a),
         UNCHANGED <<orderVars, orderLimit, intentVars, intentLimit>>
  PROVE  Holds
<1>1. position' = [position EXCEPT ![a] = 0] BY DEF CloseByBot
<1>2. position \in [SubAccounts -> Int] BY Stored
<1>3. position' \in [SubAccounts -> Int] BY <1>1, <1>2
<1>4. OrderStage(Storage)' BY <1>3, OrderStageAlone
<1>5. IntentStage(IntentStorage)' BY <1>3, IntentStageAlone
<1>6. InBounds(position')
  <2>1. Size(0) = 0 /\ MaxPosition \in Nat BY PositionsAssumption DEF Size
  <2> QED BY <1>1, <1>2, <2>1 DEF TradeInv, InBounds
<1>7. TradeInv'
  BY <1>4, <1>5, <1>6 DEF TradeInv, InBounds, LimitsInBounds, LimitTypes
<1>8. \A b \in SubAccounts : Kept(b)
  <2>1. ASSUME NEW b \in SubAccounts PROVE position'[b] \in {position[b], 0}
    BY <1>1, <1>2
  <2> QED BY <1>2, <2>1, ShrinksNot DEF Kept
<1> QED BY <1>7, <1>8 DEF Holds, Reduces, Limited

(* The owner sets a limit. *)
LEMMA OwnerKeeps ==
  ASSUME TradeInv, OwnerStep
  PROVE  Holds
<1>1. /\ UNCHANGED <<orderVars, intentVars, position>>
      /\ orderLimit' \in Limits \cup {orderLimit}
      /\ intentLimit' \in Limits \cup {intentLimit}
  BY DEF OwnerStep, SetOrderLimit, SetIntentLimit
<1>2. position \in [SubAccounts -> Int] /\ position' = position BY <1>1, Stored
<1>3. OrderStage(Storage)' BY <1>1, <1>2, OrderStageAlone
<1>4. IntentStage(IntentStorage)' BY <1>1, <1>2, IntentStageAlone
<1>5. LimitsInBounds' BY <1>1, LimitsAssumption DEF TradeInv, LimitsInBounds, LimitTypes
<1>6. TradeInv' BY <1>2, <1>3, <1>4, <1>5 DEF TradeInv, InBounds
<1>7. \A b \in SubAccounts : Kept(b) BY <1>2, ShrinksNot DEF Kept
<1> QED BY <1>6, <1>7 DEF Holds, Reduces, Limited

LEMMA TradeInitInv == ASSUME Init PROVE TradeInv
<1> DEFINE s == Storage
           k == IntentStorage
<1>1. MaxOrders \in Nat /\ MaxPosition \in Nat
  BY LimitOrdersAssumption, PositionsAssumption
<1>2. s = Fields([p \in Pointers |-> None], [a \in SubAccounts |-> 0], {}, {}, {}, 0,
                 [a \in SubAccounts |-> 0], 0, TRUE)
  BY DEF Init, LimitOrdersInit, PositionsInit, Storage, Fields
<1>3. k = IntentFields({}, [j \in Keys |-> 0], [j \in Keys |-> 0],
                       [a \in SubAccounts |-> 0])
  BY DEF Init, IntentsInit, PositionsInit, IntentStorage, IntentFields
<1>4. OrderStage(s)
  <2> HIDE DEF s
  <2>1. s \in OrderStorages BY <1>1, <1>2 DEF OrderStorages, Fields
  <2>2. /\ s.orders = [p \in Pointers |-> None] /\ s.active = {} /\ s.markets = {}
        /\ s.limits = {} /\ s.held = 0 /\ s.due = 0
    BY <1>2 DEF Fields
  <2>3. Listed(s) BY <2>2 DEF Listed
  <2>4. FeesIn(s) = 0
    <3>1. FeesIn(s) = SumOver(Pointers, [p \in Pointers |-> 0])
      BY <2>2 DEF FeesIn, FeeFor
    <3> QED BY <3>1, PointersFinite, SumZero
  <2> QED BY <2>1, <2>2, <2>3, <2>4 DEF OrderStage
<1>5. IntentStage(k)
  <2> HIDE DEF k
  <2>1. k \in IntentStorages BY <1>3 DEF IntentStorages, IntentFields
  <2>2. Once(k) BY <1>3 DEF Once, IntentFields
  <2> QED BY <2>1, <2>2 DEF IntentStage
<1>6. InBounds(position)
  BY <1>1 DEF Init, PositionsInit, InBounds, Size
<1>7. LimitsInBounds
  BY <1>1 DEF Init, LimitOrdersInit, IntentsInit, LimitsInBounds, LimitTypes
<1> QED BY <1>4, <1>5, <1>6, <1>7 DEF TradeInv

LEMMA TradeStepKeeps == ASSUME TradeInv, [Next]_vars PROVE Holds
<1>1. CASE \E a \in SubAccounts, commands \in SeqOf(Commands, MaxBatch) :
             /\ Batch(a, commands) /\ UNCHANGED <<orderLimit, intentVars, intentLimit>>
  BY <1>1, BatchKeeps
<1>2. CASE \E calls \in SeqOf(Calls, MaxBatch) :
             /\ ExecuteOrders(calls) /\ UNCHANGED <<orderLimit, intentVars, intentLimit>>
  BY <1>2, ExecuteOrdersKeeps
<1>3. CASE \E calls \in SeqOf(IntentCalls, MaxBatch) :
             /\ Execute(calls) /\ UNCHANGED <<orderVars, orderLimit, intentLimit>>
  BY <1>3, ExecuteKeeps
<1>4. CASE \E a \in SubAccounts :
             /\ CloseByBot(a)
             /\ UNCHANGED <<orderVars, orderLimit, intentVars, intentLimit>>
  BY <1>4, CloseByBotKeeps
<1>5. CASE OwnerStep BY <1>5, OwnerKeeps
<1>6. CASE UNCHANGED vars
  <2>1. /\ UNCHANGED <<orderVars, intentVars, position>>
        /\ orderLimit' = orderLimit /\ intentLimit' = intentLimit
    BY <1>6 DEF vars
  <2>2. position \in [SubAccounts -> Int] BY Stored
  <2>3. OrderStage(Storage)' BY <2>1, <2>2, OrderStageAlone
  <2>4. IntentStage(IntentStorage)' BY <2>1, <2>2, IntentStageAlone
  <2>5. TradeInv' BY <2>1, <2>3, <2>4 DEF TradeInv, InBounds, LimitsInBounds
  <2>6. \A b \in SubAccounts : Kept(b) BY <2>1, <2>2, ShrinksNot DEF Kept
  <2> QED BY <2>5, <2>6 DEF Holds, Reduces, Limited
<1> QED BY <1>1, <1>2, <1>3, <1>4, <1>5, <1>6 DEF Next, OrderStep, IntentStep, BotStep

-----------------------------------------------------------------------------
(* Theorems. *)

(* The invariant holds always, whatever the batches of commands and calls.   *)
THEOREM TradeInvariance == Spec => []TradeInv
<1>1. Init => TradeInv BY TradeInitInv
<1>2. TradeInv /\ [Next]_vars => TradeInv' BY TradeStepKeeps DEF Holds
<1> QED BY <1>1, <1>2, PTL DEF Spec

(* LimitTradeHandler holds exactly the fees of its active orders, though in  *)
(* a batch fees are paid back before those of the new orders are paid in.    *)
THEOREM FeesExact == Spec => []FeesHeld
<1>1. TradeInv => FeesHeld
  <2> SUFFICES ASSUME TradeInv PROVE FeesHeld OBVIOUS
  <2>1. Storage.held + Storage.due = FeesIn(Storage) BY DEF TradeInv, OrderStage
  <2>2. held \in Int
    <3>1. Storage \in OrderStorages /\ Storage.held = held BY Stored DEF Storage
    <3> QED BY <3>1 DEF OrderStorages
  <2>3. held + 0 = FeesIn(Storage) BY <2>1 DEF Storage
  <2> QED BY <2>2, <2>3 DEF FeesHeld, FeesIn, FeeFor, Storage
<1> QED BY <1>1, TradeInvariance, PTL

(* What is stored is active, and listed as what it is (_addOrder,            *)
(* _removeOrder, _updateOrder).                                              *)
THEOREM TradeListsAgree == Spec => []ListsAgree
<1>1. TradeInv => ListsAgree
  BY DEF TradeInv, OrderStage, Listed, Storage, ListsAgree
<1> QED BY <1>1, TradeInvariance, PTL

(* The words of no intent are filled twice, nor those of a market intent     *)
(* charged for twice, however often and in whatever batches executors send   *)
(* them (IntentHandler.execute); other words of the same intent are others.  *)
THEOREM IntentsTakeEffectOnce == Spec => []IntentsOnce
<1>1. TradeInv => IntentsOnce
  BY DEF TradeInv, IntentStage, Once, IntentStorage, IntentsOnce
<1> QED BY <1>1, TradeInvariance, PTL

(* A position of which a step carried out reduce-only orders or intents      *)
(* alone is no larger after it, and not turned: the size is cut to what is   *)
(* there when the order is carried out, one after another in a batch.        *)
THEOREM ReduceOnlyOrdersReduce == Spec => ReduceOnlyReduces
<1> DEFINE Property ==
      \A a \in SubAccounts :
        /\ \A p \in Gone(a) : limitOrders[p].reduceOnly
        /\ \A k \in Used(a) : k.intent.reduceOnly
        => /\ Size(position'[a]) <= Size(position[a])
           /\ position'[a] # 0 => SameSide(position'[a], position[a])
<1>1. TradeInv /\ [Next]_vars => Property
  BY TradeStepKeeps DEF Holds, Reduces, Kept, Shrinks
<1> QED BY <1>1, TradeInvariance, PTL DEF Spec, ReduceOnlyReduces

(* A position that a step makes larger, or turns, is within the limit of the *)
(* handler whose order or intent the step carried out.                       *)
THEOREM NoLimitPassed == Spec => LimitsKept
<1> DEFINE Property ==
      \A a \in SubAccounts :
        \/ Size(position'[a]) > Size(position[a])
        \/ position'[a] # 0 /\ ~SameSide(position'[a], position[a])
        =>
          /\ Gone(a) # {} /\ orderLimit.position > 0 =>
               Size(position'[a]) <= orderLimit.position
          /\ Used(a) # {} /\ intentLimit.position > 0 =>
               Size(position'[a]) <= intentLimit.position
<1>1. TradeInv /\ [Next]_vars => Property
  <2> SUFFICES ASSUME TradeInv, [Next]_vars PROVE Property OBVIOUS
  <2>1. TradeInv' /\ Limited BY TradeStepKeeps DEF Holds
  <2>2. \A a \in SubAccounts : Size(position[a]) \in Int /\ Size(position'[a]) \in Int
    <3>1. position \in [SubAccounts -> Int] BY Stored
    <3>2. position' \in [SubAccounts -> Int]
      <4>1. OrderStage(Storage)' BY <2>1 DEF TradeInv
      <4>2. (Storage \in OrderStorages)' BY <4>1 DEF OrderStage
      <4> QED BY <4>2 DEF Storage, OrderStorages
    <3> QED BY <3>1, <3>2 DEF Size
  <2> QED BY <2>1, <2>2 DEF Limited, Kept, Shrinks
<1> QED BY <1>1, TradeInvariance, PTL DEF Spec, LimitsKept
=============================================================================
