------------------------ MODULE LiquidityOrdersProofs ------------------------
(* LiquidityHandler02 for every number of sub-accounts, assets, orders and   *)
(* calls in a batch: its lists agree with the orders, and while no call      *)
(* lands late it can settle every order that is active.                      *)
EXTENDS LiquidityOrders, SumsProofs, SequenceTheorems

(* The pointers that were ever given to an order. *)
Created == {p \in Pointers : p[2] < liquidityOrdersIndex[p[1]]}

(* The inductive invariant: what is listed was created, so that a new order  *)
(* never takes the pointer of another.                                       *)
OrdersInv ==
  /\ TypeOK /\ late \in BOOLEAN
  /\ HoldsPending /\ ListsAgree
  /\ active \cup executed \subseteq Created

-----------------------------------------------------------------------------
(* The state of a call. *)

Storages ==
  [orders : [Pointers -> Orders \cup {None}], active : SUBSET Pointers,
   executed : SUBSET Pointers, held : [Assets -> Int], fees : Nat, ok : BOOLEAN]

Listed(s) ==
  /\ \A p \in Pointers :
        p \in s.active <=> (s.orders[p] # None /\ s.orders[p].status = "PENDING")
  /\ s.active \cap s.executed = {}
  /\ s.active \cup s.executed \subseteq Created

Stage(s) == s \in Storages /\ Listed(s) /\ (s.ok => s.held \in [Assets -> Nat])

(* What is due for order p, and for all that are active. *)
DueFor(s, p, x) == IF p \in s.active THEN Share(s.orders[p], x) ELSE 0
DueIn(s, x) == SumOver(Pointers, [p \in Pointers |-> DueFor(s, p, x)])

(* The handler has what is due. *)
Covers(s) == \A x \in Assets : s.held[x] >= DueIn(s, x)

(* It also has the fees that the executor has earned. *)
Enough(s) ==
  \A x \in Assets : s.held[x] >= DueIn(s, x) + (IF x = Weth THEN s.fees ELSE 0)

(* There are finitely many pointers. *)
LEMMA PointersFinite == IsFiniteSet(Pointers)
<1>1. IsFiniteSet(0 .. MaxOrders - 1)
  BY OrdersAssumption, FS_Interval
<1> QED BY <1>1, OrdersAssumption, FS_Product DEF Pointers

(* An order is worth a natural number of each asset. *)
LEMMA ShareNat ==
  ASSUME NEW o \in Orders, NEW x
  PROVE  Share(o, x) \in Nat
BY DEF Share, Orders

(* What is due for an active order is no more than natural. *)
LEMMA DueNat ==
  ASSUME NEW s, s \in Storages, Listed(s), NEW x \in Assets
  PROVE  /\ \A p \in Pointers : DueFor(s, p, x) \in Nat
         /\ DueIn(s, x) \in Nat
<1>1. ASSUME NEW p \in Pointers PROVE DueFor(s, p, x) \in Nat
  <2>1. CASE p \in s.active
    <3>1. s.orders[p] \in Orders BY <2>1 DEF Listed, Storages
    <3> QED BY <2>1, <3>1, ShareNat DEF DueFor
  <2>2. CASE p \notin s.active BY <2>2 DEF DueFor
  <2> QED BY <2>1, <2>2
<1> DEFINE due == [p \in Pointers |-> DueFor(s, p, x)]
<1>2. due \in [Pointers -> Nat] BY <1>1
<1> HIDE DEF due
<1>3. SumOver(Pointers, due) \in Nat BY <1>2, SumNat, PointersFinite
<1> QED BY <1>1, <1>3 DEF due, DueIn

(* When an order leaves the list, what is due falls by what it was worth. *)
LEMMA DueFalls ==
  ASSUME NEW s, s \in Storages, Listed(s), NEW r, r \in Storages, Listed(r),
         NEW p \in s.active, r.active = s.active \ {p},
         \A q \in Pointers : q # p => r.orders[q] = s.orders[q],
         NEW x \in Assets
  PROVE  DueIn(r, x) = DueIn(s, x) - Share(s.orders[p], x)
<1> DEFINE f == [q \in Pointers |-> DueFor(s, q, x)]
           h == [q \in Pointers |-> DueFor(r, q, x)]
<1>1. p \in Pointers BY DEF Storages
<1>2. f \in [Pointers -> Int] /\ h \in [Pointers -> Int]
  <2>1. \A q \in Pointers : DueFor(s, q, x) \in Int /\ DueFor(r, q, x) \in Int
    BY DueNat
  <2> QED BY <2>1
<1>3. \A q \in Pointers : q # p => h[q] = f[q] BY DEF DueFor
<1>4. h[p] = 0 /\ f[p] = Share(s.orders[p], x) BY <1>1 DEF DueFor
<1>5. DueIn(s, x) = SumOver(Pointers, f) /\ DueIn(r, x) = SumOver(Pointers, h)
  BY DEF DueIn
<1> HIDE DEF f, h
<1>6. SumOver(Pointers, h) = SumOver(Pointers, f) - f[p] + h[p]
  BY <1>1, <1>2, <1>3, PointersFinite, SumUpdate
<1>7. SumOver(Pointers, f) \in Int /\ f[p] \in Int
  BY <1>1, <1>2, PointersFinite, SumInt
<1> QED BY <1>4, <1>5, <1>6, <1>7

-----------------------------------------------------------------------------
(* What each operation does to a stage. *)

LEMMA StorageIs ==
  ASSUME NEW s \in Storages
  PROVE  s = [orders |-> s.orders, active |-> s.active, executed |-> s.executed,
              held |-> s.held, fees |-> s.fees, ok |-> s.ok]
BY DEF Storages

(* A balance with some of an asset less. *)
Less(had, asset, amount) == [had EXCEPT ![asset] = @ - amount]

LEMMA TakeIs ==
  ASSUME NEW s \in Storages, NEW asset \in Assets, NEW amount \in Nat
  PROVE  /\ Take(s, asset, amount) =
              [orders |-> s.orders, active |-> s.active, executed |-> s.executed,
               held |-> Less(s.held, asset, amount), fees |-> s.fees,
               ok |-> s.ok /\ amount <= s.held[asset]]
         /\ Take(s, asset, amount) \in Storages
         /\ s.ok /\ s.held \in [Assets -> Nat] /\ amount <= s.held[asset]
              => Less(s.held, asset, amount) \in [Assets -> Nat]
<1>1. s.held \in [Assets -> Int] BY DEF Storages
<1>2. Less(s.held, asset, amount) \in [Assets -> Int]
  BY <1>1 DEF Less
<1>3. Take(s, asset, amount) =
        [orders |-> s.orders, active |-> s.active, executed |-> s.executed,
         held |-> Less(s.held, asset, amount), fees |-> s.fees,
         ok |-> s.ok /\ amount <= s.held[asset]]
  <2> DEFINE r == [s EXCEPT !.held[asset] = @ - amount]
  <2>1. Take(s, asset, amount) = [r EXCEPT !.ok = @ /\ amount <= s.held[asset]]
    BY Zenon DEF Take
  <2>2. r = [orders |-> s.orders, active |-> s.active, executed |-> s.executed,
             held |-> Less(s.held, asset, amount), fees |-> s.fees, ok |-> s.ok]
    BY DEF Storages, Less
  <2>3. r \in Storages BY <1>2, <2>2 DEF Storages
  <2> HIDE DEF r
  <2> QED BY <2>1, <2>2, <2>3 DEF Storages
<1>4. (s.ok /\ amount <= s.held[asset]) \in BOOLEAN OBVIOUS
<1>5. Take(s, asset, amount) \in Storages
  BY <1>2, <1>3, <1>4 DEF Storages
<1>6. s.ok /\ s.held \in [Assets -> Nat] /\ amount <= s.held[asset]
        => Less(s.held, asset, amount) \in [Assets -> Nat]
  BY DEF Less
<1> QED BY <1>3, <1>5, <1>6

(* Taking leaves a stage a stage: the call goes on only with what is there. *)
LEMMA TakeStage ==
  ASSUME NEW s, Stage(s), NEW asset \in Assets, NEW amount \in Nat
  PROVE  Stage(Take(s, asset, amount))
<1> DEFINE r == Take(s, asset, amount)
<1>1. s \in Storages BY DEF Stage
<1>2. r = [orders |-> s.orders, active |-> s.active, executed |-> s.executed,
           held |-> Less(s.held, asset, amount), fees |-> s.fees,
           ok |-> s.ok /\ amount <= s.held[asset]]
  BY <1>1, TakeIs
<1>3. r \in Storages BY <1>1, TakeIs
<1>4. s.ok /\ s.held \in [Assets -> Nat] /\ amount <= s.held[asset]
        => Less(s.held, asset, amount) \in [Assets -> Nat]
  BY <1>1, TakeIs
<1> HIDE DEF r
<1>5. /\ r.orders = s.orders /\ r.active = s.active /\ r.executed = s.executed
      /\ r.held = Less(s.held, asset, amount)
  BY <1>2
<1>6. r.ok => s.ok /\ amount <= s.held[asset] BY <1>2
<1>7. Listed(r) BY <1>5 DEF Stage, Listed
<1>8. r.ok => r.held \in [Assets -> Nat] BY <1>4, <1>5, <1>6 DEF Stage
<1> QED BY <1>3, <1>7, <1>8 DEF Stage, r

(* s without order p. *)
Dropped(s, p) ==
  [orders |-> [s.orders EXCEPT ![p] = None], active |-> s.active \ {p},
   executed |-> s.executed, held |-> s.held, fees |-> s.fees, ok |-> s.ok]

(* s with order p carried out. *)
CarriedOut(s, p) ==
  [orders |-> [s.orders EXCEPT ![p].status = "SUCCESS"], active |-> s.active \ {p},
   executed |-> s.executed \cup {p}, held |-> s.held, fees |-> s.fees, ok |-> s.ok]

LEMMA DroppedStage ==
  ASSUME NEW s, Stage(s), NEW p \in Pointers
  PROVE  Stage(Dropped(s, p))
<1>1. s \in Storages BY DEF Stage
<1>2. Dropped(s, p) \in Storages BY <1>1 DEF Dropped, Storages
<1>3. Listed(Dropped(s, p)) BY <1>1 DEF Stage, Dropped, Listed, Storages
<1> QED BY <1>2, <1>3 DEF Stage, Dropped

LEMMA CarriedOutStage ==
  ASSUME NEW s, Stage(s), NEW p \in Created, s.orders[p] # None
  PROVE  Stage(CarriedOut(s, p))
<1> DEFINE o == s.orders[p]
           carried == [o EXCEPT !.status = "SUCCESS"]
<1>1. s \in Storages /\ p \in Pointers /\ o \in Orders
  BY DEF Stage, Storages, Created
<1>2. carried \in Orders /\ carried.status # "PENDING"
  BY <1>1 DEF Orders, Status
<1>3. [s.orders EXCEPT ![p].status = "SUCCESS"] = [s.orders EXCEPT ![p] = carried]
  BY <1>1 DEF Storages
<1> HIDE DEF carried
<1>4. CarriedOut(s, p) \in Storages
  BY <1>1, <1>2, <1>3 DEF CarriedOut, Storages
<1>5. Listed(CarriedOut(s, p))
  BY <1>1, <1>2, <1>3 DEF Stage, CarriedOut, Listed, Storages
<1> QED BY <1>4, <1>5 DEF Stage, CarriedOut

(* _handleOrderSuccess, and _cancelOrder: what is taken, then the lists. *)
LEMMA OrderSuccessIs ==
  ASSUME NEW s \in Storages, NEW p \in Pointers
  PROVE  OrderSuccess(s, p) = CarriedOut(s, p)
<1> DEFINE off == [s EXCEPT !.active = @ \ {p}]
           moved == [off EXCEPT !.executed = @ \cup {p}]
<1>1. OrderSuccess(s, p) = [moved EXCEPT !.orders[p].status = "SUCCESS"]
  BY Zenon DEF OrderSuccess
<1>2. off = [orders |-> s.orders, active |-> s.active \ {p}, executed |-> s.executed,
             held |-> s.held, fees |-> s.fees, ok |-> s.ok]
  <2>1. s = [orders |-> s.orders, active |-> s.active, executed |-> s.executed,
             held |-> s.held, fees |-> s.fees, ok |-> s.ok]
    BY StorageIs
  <2> QED BY <2>1
<1> HIDE DEF off
<1>3. off \in Storages BY <1>2 DEF Storages
<1>4. moved = [orders |-> s.orders, active |-> s.active \ {p},
               executed |-> s.executed \cup {p}, held |-> s.held,
               fees |-> s.fees, ok |-> s.ok]
  BY <1>2, <1>3 DEF Storages
<1> HIDE DEF moved
<1>5. moved \in Storages BY <1>4 DEF Storages
<1> QED BY <1>1, <1>4, <1>5 DEF CarriedOut, Storages

LEMMA CancelOrderIs ==
  ASSUME NEW s \in Storages, NEW p \in Pointers, s.orders[p] # None,
         NEW byExecutor \in BOOLEAN
  PROVE  LET o == s.orders[p]
             returned == IF byExecutor THEN s ELSE Take(s, Weth, o.executionFee)
         IN  /\ returned \in Storages
             /\ CancelOrder(s, p, byExecutor) =
                  Dropped(Take(returned, o.asset, o.amount), p)
<1> DEFINE o == s.orders[p]
           returned == IF byExecutor THEN s ELSE Take(s, Weth, o.executionFee)
           refunded == Take(returned, o.asset, o.amount)
<1>1. o.asset \in Assets /\ o.amount \in Nat /\ o.executionFee \in Nat /\ Weth \in Assets
  BY OrdersAssumption DEF Storages, Orders
<1>2. returned \in Storages BY <1>1, TakeIs
<1>3. refunded \in Storages BY <1>1, <1>2, TakeIs
<1>4. CancelOrder(s, p, byExecutor) =
        [refunded EXCEPT !.active = @ \ {p}, !.orders[p] = None]
  BY DEF CancelOrder
<1> HIDE DEF refunded
<1>5. [refunded EXCEPT !.active = @ \ {p}, !.orders[p] = None] = Dropped(refunded, p)
  <2> DEFINE off == [refunded EXCEPT !.active = @ \ {p}]
  <2>1. [refunded EXCEPT !.active = @ \ {p}, !.orders[p] = None]
          = [off EXCEPT !.orders[p] = None]
    BY Zenon
  <2>2. refunded =
          [orders |-> refunded.orders, active |-> refunded.active,
           executed |-> refunded.executed, held |-> refunded.held,
           fees |-> refunded.fees, ok |-> refunded.ok]
    BY <1>3, StorageIs
  <2>3. off = [orders |-> refunded.orders, active |-> refunded.active \ {p},
               executed |-> refunded.executed, held |-> refunded.held,
               fees |-> refunded.fees, ok |-> refunded.ok]
    BY <2>2
  <2> HIDE DEF off
  <2>4. off = [orders |-> off.orders, active |-> off.active, executed |-> off.executed,
               held |-> off.held, fees |-> off.fees, ok |-> off.ok]
        /\ off.orders = refunded.orders
    BY <2>3
  <2>5. [off EXCEPT !.orders[p] = None]
          = [orders |-> [off.orders EXCEPT ![p] = None], active |-> off.active,
             executed |-> off.executed, held |-> off.held, fees |-> off.fees,
             ok |-> off.ok]
    BY <2>4
  <2> QED BY <2>1, <2>3, <2>5 DEF off, Dropped
<1> QED BY <1>2, <1>4, <1>5 DEF refunded

(* From s to r order p is settled and fee earned: what is active falls by p, *)
(* what is held by the amount.                                               *)
Settles(s, r, p) ==
  LET o == s.orders[p]
  IN  /\ r.active = s.active \ {p}
      /\ \A q \in Pointers : q # p => r.orders[q] = s.orders[q]
      /\ r.held = Less(s.held, o.asset, o.amount)
      /\ r.fees = s.fees + o.executionFee

LEMMA RevertIs ==
  ASSUME NEW s \in Storages, NEW b
  PROVE  [s EXCEPT !.ok = b] =
           [orders |-> s.orders, active |-> s.active, executed |-> s.executed,
            held |-> s.held, fees |-> s.fees, ok |-> b]
BY DEF Storages

(* One turn of executeOrders leaves a stage, and settles the order it names. *)
LEMMA ExecuteOrderStage ==
  ASSUME NEW s, Stage(s), NEW call \in [pointer : Created, succeeds : BOOLEAN]
  PROVE  /\ Stage(ExecuteOrder(s, call))
         /\ s.orders[call.pointer] # None => Settles(s, ExecuteOrder(s, call), call.pointer)
<1> DEFINE p == call.pointer
           o == s.orders[p]
           tried == Take(s, o.asset, o.amount)
           done == IF call.succeeds /\ o.amount <= s.held[o.asset]
                   THEN OrderSuccess(tried, p) ELSE CancelOrder(s, p, TRUE)
<1>1. s \in Storages /\ p \in Created /\ p \in Pointers
  BY DEF Stage, Created
<1>2. ExecuteOrder(s, call) = IF o = None THEN [s EXCEPT !.ok = FALSE]
                              ELSE [done EXCEPT !.fees = @ + o.executionFee]
  BY DEF ExecuteOrder
<1>3. ASSUME o = None
      PROVE  Stage([s EXCEPT !.ok = FALSE])
  <2> DEFINE r == [s EXCEPT !.ok = FALSE]
  <2>1. r = [orders |-> s.orders, active |-> s.active, executed |-> s.executed,
             held |-> s.held, fees |-> s.fees, ok |-> FALSE]
    BY <1>1, RevertIs
  <2> HIDE DEF r
  <2>2. r \in Storages BY <1>1, <2>1 DEF Storages
  <2>3. Listed(r) BY <2>1 DEF Stage, Listed
  <2>4. ~r.ok BY <2>1
  <2> QED BY <2>2, <2>3, <2>4 DEF Stage, r
<1>4. ASSUME o # None
      PROVE  /\ Stage([done EXCEPT !.fees = @ + o.executionFee])
             /\ Settles(s, [done EXCEPT !.fees = @ + o.executionFee], p)
  <2> DEFINE r == [done EXCEPT !.fees = @ + o.executionFee]
  <2>1. /\ o \in Orders /\ o.asset \in Assets /\ o.amount \in Nat
        /\ o.executionFee \in Nat
    BY <1>1, <1>4 DEF Storages, Orders
  <2>2. tried = [orders |-> s.orders, active |-> s.active, executed |-> s.executed,
                 held |-> Less(s.held, o.asset, o.amount), fees |-> s.fees,
                 ok |-> s.ok /\ o.amount <= s.held[o.asset]]
    BY <1>1, <2>1, TakeIs
  <2>3. Stage(tried) /\ tried \in Storages BY <2>1, TakeStage, <1>1, TakeIs
  <2> HIDE DEF tried
  <2>4. /\ tried.orders = s.orders /\ tried.active = s.active
        /\ tried.held = Less(s.held, o.asset, o.amount) /\ tried.fees = s.fees
    BY <2>2
  <2>5. OrderSuccess(tried, p) = CarriedOut(tried, p) /\ Stage(CarriedOut(tried, p))
    BY <1>1, <1>4, <2>3, <2>4, OrderSuccessIs, CarriedOutStage
  <2>6. CancelOrder(s, p, TRUE) = Dropped(tried, p) /\ Stage(Dropped(tried, p))
    BY <1>1, <1>4, <2>3, CancelOrderIs, DroppedStage DEF tried
  <2>7. done = CarriedOut(tried, p) \/ done = Dropped(tried, p)
    BY <2>5, <2>6
  <2>8. Stage(done) BY <2>5, <2>6, <2>7
  <2>9. /\ done.active = s.active \ {p} /\ done.fees = s.fees
        /\ done.held = Less(s.held, o.asset, o.amount)
        /\ \A q \in Pointers : q # p => done.orders[q] = s.orders[q]
    <3> HIDE DEF done
    <3>1. CASE done = CarriedOut(tried, p)
      BY <1>1, <2>4, <3>1 DEF CarriedOut, Storages
    <3>2. CASE done = Dropped(tried, p)
      BY <1>1, <2>4, <3>2 DEF Dropped, Storages
    <3> QED BY <2>7, <3>1, <3>2
  <2> HIDE DEF done
  <2>10. done \in Storages BY <2>8 DEF Stage
  <2>11. done = [orders |-> done.orders, active |-> done.active,
                 executed |-> done.executed, held |-> done.held, fees |-> done.fees,
                 ok |-> done.ok]
    BY <2>10, StorageIs
  <2>12. r = [orders |-> done.orders, active |-> done.active,
              executed |-> done.executed, held |-> done.held,
              fees |-> done.fees + o.executionFee, ok |-> done.ok]
    BY <2>11
  <2> HIDE DEF r
  <2>13. r \in Storages BY <2>1, <2>10, <2>12 DEF Storages
  <2>14. Listed(r) BY <2>8, <2>12 DEF Stage, Listed
  <2>15. r.ok => r.held \in [Assets -> Nat] BY <2>8, <2>12 DEF Stage
  <2>16. Settles(s, r, p) BY <2>9, <2>12 DEF Settles
  <2> QED BY <2>13, <2>14, <2>15, <2>16 DEF Stage, r
<1> QED BY <1>2, <1>3, <1>4

(* An active order that is settled leaves enough for the others. *)
LEMMA SettlesEnough ==
  ASSUME NEW s, Stage(s), Enough(s), NEW r, Stage(r), NEW p \in s.active,
         Settles(s, r, p)
  PROVE  Enough(r)
<1> DEFINE o == s.orders[p]
<1>1. s \in Storages /\ r \in Storages /\ Listed(s) /\ Listed(r) /\ p \in Pointers
  BY DEF Stage, Storages
<1>2. /\ o \in Orders /\ o.asset \in Assets /\ o.amount \in Nat
      /\ o.executionFee \in Nat
  BY <1>1 DEF Storages, Orders, Listed
<1> SUFFICES ASSUME NEW x \in Assets
             PROVE  r.held[x] >= DueIn(r, x) + (IF x = Weth THEN r.fees ELSE 0)
  BY DEF Enough
<1>3. DueIn(r, x) = DueIn(s, x) - Share(o, x)
  BY <1>1, DueFalls DEF Settles
<1>4. DueIn(s, x) \in Nat BY <1>1, DueNat
<1>5. s.held[x] \in Int /\ s.fees \in Nat BY <1>1 DEF Storages
<1>6. r.held[x] = s.held[x] - (IF o.asset = x THEN o.amount ELSE 0)
  BY <1>1, <1>2 DEF Settles, Less, Storages
<1>7. r.fees = s.fees + o.executionFee BY DEF Settles
<1>8. s.held[x] >= DueIn(s, x) + (IF x = Weth THEN s.fees ELSE 0) BY DEF Enough
<1>9. Share(o, x) = (IF o.asset = x THEN o.amount ELSE 0)
                    + (IF x = Weth THEN o.executionFee ELSE 0)
  BY DEF Share
<1> HIDE DEF o
<1> QED BY <1>2, <1>3, <1>4, <1>5, <1>6, <1>7, <1>8, <1>9

-----------------------------------------------------------------------------
(* The steps. *)

(* A call of executeOrders begins at a stage, with enough for what is active *)
(* if no call lands late.                                                    *)
LEMMA StorageStage ==
  ASSUME OrdersInv
  PROVE  /\ Stage(Storage)
         /\ ~late => Enough(Storage)
<1>1. /\ Storage.orders = liquidityOrders /\ Storage.active = active
      /\ Storage.executed = executed /\ Storage.held = held
      /\ Storage.fees = 0 /\ Storage.ok
  BY DEF Storage
<1>2. Storage \in Storages BY DEF Storage, Storages, OrdersInv, TypeOK
<1>3. Listed(Storage) BY <1>1 DEF Listed, OrdersInv, ListsAgree
<1>4. Storage.held \in [Assets -> Nat] BY <1>1 DEF OrdersInv, TypeOK
<1>5. ASSUME NEW x \in Assets
      PROVE  DueIn(Storage, x) = Due(x)
  BY <1>1 DEF DueIn, DueFor, Due
<1>6. ASSUME ~late
      PROVE  Enough(Storage)
  <2> SUFFICES ASSUME NEW x \in Assets
               PROVE  Storage.held[x] >= DueIn(Storage, x)
                                           + (IF x = Weth THEN Storage.fees ELSE 0)
    BY DEF Enough
  <2>1. held[x] >= Due(x) BY <1>6 DEF OrdersInv, HoldsPending
  <2>2. DueIn(Storage, x) \in Nat BY <1>2, <1>3, DueNat
  <2> QED BY <1>1, <1>5, <2>1, <2>2
<1> QED BY <1>2, <1>3, <1>4, <1>6 DEF Stage

(* Paying the fees that the executor has earned leaves what is due. *)
LEMMA FeesPaid ==
  ASSUME NEW s, Stage(s)
  PROVE  /\ Stage(Take(s, Weth, s.fees))
         /\ Enough(s) => Covers(Take(s, Weth, s.fees))
<1> DEFINE r == Take(s, Weth, s.fees)
<1>1. s \in Storages /\ s.fees \in Nat /\ Weth \in Assets
  BY OrdersAssumption DEF Stage, Storages
<1>2. Stage(r) BY <1>1, TakeStage
<1>3. r = [orders |-> s.orders, active |-> s.active, executed |-> s.executed,
           held |-> Less(s.held, Weth, s.fees), fees |-> s.fees,
           ok |-> s.ok /\ s.fees <= s.held[Weth]]
  BY <1>1, TakeIs
<1> HIDE DEF r
<1>4. /\ r.orders = s.orders /\ r.active = s.active
      /\ r.held = Less(s.held, Weth, s.fees)
  BY <1>3
<1>5. ASSUME Enough(s), NEW x \in Assets
      PROVE  r.held[x] >= DueIn(r, x)
  <2>1. DueIn(r, x) = DueIn(s, x) BY <1>4 DEF DueIn, DueFor
  <2>2. DueIn(s, x) \in Nat BY <1>1, DueNat DEF Stage
  <2>3. s.held[x] >= DueIn(s, x) + (IF x = Weth THEN s.fees ELSE 0)
    BY <1>5 DEF Enough
  <2>4. s.held \in [Assets -> Int] BY <1>1 DEF Storages
  <2>5. r.held[x] = s.held[x] - (IF x = Weth THEN s.fees ELSE 0)
    BY <1>1, <1>4, <2>4 DEF Less
  <2>6. s.held[x] \in Int BY <2>4
  <2> QED BY <1>1, <2>1, <2>2, <2>3, <2>5, <2>6
<1> QED BY <1>2, <1>5 DEF Covers, r

(* A call that ends at a stage keeps the invariant. *)
LEMMA CommitKeeps ==
  ASSUME OrdersInv, NEW s, Stage(s), ~late => Covers(s), Commit(s)
  PROVE  OrdersInv'
<1>1. /\ liquidityOrders' = s.orders /\ active' = s.active /\ executed' = s.executed
      /\ held' = s.held /\ liquidityOrdersIndex' = liquidityOrdersIndex
      /\ late' = late /\ s.ok
  BY DEF Commit
<1>2. s \in Storages /\ Listed(s) /\ s.held \in [Assets -> Nat]
  BY <1>1 DEF Stage
<1>3. TypeOK' /\ late' \in BOOLEAN
  BY <1>1, <1>2 DEF TypeOK, OrdersInv, Storages
<1>4. ListsAgree' BY <1>1, <1>2 DEF ListsAgree, Listed
<1>5. Created' = Created BY <1>1 DEF Created, Pointers
<1>6. (active \cup executed \subseteq Created)'
  BY <1>1, <1>2, <1>5 DEF Listed
<1>7. ASSUME ~late, NEW x \in Assets
      PROVE  held'[x] >= Due(x)'
  <2>1. Due(x)' = DueIn(s, x) BY <1>1 DEF Due, DueIn, DueFor
  <2>2. s.held[x] >= DueIn(s, x) BY <1>7 DEF Covers
  <2> QED BY <1>1, <2>1, <2>2
<1>8. HoldsPending' BY <1>1, <1>7 DEF HoldsPending
<1> QED BY <1>3, <1>4, <1>6, <1>8 DEF OrdersInv

(* What is cancelled takes its own share with it, unless its fee is earned.  *)
LEMMA CancelCovers ==
  ASSUME NEW s, Stage(s), NEW p \in Created, s.orders[p] # None,
         NEW byExecutor \in BOOLEAN
  PROVE  /\ Stage(CancelOrder(s, p, byExecutor))
         /\ Enough(s) /\ p \in s.active => Covers(CancelOrder(s, p, byExecutor))
<1> DEFINE o == s.orders[p]
           returned == IF byExecutor THEN s ELSE Take(s, Weth, o.executionFee)
           refunded == Take(returned, o.asset, o.amount)
           r == Dropped(refunded, p)
<1>1. s \in Storages /\ p \in Pointers BY DEF Stage, Created
<1>2. /\ o \in Orders /\ o.asset \in Assets /\ o.amount \in Nat
      /\ o.executionFee \in Nat /\ Weth \in Assets
  BY <1>1, OrdersAssumption DEF Storages, Orders
<1>3. CancelOrder(s, p, byExecutor) = r /\ returned \in Storages
  BY <1>1, CancelOrderIs
<1>4. Stage(returned) BY <1>2, TakeStage
<1>5. /\ returned.orders = s.orders /\ returned.active = s.active
      /\ \A x \in Assets :
            returned.held[x] = s.held[x] - (IF byExecutor \/ x # Weth THEN 0
                                            ELSE o.executionFee)
  <2>1. s.held \in [Assets -> Int] BY <1>1 DEF Storages
  <2>2. CASE byExecutor BY <2>1, <2>2
  <2>3. CASE ~byExecutor
    <3>1. returned =
            [orders |-> s.orders, active |-> s.active, executed |-> s.executed,
             held |-> Less(s.held, Weth, o.executionFee), fees |-> s.fees,
             ok |-> s.ok /\ o.executionFee <= s.held[Weth]]
      BY <1>1, <1>2, <2>3, TakeIs
    <3> HIDE DEF returned
    <3> QED BY <1>2, <2>1, <2>3, <3>1 DEF Less
  <2> QED BY <2>2, <2>3
<1> HIDE DEF returned
<1>6. /\ refunded.orders = returned.orders /\ refunded.active = returned.active
      /\ \A x \in Assets :
            refunded.held[x] = returned.held[x] - (IF x = o.asset THEN o.amount ELSE 0)
  <2>1. refunded =
          [orders |-> returned.orders, active |-> returned.active,
           executed |-> returned.executed,
           held |-> Less(returned.held, o.asset, o.amount), fees |-> returned.fees,
           ok |-> returned.ok /\ o.amount <= returned.held[o.asset]]
    BY <1>2, <1>3, TakeIs
  <2>2. returned.held \in [Assets -> Int] BY <1>3 DEF Storages
  <2> HIDE DEF refunded
  <2> QED BY <1>2, <2>1, <2>2 DEF Less
<1>7. Stage(refunded) BY <1>2, <1>4, TakeStage
<1> HIDE DEF refunded
<1>8. Stage(r) BY <1>1, <1>7, DroppedStage
<1>9. /\ r.active = s.active \ {p}
      /\ \A q \in Pointers : q # p => r.orders[q] = s.orders[q]
      /\ r.held = refunded.held
  <2>1. refunded \in Storages BY <1>7 DEF Stage
  <2> QED BY <1>1, <1>5, <1>6, <2>1 DEF Dropped, Storages
<1> HIDE DEF r
<1>10. ASSUME Enough(s), p \in s.active, NEW x \in Assets
       PROVE  r.held[x] >= DueIn(r, x)
  <2>1. DueIn(r, x) = DueIn(s, x) - Share(o, x)
    BY <1>1, <1>8, <1>9, <1>10, DueFalls DEF Stage
  <2>2. DueIn(s, x) \in Nat BY <1>1, DueNat DEF Stage
  <2>3. s.held[x] \in Int /\ s.fees \in Nat BY <1>1 DEF Storages
  <2>4. s.held[x] >= DueIn(s, x) + (IF x = Weth THEN s.fees ELSE 0)
    BY <1>10 DEF Enough
  <2>5. Share(o, x) = (IF o.asset = x THEN o.amount ELSE 0)
                      + (IF x = Weth THEN o.executionFee ELSE 0)
    BY DEF Share
  <2>6. r.held[x] = s.held[x] - (IF byExecutor \/ x # Weth THEN 0 ELSE o.executionFee)
                    - (IF x = o.asset THEN o.amount ELSE 0)
    BY <1>5, <1>6, <1>9
  <2> HIDE DEF o
  <2> QED BY <1>2, <2>1, <2>2, <2>3, <2>4, <2>5, <2>6
<1> QED BY <1>3, <1>8, <1>10 DEF Covers

(* What a call may name was created, and is active if no call lands late.    *)
LEMMA NamedIs ==
  ASSUME OrdersInv
  PROVE  Named \subseteq Created /\ (~late => Named = active)
BY DEF Named, OrdersInv, Created

(* A batch is a list of calls that, if none lands late, name distinct orders *)
(* that are active.                                                          *)
LEMMA BatchIs ==
  ASSUME OrdersInv, NEW batch \in Batches
  PROVE  /\ Len(batch) \in Nat
         /\ \A i \in 1 .. Len(batch) :
              /\ batch[i] \in [pointer : Created, succeeds : BOOLEAN]
              /\ ~late => batch[i].pointer \in active
         /\ ~late => \A i, j \in 1 .. Len(batch) :
                        i # j => batch[i].pointer # batch[j].pointer
<1>1. PICK n \in 1 .. MaxBatch : batch \in [1 .. n -> Calls]
  BY DEF Batches
<1>2. n \in Nat /\ batch \in Seq(Calls)
  BY <1>1, OrdersAssumption, SeqDef
<1>3. Len(batch) \in Nat /\ DOMAIN batch = 1 .. Len(batch)
  BY <1>2, LenProperties
<1>4. \A i \in 1 .. Len(batch) : batch[i] \in Calls BY <1>1, <1>3
<1>5. \A c \in Calls : /\ c \in [pointer : Created, succeeds : BOOLEAN]
                       /\ ~late => c.pointer \in active
  BY NamedIs DEF Calls
<1>6. ASSUME ~late
      PROVE  \A i, j \in DOMAIN batch : i # j => batch[i].pointer # batch[j].pointer
  BY <1>6 DEF Batches
<1> QED BY <1>3, <1>4, <1>5, <1>6

(* executeOrders ends its loop at a stage; and if no call lands late, with   *)
(* enough for the orders that are still active: each turn settles one that   *)
(* was, and that no earlier turn has settled.                                *)
LEMMA ExecuteLoop ==
  ASSUME OrdersInv, NEW batch \in Batches
  PROVE  LET end == Through(batch, ExecuteOrder, Storage)
         IN  Stage(end) /\ (~late => Enough(end))
<1> DEFINE S == {s \in Storages : Stage(s)}
           n == Len(batch)
           Leg(s, i) == ExecuteOrder(s, batch[i])
           step == [x \in S \X (1 .. n) |-> Leg(x[1], x[2])]
           Body(g) == [i \in 0 .. n |-> IF i = 0 THEN Storage ELSE Leg(g[i - 1], i)]
           after == CHOOSE g : g = Body(g)
<1>1. n \in Nat /\ \A i \in 1 .. n : batch[i] \in [pointer : Created, succeeds : BOOLEAN]
  BY BatchIs
<1>2. Storage \in S BY StorageStage DEF Stage
<1>3. \A s \in S, i \in 1 .. n : Leg(s, i) \in S
  <2> SUFFICES ASSUME NEW s \in S, NEW i \in 1 .. n PROVE Leg(s, i) \in S
    OBVIOUS
  <2>1. Stage(s) OBVIOUS
  <2>2. Stage(ExecuteOrder(s, batch[i])) BY <1>1, <2>1, ExecuteOrderStage
  <2> QED BY <2>2 DEF Stage
<1>4. Through(batch, ExecuteOrder, Storage) = after[n]
  BY DEF Through
<1> HIDE DEF S, n, Leg
<1>5. step \in [S \X (1 .. n) -> S]
  BY <1>3
<1>6. PICK f \in [0 .. n -> S] : IsRun(f, n, Storage, step)
  <2> HIDE DEF step
  <2> QED BY <1>1, <1>2, <1>5, RunExists
<1>7. f = Body(f)
  <2>1. f = [i \in 0 .. n |-> IF i = 0 THEN Storage ELSE step[<<f[i - 1], i>>]]
    BY <1>6 DEF IsRun
  <2>2. ASSUME NEW i \in 0 .. n, i # 0
        PROVE  step[<<f[i - 1], i>>] = Leg(f[i - 1], i)
    <3>1. <<f[i - 1], i>> \in S \X (1 .. n) BY <1>1, <2>2
    <3> QED BY <3>1
  <2> HIDE DEF step
  <2> QED BY <2>1, <2>2
<1>8. after = Body(after)
  <2> HIDE DEF Body
  <2> QED BY <1>7
<1> HIDE DEF after
<1>9. after[0] = Storage /\ \A i \in 1 .. n : after[i] = Leg(after[i - 1], i)
  BY <1>1, <1>8
<1> HIDE DEF Body
<1>10. after[n] \in S
  <2>1. \A i \in 1 .. n : after[i - 1] \in S => after[i] \in S
    BY <1>1, <1>3, <1>9
  <2> QED BY <1>1, <1>2, <1>9, <2>1, RunInvariant
<1>11. ASSUME ~late PROVE Enough(after[n])
  <2> DEFINE Left(i) == \A j \in 1 .. n : i < j => batch[j].pointer \in after[i].active
             Good(i) == after[i] \in S /\ Enough(after[i]) /\ Left(i)
             G == {i \in 0 .. n : Good(i)}
  <2>1. Good(0)
    <3>1. Enough(Storage) /\ Storage.active = active
      BY <1>11, StorageStage DEF Storage
    <3>2. \A j \in 1 .. n : batch[j].pointer \in active BY <1>11, BatchIs DEF n
    <3> QED BY <1>2, <1>9, <3>1, <3>2
  <2>2. ASSUME NEW i \in 1 .. n, Good(i - 1) PROVE Good(i)
    <3> DEFINE s == after[i - 1]
               r == after[i]
               p == batch[i].pointer
    <3>1. i - 1 < i /\ \A j \in 1 .. n : i < j => i - 1 < j /\ j # i
      BY <1>1
    <3>2. p \in s.active BY <2>2, <3>1
    <3>3. s \in Storages /\ Stage(s) /\ Enough(s) BY <2>2 DEF S
    <3>4. r = ExecuteOrder(s, batch[i]) BY <1>9 DEF Leg
    <3>5. s.orders[p] # None BY <3>2, <3>3 DEF Stage, Listed, Storages
    <3>6. Stage(r) /\ Settles(s, r, p) BY <1>1, <3>3, <3>4, <3>5, ExecuteOrderStage
    <3>7. Enough(r) BY <3>2, <3>3, <3>6, SettlesEnough
    <3>8. \A j \in 1 .. n : i < j => batch[j].pointer # p
      BY <1>11, <3>1, BatchIs DEF n
    <3>9. Left(i)
      <4> SUFFICES ASSUME NEW j \in 1 .. n, i < j PROVE batch[j].pointer \in r.active
        OBVIOUS
      <4>1. batch[j].pointer \in s.active BY <2>2, <3>1
      <4> QED BY <3>6, <3>8, <4>1 DEF Settles
    <3> QED BY <3>6, <3>7, <3>9 DEF S, Stage
  <2> HIDE DEF Good
  <2>3. 0 \in G /\ \A i \in 1 .. n : i - 1 \in G => i \in G
    BY <1>1, <2>1, <2>2
  <2>4. n \in G
    <3> HIDE DEF G
    <3> QED BY <1>1, <2>3, HoldsAtEnd
  <2>5. Good(n) BY <1>1, <2>4
  <2> QED BY <2>5 DEF Good
<1> QED BY <1>4, <1>10, <1>11 DEF S

(* Executing and cancelling keep the invariant. *)
LEMMA ExecuteOrdersKeeps ==
  ASSUME OrdersInv, NEW batch \in Batches, ExecuteOrders(batch)
  PROVE  OrdersInv'
<1> DEFINE end == Through(batch, ExecuteOrder, Storage)
           paid == Take(end, Weth, end.fees)
<1>1. Stage(end) /\ (~late => Enough(end)) BY ExecuteLoop
<1>2. Commit(paid) BY DEF ExecuteOrders
<1> HIDE DEF end
<1>3. Stage(paid) /\ (~late => Covers(paid)) BY <1>1, FeesPaid
<1> HIDE DEF paid
<1> QED BY <1>2, <1>3, CommitKeeps

LEMMA CancelKeeps ==
  ASSUME OrdersInv, NEW p \in Named, CancelLiquidityOrder(p)
  PROVE  OrdersInv'
<1> DEFINE byExecutor == p[1] \in OrderExecutors
           s == CancelOrder(Storage, p, byExecutor)
<1>1. Stage(Storage) /\ (~late => Enough(Storage)) BY StorageStage
<1>2. /\ p \in Created /\ Storage.orders[p] # None
      /\ ~late => p \in Storage.active
  BY NamedIs DEF CancelLiquidityOrder, Storage
<1>3. byExecutor \in BOOLEAN OBVIOUS
<1>4. Stage(s) /\ (~late => Covers(s)) BY <1>1, <1>2, <1>3, CancelCovers
<1>5. Commit(s) BY DEF CancelLiquidityOrder
<1> HIDE DEF s
<1> QED BY <1>4, <1>5, CommitKeeps

(* A new order brings what is due for it; its pointer was never used.        *)
LEMMA CreateKeeps ==
  ASSUME OrdersInv, NEW a \in SubAccounts, NEW r \in Requests, CreateOrder(a, r)
  PROVE  OrdersInv'
<1> DEFINE p == <<a, liquidityOrdersIndex[a]>>
           o == Order(r, "PENDING")
           paid == [held EXCEPT ![r.asset] = @ + r.amount]
<1>1. /\ liquidityOrdersIndex[a] < MaxOrders
      /\ liquidityOrdersIndex' = [liquidityOrdersIndex EXCEPT ![a] = @ + 1]
      /\ liquidityOrders' = [liquidityOrders EXCEPT ![p] = o]
      /\ active' = active \cup {p} /\ executed' = executed /\ late' = late
      /\ held' = [paid EXCEPT ![Weth] = @ + r.executionFee]
  BY DEF CreateOrder
<1>2. TypeOK /\ ListsAgree /\ active \cup executed \subseteq Created
  BY DEF OrdersInv
<1>3. /\ r.asset \in Assets /\ r.amount \in Nat /\ r.executionFee \in Nat
      /\ Weth \in Assets /\ MaxOrders \in Nat
  BY OrdersAssumption
<1>4. o \in Orders /\ o # None /\ o.status = "PENDING"
      /\ o.asset = r.asset /\ o.amount = r.amount /\ o.executionFee = r.executionFee
  BY <1>3, OrdersAssumption DEF Order, Orders, Status
<1>5. liquidityOrdersIndex[a] \in 0 .. MaxOrders - 1
  BY <1>1, <1>2, <1>3 DEF TypeOK
<1>6. p \in Pointers /\ p \notin Created
  BY <1>5 DEF Pointers, Created
<1>7. p \notin active /\ p \notin executed BY <1>2, <1>6
<1> HIDE DEF o
<1>8. liquidityOrders' \in [Pointers -> Orders \cup {None}]
  BY <1>1, <1>2, <1>4, <1>6 DEF TypeOK
<1>9. liquidityOrdersIndex' \in [SubAccounts -> 0 .. MaxOrders]
  BY <1>1, <1>2, <1>3, <1>5 DEF TypeOK
<1>10. /\ held' \in [Assets -> Nat]
       /\ \A x \in Assets : held'[x] = held[x] + Share(o, x)
  <2>1. held \in [Assets -> Nat] BY <1>2 DEF TypeOK
  <2>2. /\ paid \in [Assets -> Nat]
        /\ \A x \in Assets : paid[x] = held[x] + (IF o.asset = x THEN o.amount ELSE 0)
    BY <1>3, <1>4, <2>1
  <2> HIDE DEF paid
  <2> QED BY <1>1, <1>3, <1>4, <2>1, <2>2 DEF Share
<1>11. active' \subseteq Pointers /\ executed' \subseteq Pointers
  BY <1>1, <1>2, <1>6 DEF TypeOK
<1>12. TypeOK' BY <1>8, <1>9, <1>10, <1>11 DEF TypeOK
<1>13. ListsAgree'
  BY <1>1, <1>2, <1>4, <1>6, <1>7 DEF ListsAgree, TypeOK
<1>14. (active \cup executed \subseteq Created)'
  <2>1. Created \subseteq Created'
    <3>1. \A b \in SubAccounts : liquidityOrdersIndex[b] <= liquidityOrdersIndex'[b]
      BY <1>1, <1>2 DEF TypeOK
    <3>2. \A q \in Pointers : q[1] \in SubAccounts /\ q[2] \in Int BY DEF Pointers
    <3>3. \A b \in SubAccounts : /\ liquidityOrdersIndex[b] \in Int
                                 /\ liquidityOrdersIndex'[b] \in Int
      BY <1>2, <1>9 DEF TypeOK
    <3> QED BY <3>1, <3>2, <3>3 DEF Created, Pointers
  <2>2. p \in Created'
    BY <1>1, <1>2, <1>5, <1>6 DEF Created, TypeOK, Pointers
  <2> QED BY <1>1, <1>2, <2>1, <2>2
<1>15. ASSUME ~late, NEW x \in Assets
       PROVE  held'[x] >= Due(x)'
  <2> DEFINE due(orders, act, q) == IF q \in act THEN Share(orders[q], x) ELSE 0
             f == [q \in Pointers |-> due(liquidityOrders, active, q)]
             h == [q \in Pointers |-> due(liquidityOrders', active', q)]
  <2>1. Due(x) = SumOver(Pointers, f) /\ Due(x)' = SumOver(Pointers, h)
    BY DEF Due
  <2>2. f \in [Pointers -> Int] /\ h \in [Pointers -> Int]
    <3>1. \A q \in Pointers : q \in active => Share(liquidityOrders[q], x) \in Int
      BY <1>2, ShareNat DEF ListsAgree, TypeOK
    <3>2. \A q \in Pointers : q \in active' => Share(liquidityOrders'[q], x) \in Int
      BY <1>8, <1>13, ShareNat DEF ListsAgree
    <3> QED BY <3>1, <3>2
  <2>3. f[p] = 0 /\ h[p] = Share(o, x) BY <1>1, <1>2, <1>6, <1>7 DEF TypeOK
  <2>4. \A q \in Pointers : q # p => h[q] = f[q] BY <1>1, <1>2 DEF TypeOK
  <2> HIDE DEF f, h, Due
  <2>5. SumOver(Pointers, h) = SumOver(Pointers, f) - f[p] + h[p]
    BY <1>6, <2>2, <2>4, PointersFinite, SumUpdate
  <2>6. SumOver(Pointers, f) \in Int BY <2>2, PointersFinite, SumInt
  <2>7. held[x] >= Due(x) BY <1>15 DEF OrdersInv, HoldsPending
  <2>8. held[x] \in Int /\ Share(o, x) \in Int
    BY <1>2, <1>4, ShareNat DEF TypeOK
  <2> QED BY <1>10, <2>1, <2>3, <2>5, <2>6, <2>7, <2>8
<1>16. HoldsPending' BY <1>1, <1>15 DEF HoldsPending
<1> QED BY <1>1, <1>12, <1>13, <1>14, <1>16 DEF OrdersInv

LEMMA OrdersInitInv == ASSUME Init PROVE OrdersInv
<1>1. ASSUME NEW x \in Assets PROVE Due(x) = 0
  <2>1. Due(x) = SumOver(Pointers, [p \in Pointers |-> 0]) BY DEF Due, Init
  <2> QED BY <2>1, PointersFinite, SumZero
<1>2. TypeOK BY OrdersAssumption DEF TypeOK, Init
<1>3. ListsAgree BY DEF ListsAgree, Init
<1>4. HoldsPending BY <1>1 DEF HoldsPending, Init
<1> QED BY <1>2, <1>3, <1>4, OrdersAssumption DEF OrdersInv, Init

LEMMA OrdersStepKeeps == ASSUME OrdersInv, [Next]_vars PROVE OrdersInv'
<1>1. CASE \E a \in SubAccounts, r \in Requests : CreateOrder(a, r)
  BY <1>1, CreateKeeps
<1>2. CASE \E batch \in Batches : ExecuteOrders(batch)
  BY <1>2, ExecuteOrdersKeeps
<1>3. CASE \E p \in Named : CancelLiquidityOrder(p)
  BY <1>3, CancelKeeps
<1>4. CASE UNCHANGED vars
  BY <1>4 DEF vars, OrdersInv, TypeOK, ListsAgree, HoldsPending, Due, Created
<1> QED BY <1>1, <1>2, <1>3, <1>4 DEF Next

-----------------------------------------------------------------------------
(* Theorems. *)

(* The invariant holds always, whatever orders are created, in whatever      *)
(* batches they are executed, and whether calls land late or not.            *)
THEOREM OrdersInvariance == Spec => []OrdersInv
<1>1. Init => OrdersInv BY OrdersInitInv
<1>2. OrdersInv /\ [Next]_vars => OrdersInv' BY OrdersStepKeeps
<1> QED BY <1>1, <1>2, PTL DEF Spec

(* Storage is well typed; above all, no transfer takes more than the handler *)
(* has, however a batch mixes successes, refunds and fees.                   *)
THEOREM OrdersTypeCorrect == Spec => []TypeOK
<1>1. OrdersInv => TypeOK BY DEF OrdersInv
<1> QED BY <1>1, OrdersInvariance, PTL

(* While no call lands late, the handler can settle every active order:      *)
(* refunds in the middle of a batch, fees and cancellations each take their  *)
(* own order's share (_executeOrder, _cancelOrder).                          *)
THEOREM HoldsForPending == Spec => []HoldsPending
<1>1. OrdersInv => HoldsPending BY DEF OrdersInv
<1> QED BY <1>1, OrdersInvariance, PTL

(* An order is listed active exactly while it is pending, and one listed     *)
(* active was never executed: late calls, repeats and failures included.     *)
THEOREM OrderListsAgree == Spec => []ListsAgree
<1>1. OrdersInv => ListsAgree BY DEF OrdersInv
<1> QED BY <1>1, OrdersInvariance, PTL

=============================================================================
