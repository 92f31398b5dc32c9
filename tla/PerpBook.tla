------------------------------- MODULE PerpBook -------------------------------
(* storages/PerpStorage.sol and what TradeService, LiquidationService and    *)
(* TradeHelper write in it: the positions, the lists they are found by, and  *)
(* the totals that the pool's value and the funding fee surplus are computed *)
(* from.  Prices, profits and collateral are left out: what depends on them  *)
(* may refuse a call, or settle less than is owed (VaultLedger).             *)
EXTENDS Sums, FiniteSets

CONSTANTS
  SubAccounts, Markets,
  AssetClasses, assetClass,  \* market -> its asset class
  SizeDeltas,          \* the sizes of orders
  MaxPositionSize,     \* market -> its maxLongPositionSize and maxShortPositionSize
  MinimumPositionSize,
  MaxPosition,         \* tradingConfig.maxPosition: how many a sub-account may have
  Configs,             \* market -> the configs it may get: is it listed, and its initial
                       \* margin fraction times maximum profit rate
  FundingRates,        \* market -> the funding rates that the owner may set
  Tvl, MaxReserve,     \* the pool's value, and how much of it may be reserved
  BaseBorrowingRate, MaxFundingRate, MaxSkewScale, FundingInterval,
  RatePrecision,       \* RATE_PRECISION: what rates are fractions of
  MaxFunds,            \* bound on the funding fee reserve
  MaxTime              \* bound on the clock

ASSUME BookAssumption ==
  /\ IsFiniteSet(SubAccounts) /\ IsFiniteSet(Markets) /\ IsFiniteSet(AssetClasses)
  /\ assetClass \in [Markets -> AssetClasses]
  /\ SizeDeltas \subseteq Nat \ {0}
  /\ Configs \in [Markets -> SUBSET [active : BOOLEAN, reserveRate : Nat]]
  /\ FundingRates \in [Markets -> SUBSET Int]
  /\ MaxPositionSize \in [Markets -> Nat]
  /\ MinimumPositionSize \in Nat /\ MaxPosition \in Nat
  /\ Tvl \in Nat \ {0} /\ MaxReserve \in Nat /\ BaseBorrowingRate \in Nat
  /\ MaxFundingRate \in Nat /\ MaxSkewScale \in Nat \ {0}
  /\ FundingInterval \in Nat \ {0} /\ RatePrecision \in Nat \ {0}
  /\ MaxFunds \in Nat /\ MaxTime \in Nat

VARIABLES
  book,               \* PerpStorage
  config,             \* market -> its config (ConfigStorage)
  fundingFeeReserve,  \* the vault's, in value of the one stable token it is in
  time                \* block.timestamp, in days

vars == <<book, config, fundingFeeReserve, time>>

(* getPositionId: a sub-account and a market. *)
PositionIds == SubAccounts \X Markets
NoPosition == [size |-> 0, reserve |-> 0, entryBorrowingRate |-> 0, lastFundingAccrued |-> 0]
IsLong(p) == p.size > 0
Abs(n) == IF n < 0 THEN -n ELSE n
Sides == {"long", "short"}
SideOf(p) == IF IsLong(p) THEN "long" ELSE "short"

(* Solidity's division truncates towards zero. *)
Quotient(n, d) == IF n < 0 THEN -((-n) \div d) ELSE n \div d

NewMarket ==
  [size |-> [side \in Sides |-> 0], accumFunding |-> [side \in Sides |-> 0],
   currentFundingRate |-> 0, fundingAccrued |-> 0, lastFundingTime |-> 0]
NewClass ==
  [reserve |-> 0, sumBorrowingRate |-> 0, lastBorrowingTime |-> 0,
   sumBorrowingFee |-> 0, sumSettledBorrowingFee |-> 0]
EmptyBook ==
  [positions |-> [id \in PositionIds |-> NoPosition],
   subAccountPositionIds |-> [a \in SubAccounts |-> <<>>],
   activePositionIds |-> {}, activeSubAccounts |-> {},
   markets |-> [m \in Markets |-> NewMarket],
   classes |-> [c \in AssetClasses |-> NewClass],
   reserve |-> 0]

Init ==
  /\ book = EmptyBook
  /\ config \in [Markets -> UNION {Configs[m] : m \in Markets}]
  /\ \A m \in Markets : config[m] \in Configs[m] /\ config[m].active
  /\ fundingFeeReserve = 0
  /\ time = FundingInterval

-----------------------------------------------------------------------------
(* PerpStorage's lists. *)

savePosition(b, id, p) ==
  LET new == b.positions[id].size = 0
      listed == [b EXCEPT !.subAccountPositionIds[id[1]] = Append(@, id),
                          !.activePositionIds = @ \cup {id},
                          !.activeSubAccounts = @ \cup {id[1]}]
  IN  [(IF new THEN listed ELSE b) EXCEPT !.positions[id] = p]

(* A wrong variant, for PositionsListed to notice: popped without swapping. *)
PopWithoutSwap(list, id) == SubSeq(list, 1, Len(list) - 1)

SwapWithLastAndPop(list, id) ==
  [i \in 1 .. Len(list) - 1 |-> IF list[i] = id THEN list[Len(list)] ELSE list[i]]

removePositionFromSubAccount(b, id) ==
  LET found == \E i \in DOMAIN b.subAccountPositionIds[id[1]] :
                  b.subAccountPositionIds[id[1]][i] = id
      removed == [b EXCEPT !.subAccountPositionIds[id[1]] = SwapWithLastAndPop(@, id),
                           !.positions[id] = NoPosition,
                           !.activePositionIds = @ \ {id}]
      end == IF found THEN removed ELSE b
  IN  IF end.subAccountPositionIds[id[1]] = <<>>
      THEN [end EXCEPT !.activeSubAccounts = @ \ {id[1]}] ELSE end

(* The reserve of a position, globally and in its asset class; the size of   *)
(* its side of the market.                                                   *)
ChangeReserve(b, c, delta) ==
  [b EXCEPT !.reserve = @ + delta, !.classes[c].reserve = @ + delta]
ChangeSize(b, m, side, delta) == [b EXCEPT !.markets[m].size[side] = @ + delta]

-----------------------------------------------------------------------------
(* TradeHelper's rates and fees.  A fee is truncated where it is computed:   *)
(* on a total each time the total accrues, on a position for all the time    *)
(* since it last settled.                                                    *)

LastInterval == (time \div FundingInterval) * FundingInterval

updateBorrowingRate(b, c) ==
  LET k == b.classes[c]
      intervals == (time - k.lastBorrowingTime) \div FundingInterval
      rate == (BaseBorrowingRate * k.reserve * intervals) \div Tvl
      accrued == [k EXCEPT !.sumBorrowingRate = @ + rate, !.lastBorrowingTime = LastInterval,
                           !.sumBorrowingFee = @ + (k.reserve * rate) \div RatePrecision]
  IN  IF k.lastBorrowingTime = 0
      THEN [b EXCEPT !.classes[c].lastBorrowingTime = LastInterval]
      ELSE IF k.lastBorrowingTime + FundingInterval > time THEN b
      ELSE [b EXCEPT !.classes[c] = accrued]

getFundingRateVelocity(k) ==
  LET ratio == Quotient((k.size["long"] - k.size["short"]) * MaxFundingRate, MaxSkewScale)
  IN  IF ratio > MaxFundingRate THEN MaxFundingRate
      ELSE IF ratio < -MaxFundingRate THEN -MaxFundingRate ELSE ratio

getFundingFee(size, current, last) == Quotient(size * (current - last), RatePrecision)

updateFundingRate(b, m) ==
  LET k == b.markets[m]
      elapsed == time - k.lastFundingTime
      rate == k.currentFundingRate + getFundingRateVelocity(k) * elapsed
      accrued == k.fundingAccrued + Quotient((k.currentFundingRate + rate) * elapsed, 2)
      fee == [long |-> getFundingFee(k.size["long"], accrued, k.fundingAccrued),
              short |-> getFundingFee(-k.size["short"], accrued, k.fundingAccrued)]
      market == [k EXCEPT !.currentFundingRate = rate, !.fundingAccrued = accrued,
                          !.accumFunding = [side \in Sides |-> @[side] + fee[side]],
                          !.lastFundingTime = LastInterval]
  IN  IF k.lastFundingTime = 0
      THEN [b EXCEPT !.markets[m].lastFundingTime = LastInterval]
      ELSE IF k.lastFundingTime + FundingInterval > time THEN b
      ELSE [b EXCEPT !.markets[m] = market]

UpdateRates(b, m) == updateFundingRate(updateBorrowingRate(b, assetClass[m]), m)

(* _updateFeeStates: what position p owes leaves what is to be settled.      *)
BorrowingFee(b, id, p) ==
  (p.reserve * (b.classes[assetClass[id[2]]].sumBorrowingRate - p.entryBorrowingRate))
    \div RatePrecision
FundingFee(b, id, p) ==
  getFundingFee(p.size, b.markets[id[2]].fundingAccrued, p.lastFundingAccrued)

(* A wrong variant, for FundingAddsUp to notice: every position settles the  *)
(* funding of the longs.                                                     *)
FundingOfLongs(b, id, p) ==
  [b EXCEPT !.classes[assetClass[id[2]]].sumSettledBorrowingFee = @ + BorrowingFee(b, id, p),
            !.markets[id[2]].accumFunding["long"] = @ - FundingFee(b, id, p)]

updateFeeStates(b, id, p) ==
  [b EXCEPT !.classes[assetClass[id[2]]].sumSettledBorrowingFee = @ + BorrowingFee(b, id, p),
            !.markets[id[2]].accumFunding[SideOf(p)] = @ - FundingFee(b, id, p)]

(* The position as of the current rates, which it has settled.  (And a wrong *)
(* variant, for BorrowingAddsUp to notice: it keeps its entry rate.)         *)
SettledFundingOnly(b, id, p, size, reserve) ==
  [size |-> size, reserve |-> reserve, entryBorrowingRate |-> p.entryBorrowingRate,
   lastFundingAccrued |-> b.markets[id[2]].fundingAccrued]

Settled(b, id, p, size, reserve) ==
  [size |-> size, reserve |-> reserve,
   entryBorrowingRate |-> b.classes[assetClass[id[2]]].sumBorrowingRate,
   lastFundingAccrued |-> b.markets[id[2]].fundingAccrued]

(* A trader's funding fee goes to the reserve, less what he cannot pay or    *)
(* the pool had advanced; a fee he is to receive comes from the reserve, and *)
(* from the pool what the reserve does not have.                             *)
SettleFunding(fee) ==
  IF fee < 0
  THEN fundingFeeReserve' = IF fundingFeeReserve + fee < 0 THEN 0 ELSE fundingFeeReserve + fee
  ELSE /\ fundingFeeReserve' \in fundingFeeReserve .. fundingFeeReserve + fee
       /\ fundingFeeReserve' <= MaxFunds

-----------------------------------------------------------------------------
(* TradeService.increasePosition, by delta: longer if it is positive. *)
IncreasePosition(id, delta) ==
  LET a == id[1]  m == id[2]  c == assetClass[m]
      side == IF delta > 0 THEN "long" ELSE "short"
      p == book.positions[id]
      reserve == Abs(delta) * config[m].reserveRate
      updated == UpdateRates(book, m)
      paid == updateFeeStates(updated, id, p)
      grown == ChangeSize(ChangeReserve(paid, c, reserve), m, side, Abs(delta))
  IN  /\ config[m].active
      /\ book.markets[m].size[side] + Abs(delta) <= MaxPositionSize[m]
      /\ p.size = 0 => Len(book.subAccountPositionIds[a]) + 1 <= MaxPosition
      /\ p.size # 0 => IsLong(p) = (delta > 0)
      /\ Abs(p.size + delta) >= MinimumPositionSize
      /\ book.reserve + reserve <= MaxReserve
      /\ SettleFunding(FundingFee(updated, id, p))
      /\ book' = savePosition(grown, id, Settled(paid, id, p, p.size + delta, p.reserve + reserve))
      /\ UNCHANGED <<config, time>>

(* _decreasePosition, of decreasePosition and forceClosePosition.  The       *)
(* reserve of what is left is computed from the market's present rate.       *)
(* (With wrong variants for TypeOK and BookAddsUp to notice: the reserve is  *)
(* released by the present rate too; what is left is not reserved again.)    *)
ReleasedAtPresentRate(p, rate) == Abs(p.size) * rate
Released(p, rate) == p.reserve
LeftUnreserved(b, c, reserve) == b
ReserveAgain(b, c, reserve) == ChangeReserve(b, c, reserve)

Decreased(b, id, size) ==
  LET m == id[2]  c == assetClass[m]
      p == b.positions[id]
      left == Abs(p.size) - size
      rate == config[m].reserveRate
      reserve == left * rate
      updated == UpdateRates(b, m)
      paid == updateFeeStates(updated, id, p)
      less == ChangeSize(ChangeReserve(paid, c, -Released(p, rate)), m, SideOf(p), -size)
      kept == Settled(paid, id, p, IF IsLong(p) THEN left ELSE -left, reserve)
  IN  IF left = 0 THEN removePositionFromSubAccount(less, id)
      ELSE savePosition(ReserveAgain(less, c, reserve), id, kept)

Decrease(id, size) ==
  LET p == book.positions[id]
  IN  /\ p.size # 0 /\ size <= Abs(p.size)
      /\ Abs(p.size) - size # 0 => Abs(p.size) - size >= MinimumPositionSize
      /\ SettleFunding(FundingFee(UpdateRates(book, id[2]), id, p))
      /\ book' = Decreased(book, id, size)
      /\ UNCHANGED <<config, time>>

DecreasePosition(id, size) == config[id[2]].active /\ Decrease(id, size)

(* forceClosePosition: to take the maximum profit, to deleverage, or from a  *)
(* market that is delisted.                                                  *)
ForceClosePosition(id) == Decrease(id, Abs(book.positions[id].size))

(* LiquidationService._liquidatePosition: all positions of a sub-account, in *)
(* the list as it was before the first was removed from it.                  *)
LiquidateLeg(s, id) ==
  LET m == id[2]
      p == s.book.positions[id]
      updated == UpdateRates(s.book, m)
      paid == updateFeeStates(updated, id, p)
      less == ChangeSize(ChangeReserve(paid, assetClass[m], -p.reserve), m, SideOf(p), -Abs(p.size))
  IN  [book |-> removePositionFromSubAccount(less, id),
       funding |-> s.funding + FundingFee(updated, id, p)]

Liquidate(a) ==
  LET end == Through(book.subAccountPositionIds[a], LiquidateLeg, [book |-> book, funding |-> 0])
  IN  /\ book.subAccountPositionIds[a] # <<>>
      /\ SettleFunding(end.funding)
      /\ book' = end.book
      /\ UNCHANGED <<config, time>>

-----------------------------------------------------------------------------
(* The funding owed to the traders of a market, on the sides that receive. *)
Owed(k) ==
  (IF k.accumFunding["long"] < 0 THEN -k.accumFunding["long"] ELSE 0)
  + (IF k.accumFunding["short"] < 0 THEN -k.accumFunding["short"] ELSE 0)
BookValue(b) == SumOver(Markets, [m \in Markets |-> Owed(b.markets[m])])

(* CrossMarginService.withdrawFundingFeeSurplus: each market is read, then   *)
(* brought up to date; the reserve beyond what the markets owed as they were *)
(* read goes to the pool.                                                    *)
WithdrawFundingFeeSurplus ==
  /\ BookValue(book) <= fundingFeeReserve /\ fundingFeeReserve # 0
  /\ fundingFeeReserve' = BookValue(book)
  /\ book' = [book EXCEPT !.markets = [m \in Markets |-> updateFundingRate(book, m).markets[m]]]
  /\ UNCHANGED <<config, time>>

(* Tokens injected into the reserve, or fees that a trader was indebted for. *)
FundReserve ==
  /\ fundingFeeReserve < MaxFunds
  /\ fundingFeeReserve' = fundingFeeReserve + 1
  /\ UNCHANGED <<book, config, time>>

(* The owner: PerpStorage.setFundingRate, ConfigStorage.setMarketConfig and  *)
(* setMarketIMFAndMaxProfit.  (A market's asset class is never changed.)     *)
SetFundingRate(m, rate) ==
  /\ book' = [book EXCEPT !.markets[m].currentFundingRate = rate,
                          !.markets[m].lastFundingTime = time]
  /\ UNCHANGED <<config, fundingFeeReserve, time>>

SetMarketConfig(m) ==
  /\ \E c \in Configs[m] : config' = [config EXCEPT ![m] = c]
  /\ UNCHANGED <<book, fundingFeeReserve, time>>

Tick ==
  /\ time < MaxTime /\ time' = time + 1
  /\ UNCHANGED <<book, config, fundingFeeReserve>>

Next ==
  \/ \E id \in PositionIds :
       \/ \E size \in SizeDeltas :
            \/ IncreasePosition(id, size)
            \/ IncreasePosition(id, -size)
            \/ DecreasePosition(id, size)
       \/ ForceClosePosition(id)
  \/ \E a \in SubAccounts : Liquidate(a)
  \/ WithdrawFundingFeeSurplus
  \/ FundReserve
  \/ \E m \in Markets :
       \/ \E rate \in FundingRates[m] : SetFundingRate(m, rate)
       \/ SetMarketConfig(m)
  \/ Tick

Spec == Init /\ [][Next]_vars

-----------------------------------------------------------------------------
(* Sizes and reserves never underflow: in the code a decrease, a forced      *)
(* close or a liquidation would revert, and the position could not be closed.*)
TypeOK ==
  /\ book.reserve \in Nat
  /\ \A id \in PositionIds :
       book.positions[id].size \in Int /\ book.positions[id].reserve \in Nat
  /\ \A m \in Markets, side \in Sides : book.markets[m].size[side] \in Nat
  /\ \A c \in AssetClasses : book.classes[c].reserve \in Nat
  /\ fundingFeeReserve \in 0 .. MaxFunds

(* The totals PerpStorage keeps are the sums over the open positions, after  *)
(* any increases, partial decreases, liquidations and changes of the rates:  *)
(* the skew that prices and funding follow, the reserve that limits them.    *)
SizeOn(id, side) == IF SideOf(book.positions[id]) = side THEN Abs(book.positions[id].size) ELSE 0
ReserveIn(c) ==
  SumOver(PositionIds,
    [id \in PositionIds |-> IF assetClass[id[2]] = c THEN book.positions[id].reserve ELSE 0])
BookAddsUp ==
  /\ \A m \in Markets, side \in Sides :
       book.markets[m].size[side] =
         SumOver(SubAccounts, [a \in SubAccounts |-> SizeOn(<<a, m>>, side)])
  /\ \A c \in AssetClasses : book.classes[c].reserve = ReserveIn(c)
  /\ book.reserve = SumOver(AssetClasses, [c \in AssetClasses |-> book.classes[c].reserve])

(* Keepers and the calculator find every open position, and each only once:  *)
(* by its sub-account's list and in the sets of active ones, whatever order  *)
(* positions are opened and closed in.                                       *)
Open == {id \in PositionIds : book.positions[id].size # 0}
PositionsListed ==
  /\ \A a \in SubAccounts :
       LET list == book.subAccountPositionIds[a]
       IN  /\ {list[i] : i \in DOMAIN list} = {id \in Open : id[1] = a}
           /\ Len(list) = Cardinality({id \in Open : id[1] = a})
  /\ book.activePositionIds = Open
  /\ book.activeSubAccounts = {id[1] : id \in Open}

(* How many funding intervals ended by a time: a market or an asset class    *)
(* accrues once in an interval at most.                                      *)
IntervalsTo(t) == t \div FundingInterval

(* The funding that a side of a market has yet to pay or to receive is what  *)
(* its open positions would settle at the market's accrued funding, but for  *)
(* truncation: the side's total and each position on it are off by less than *)
(* a unit for each interval, however often positions settle in between.      *)
FundingOwed(m, side) ==
  SumOver(SubAccounts,
    [a \in SubAccounts |->
       LET p == book.positions[<<a, m>>]
       IN  IF SideOf(p) = side THEN FundingFee(book, <<a, m>>, p) ELSE 0])
FundingAddsUp ==
  \A m \in Markets, side \in Sides :
    Abs(book.markets[m].accumFunding[side] - FundingOwed(m, side))
      <= 2 * Cardinality(SubAccounts) * IntervalsTo(book.markets[m].lastFundingTime)

(* The borrowing fees accrued and not settled, which count in the pool's     *)
(* value, are what the open positions owe, but for truncation: they fall     *)
(* short of it by a unit an interval at most, for the total that accrued,    *)
(* and exceed it by a unit an interval and position.                         *)
BorrowingOwed(c) ==
  SumOver(PositionIds,
    [id \in PositionIds |->
       IF assetClass[id[2]] = c THEN BorrowingFee(book, id, book.positions[id]) ELSE 0])
BorrowingAddsUp ==
  \A c \in AssetClasses :
    LET k == book.classes[c]
        intervals == IntervalsTo(k.lastBorrowingTime)
        drift == k.sumBorrowingFee - k.sumSettledBorrowingFee - BorrowingOwed(c)
    IN  -intervals <= drift /\ drift <= Cardinality(PositionIds) * intervals

(* Truncation lets the traders settle more than accrued, and then the pool's *)
(* value, and with it every trade, reverts (ICalculator_InvalidBorrowingFee) *)
(* if it is by a dollar, 10^30 units: it is by a unit an interval at most.   *)
SettledIsAccrued ==
  \A c \in AssetClasses :
    LET k == book.classes[c]
    IN  k.sumSettledBorrowingFee <= k.sumBorrowingFee + IntervalsTo(k.lastBorrowingTime)

(* "so that we will not withdraw too much funding fee surplus to the point   *)
(* that we can't pay the traders" (CrossMarginService.sol:311): withdrawing  *)
(* the surplus leaves in the reserve what the markets owe, the rates being   *)
(* brought up to date.                                                       *)
SurplusLeavesWhatIsOwed ==
  [][fundingFeeReserve' < fundingFeeReserve /\ book'.positions = book.positions =>
       BookValue(book') <= fundingFeeReserve']_vars
=============================================================================
