------------------------------ MODULE Positions ------------------------------
(* What orders see of PerpStorage and TradeService: the size of the position *)
(* of each sub-account in the one market the orders are for, how an order    *)
(* that is carried out changes it, and the limits the order helpers put on   *)
(* it.  PerpBook has the rest of a position.                                 *)
EXTENDS Integers, FiniteSets, FiniteSetsExt

CONSTANTS
  SubAccounts,
  MaxPosition  \* the market's maxLongPositionSize and maxShortPositionSize

ASSUME PositionsAssumption == IsFiniteSet(SubAccounts) /\ MaxPosition \in Nat

VARIABLE position  \* sub-account -> positionSizeE30, negative when short

PositionsInit == position = [a \in SubAccounts |-> 0]

Size(n) == IF n < 0 THEN -n ELSE n
SameSide(m, n) == (m > 0 /\ n > 0) \/ (m < 0 /\ n < 0)

(* TradeService.increasePosition and decreasePosition. *)
Increase(size, delta) == size + delta
Decrease(size, by) == IF size > 0 THEN size - by ELSE size + by

(* A wrong variant, for ReduceOnlyReduces to notice: a reduce-only order is  *)
(* cut to the position's size, but its side is not looked at.                *)
CarryOutEitherSide(size, delta, reduceOnly) ==
  LET cut == Min({Size(delta), Size(size)})
      d == IF ~reduceOnly THEN delta ELSE IF delta > 0 THEN cut ELSE -cut
  IN  size + d

(* What an order for delta does to a position: a reduce-only order closes it *)
(* as far as it goes and does nothing on the wrong side; any other increases *)
(* it, decreases it, or closes it and opens the rest on the other side.      *)
CarryOut(size, delta, reduceOnly) ==
  LET closes == size # 0 /\ delta # 0 /\ ~SameSide(size, delta)
  IN  IF reduceOnly
      THEN IF closes THEN Decrease(size, Min({Size(delta), Size(size)})) ELSE size
      ELSE IF ~closes THEN Increase(size, delta)
      ELSE IF Size(delta) > Size(size)
           THEN Increase(Decrease(size, Size(size)), delta + size)
           ELSE Decrease(size, Size(delta))

(* The service may refuse for many reasons; it always refuses to let a       *)
(* position grow over the market's maximum.                                  *)
MarketAllows(size) == Size(size) <= MaxPosition

(* setLimit: limits on a trade and on a position, 0 for none. *)
LimitTypes == [trade : Nat, position : Nat]

WithinLimits(limit, size, delta, reduceOnly) ==
  \/ reduceOnly
  \/ /\ limit.trade > 0 => Size(delta) <= limit.trade
     /\ limit.position > 0 => Size(size + delta) <= limit.position

(* A position manager closes a position: liquidated, deleveraged, forced to  *)
(* take its maximum profit, or in a delisted market.                         *)
CloseByBot(a) == position[a] # 0 /\ position' = [position EXCEPT ![a] = 0]
=============================================================================
