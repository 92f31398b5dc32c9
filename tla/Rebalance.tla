------------------------------ MODULE Rebalance ------------------------------
(* How the pool's tokens leave the vault to be rebalanced and come back:     *)
(* services/RebalanceHLPv2Service.sol, which deposits into GMX v2 markets    *)
(* and withdraws from them, contracts/ExternalRebalancer.sol, which hands    *)
(* tokens to a recipient and later takes a replacement, and the swap of      *)
(* services/RebalanceHLPService.sol.  The first two share hlpLiquidityOnHold *)
(* and are not atomic: GMX answers an order in a later transaction, by       *)
(* delivering tokens to the service and then calling it back, and a callback *)
(* that reverts does not undo the delivery.                                  *)
EXTENDS VaultLedger

CONSTANTS
  Keys,         \* the keys GMX gives to orders
  Deposits,     \* the DepositParams in use
  Withdrawals,  \* the WithdrawalParams in use
  Received,     \* the amounts GMX may deliver when it executes an order
  OutOfGas,     \* may a callback run out of the gas the order set aside?
  None,         \* no order under a key: the all-zero struct of an unset mapping
  Removable,    \* the tokens the external rebalancer's executors take out
  MaxAUMDrop,   \* maxAUMDropPercentage, in basis points of BPS
  MaxSwapLoss   \* minHLPValueLossBPS

ASSUME RebalanceAssumption ==
  /\ IsFiniteSet(Keys)
  /\ Deposits \subseteq [market : Tokens, longToken : Tokens, shortToken : Tokens,
                         longTokenAmount : Nat, shortTokenAmount : Nat]
  /\ \A d \in Deposits : d.longTokenAmount + d.shortTokenAmount > 0
  /\ Withdrawals \subseteq [market : Tokens, longToken : Tokens, shortToken : Tokens,
                            amount : Nat \ {0}]
  /\ None \notin Deposits \cup Withdrawals
  /\ Received \subseteq Nat
  /\ OutOfGas \in BOOLEAN /\ Removable \subseteq Tokens /\ MaxAUMDrop \in Nat
  /\ MaxSwapLoss \in Nat

VARIABLES
  pendingDeposit,     \* key -> its DepositParams, or None
  pendingWithdrawal,  \* key -> its WithdrawalParams, or None
  gmx,                \* key -> "none", "open", "executed" or "cancelled" (GMX's)
  service,            \* token -> what RebalanceHLPv2Service holds of it
  outside             \* token -> what is with the external rebalancer's recipients

orders == <<pendingDeposit, pendingWithdrawal, gmx, service>>
rebalanceVars == <<vault, orders, outside>>

RebalanceInit ==
  /\ VaultInit
  /\ pendingDeposit = [k \in Keys |-> None] /\ pendingWithdrawal = [k \in Keys |-> None]
  /\ gmx = [k \in Keys |-> "none"]
  /\ service = Zero /\ outside = Zero

-----------------------------------------------------------------------------
(* A wrong variant, for RebalanceTypeOK to notice: any balance is deployed. *)
CanDeployBalance(v, t, amount) == amount > 0 => CanPush(v, t, amount)

(* Tokens of the pool deployed: put on hold, then pushed out.                *)
CanDeploy(v, t, amount) ==
  amount > 0 => CanRemoveHLPLiquidity(v, t, amount) /\ CanPush(v, t, amount)

Deploy(v, t, amount) ==
  IF amount = 0 THEN v ELSE PushToken(RemoveHLPLiquidityOnHold(v, t, amount), t, amount)

(* createDepositOrders with one order; a call with several is several of     *)
(* these at once.  The tokens go to GMX's deposit vault.                     *)
CreateDepositOrder(k, d) ==
  LET long == Deploy(vault, d.longToken, d.longTokenAmount)
  IN  /\ gmx[k] = "none"
      /\ CanDeploy(vault, d.longToken, d.longTokenAmount)
      /\ CanDeploy(long, d.shortToken, d.shortTokenAmount)
      /\ vault' = Deploy(long, d.shortToken, d.shortTokenAmount)
      /\ pendingDeposit' = [pendingDeposit EXCEPT ![k] = d]
      /\ gmx' = [gmx EXCEPT ![k] = "open"]
      /\ UNCHANGED <<pendingWithdrawal, service, outside>>

CreateWithdrawalOrder(k, w) ==
  /\ gmx[k] = "none"
  /\ CanDeploy(vault, w.market, w.amount)
  /\ vault' = Deploy(vault, w.market, w.amount)
  /\ pendingWithdrawal' = [pendingWithdrawal EXCEPT ![k] = w]
  /\ gmx' = [gmx EXCEPT ![k] = "open"]
  /\ UNCHANGED <<pendingDeposit, service, outside>>

-----------------------------------------------------------------------------
(* The callbacks.  A state s has the vault, the service's tokens, and ok, on *)
(* which the callback reverts as soon as it is false.                        *)

Clear(s, t, amount) ==
  IF amount = 0 THEN s
  ELSE [s EXCEPT !.v = ClearOnHold(@, t, amount),
                 !.ok = @ /\ CanClearOnHold(s.v, t, amount)]

(* safeTransfer from the service to the vault. *)
SendBack(s, t, amount) ==
  [v |-> Receive(s.v, t, amount), held |-> [s.held EXCEPT ![t] = @ - amount],
   ok |-> s.ok /\ amount <= s.held[t]]

(* pullToken, then addHLPLiquidity of what was received. *)
Book(s, t, amount) == [s EXCEPT !.v = AddHLPLiquidity(PullToken(@, t), t, amount)]

(* pullToken, then addHLPLiquidity of all that was pulled. *)
BookPulled(s, t) == Book(s, t, PullDelta(s.v, t))

(* A wrong variant, for HeldExactly to notice: short stays on hold. *)
AfterDepositExecutionLong(s, d, receivedGms) ==
  LET booked == Book(SendBack(s, d.market, receivedGms), d.market, receivedGms)
  IN  [Clear(booked, d.longToken, d.longTokenAmount) EXCEPT !.ok = @ /\ receivedGms > 0]

AfterDepositExecution(s, d, receivedGms) ==
  LET booked == Book(SendBack(s, d.market, receivedGms), d.market, receivedGms)
      long == Clear(booked, d.longToken, d.longTokenAmount)
      short == Clear(long, d.shortToken, d.shortTokenAmount)
  IN  [short EXCEPT !.ok = @ /\ receivedGms > 0]

(* The second transfer sends longToken where the tokens returned are         *)
(* shortToken.                                                               *)
AfterDepositCancellation(s, d) ==
  LET ReturnLong(r) ==
        BookPulled(SendBack(Clear(r, d.longToken, d.longTokenAmount),
                            d.longToken, d.longTokenAmount), d.longToken)
      ReturnShort(r) ==
        BookPulled(SendBack(Clear(r, d.shortToken, d.shortTokenAmount),
                            d.longToken, d.shortTokenAmount), d.shortToken)
      long == IF d.longTokenAmount > 0 THEN ReturnLong(s) ELSE s
  IN  IF d.shortTokenAmount > 0 THEN ReturnShort(long) ELSE long

(* A wrong variant, for SettledWithGmx to notice: short is not sent on. *)
AfterWithdrawalExecutionLong(s, w, receivedLong, receivedShort) ==
  LET Take(r, t, amount) == IF amount > 0 THEN Book(SendBack(r, t, amount), t, amount) ELSE r
  IN  Clear(Take(s, w.longToken, receivedLong), w.market, w.amount)

AfterWithdrawalExecution(s, w, receivedLong, receivedShort) ==
  LET Take(r, t, amount) == IF amount > 0 THEN Book(SendBack(r, t, amount), t, amount) ELSE r
  IN  Clear(Take(Take(s, w.longToken, receivedLong), w.shortToken, receivedShort),
            w.market, w.amount)

(* A wrong variant, for OrdersSettle to notice: the wrong token is sent. *)
AfterWithdrawalCancellationLong(s, w) ==
  BookPulled(SendBack(Clear(s, w.market, w.amount), w.longToken, w.amount), w.market)

AfterWithdrawalCancellation(s, w) ==
  BookPulled(SendBack(Clear(s, w.market, w.amount), w.market, w.amount), w.market)

-----------------------------------------------------------------------------
(* GMX finishes order k: it delivers the tokens and calls back.  Either the  *)
(* callback goes through, or all it did is undone and GMX carries on.        *)

Delivered(more) ==
  [v |-> vault, ok |-> TRUE, held |-> [t \in Tokens |-> service[t] + more[t]]]

Some(t, amount) == [u \in Tokens |-> IF u = t THEN amount ELSE 0]

Both(f, g) == [t \in Tokens |-> f[t] + g[t]]

Finish(k, outcome, pending, delivered, after) ==
  /\ gmx[k] = "open"
  /\ gmx' = [gmx EXCEPT ![k] = outcome]
  /\ \/ /\ after.ok
        /\ vault' = after.v /\ service' = after.held
        /\ pending' = [pending EXCEPT ![k] = None]
     \/ /\ OutOfGas \/ ~ after.ok
        /\ service' = delivered.held
        /\ UNCHANGED <<vault, pending>>
  /\ UNCHANGED outside

ExecuteDeposit(k) ==
  /\ pendingDeposit[k] # None
  /\ \E gms \in Received \ {0} :
        LET d == pendingDeposit[k]
            delivered == Delivered(Some(d.market, gms))
        IN  Finish(k, "executed", pendingDeposit, delivered,
                   AfterDepositExecution(delivered, d, gms))
  /\ UNCHANGED pendingWithdrawal

CancelDeposit(k) ==
  /\ pendingDeposit[k] # None
  /\ LET d == pendingDeposit[k]
         delivered == Delivered(Both(Some(d.longToken, d.longTokenAmount),
                                     Some(d.shortToken, d.shortTokenAmount)))
     IN  Finish(k, "cancelled", pendingDeposit, delivered,
                AfterDepositCancellation(delivered, d))
  /\ UNCHANGED pendingWithdrawal

ExecuteWithdrawal(k) ==
  /\ pendingWithdrawal[k] # None
  /\ \E long, short \in Received :
        LET w == pendingWithdrawal[k]
            delivered == Delivered(Both(Some(w.longToken, long), Some(w.shortToken, short)))
        IN  Finish(k, "executed", pendingWithdrawal, delivered,
                   AfterWithdrawalExecution(delivered, w, long, short))
  /\ UNCHANGED pendingDeposit

CancelWithdrawal(k) ==
  /\ pendingWithdrawal[k] # None
  /\ LET w == pendingWithdrawal[k]
         delivered == Delivered(Some(w.market, w.amount))
     IN  Finish(k, "cancelled", pendingWithdrawal, delivered,
                AfterWithdrawalCancellation(delivered, w))
  /\ UNCHANGED pendingDeposit

-----------------------------------------------------------------------------
(* The part of getAUME30 these transactions move, with every token an asset  *)
(* of the pool at price 1.                                                   *)
AUM(v) ==
  SumOver(Tokens, [t \in Tokens |->
    v.hlpLiquidity[t] + v.hlpLiquidityOnHold[t] - v.pendingRewardDebt[t]])

Distance(x, y) == IF x > y THEN x - y ELSE y - x

(* MaxBalance also bounds what the recipients have of a token at once. *)
StartRebalance(t, amount) ==
  LET v == Deploy(vault, t, amount)
  IN  /\ amount <= vault.hlpLiquidity[t] /\ CanDeploy(vault, t, amount)
      /\ outside[t] + amount <= MaxBalance
      /\ AUM(v) = AUM(vault)
      /\ vault' = v
      /\ outside' = [outside EXCEPT ![t] = @ + amount]
      /\ UNCHANGED orders

(* A wrong variant, for HoldsTraced to notice: nothing is cleared when the   *)
(* replacement is the token that was taken.                                  *)
CompleteInKind(t, replacement, amount) ==
  LET onHold == vault.hlpLiquidityOnHold[t]
      freed == IF replacement = t THEN vault ELSE ClearOnHold(vault, t, onHold)
      cleared == Receive(freed, replacement, amount)
      v == AddHLPLiquidity(PullToken(cleared, replacement), replacement, amount)
  IN  /\ onHold > 0 /\ CanClearOnHold(vault, t, onHold) /\ AUM(vault) > 0
      /\ (Distance(AUM(v), AUM(vault)) * BPS) \div AUM(vault) <= MaxAUMDrop
      /\ Becomes(v)
      /\ outside' = [outside EXCEPT ![t] = 0]
      /\ UNCHANGED orders

(* The whole of what is on hold in t is cleared, whoever put it there. *)
CompleteRebalance(t, replacement, amount) ==
  LET onHold == vault.hlpLiquidityOnHold[t]
      cleared == Receive(ClearOnHold(vault, t, onHold), replacement, amount)
      v == AddHLPLiquidity(PullToken(cleared, replacement), replacement, amount)
  IN  /\ onHold > 0 /\ CanClearOnHold(vault, t, onHold) /\ AUM(vault) > 0
      /\ (Distance(AUM(v), AUM(vault)) * BPS) \div AUM(vault) <= MaxAUMDrop
      /\ Becomes(v)
      /\ outside' = [outside EXCEPT ![t] = 0]
      /\ UNCHANGED orders

(* RebalanceHLPService.swap: one transaction through the switch router.      *)
Swap(tokenIn, tokenOut, amountIn, amountOut) ==
  LET out == PushToken(RemoveHLPLiquidity(vault, tokenIn, amountIn), tokenIn, amountIn)
      back == Receive(out, tokenOut, amountOut)
      v == AddHLPLiquidity(PullToken(back, tokenOut), tokenOut, amountOut)
  IN  /\ CanRemoveHLPLiquidity(vault, tokenIn, amountIn) /\ CanPush(vault, tokenIn, amountIn)
      /\ PullDelta(back, tokenOut) >= amountOut
      /\ AUM(vault) > AUM(v) => (AUM(vault) - AUM(v)) * BPS <= MaxSwapLoss * AUM(vault)
      /\ Becomes(v)
      /\ UNCHANGED <<orders, outside>>

-----------------------------------------------------------------------------
OrderStep ==
  \E k \in Keys :
     \/ \E d \in Deposits : CreateDepositOrder(k, d)
     \/ \E w \in Withdrawals : CreateWithdrawalOrder(k, w)

Finishes(k) ==
  ExecuteDeposit(k) \/ CancelDeposit(k) \/ ExecuteWithdrawal(k) \/ CancelWithdrawal(k)

RebalancerStep ==
  \E t \in Removable, amount \in Amounts :
     \/ StartRebalance(t, amount)
     \/ \E u \in Tokens : CompleteRebalance(t, u, amount)

SwapStep ==
  \E t, u \in Tokens, amount, out \in Amounts : Swap(t, u, amount, out)

RebalanceNext ==
  \/ PoolStep /\ UNCHANGED <<orders, outside>>
  \/ OrderStep
  \/ \E k \in Keys : Finishes(k)
  \/ RebalancerStep
  \/ SwapStep

RebalanceSpec == RebalanceInit /\ [][RebalanceNext]_rebalanceVars

(* GMX's keepers finish every order, by executing or cancelling it. *)
FairRebalanceSpec ==
  RebalanceSpec /\ \A k \in Keys : WF_rebalanceVars(Finishes(k))

-----------------------------------------------------------------------------
(* What the pending orders have taken from the pool in token t. *)
TakenBy(k, t) ==
  LET d == pendingDeposit[k]
      w == pendingWithdrawal[k]
  IN  (IF d # None /\ d.longToken = t THEN d.longTokenAmount ELSE 0)
      + (IF d # None /\ d.shortToken = t THEN d.shortTokenAmount ELSE 0)
      + (IF w # None /\ w.market = t THEN w.amount ELSE 0)

OnOrder(t) == SumOver(Keys, [k \in Keys |-> TakenBy(k, t)])

(* The part of it that GMX still has, and the part of the orders that GMX is *)
(* done with but that are pending still, since their callbacks failed.       *)
InFlight(t) == SumOver(Keys, [k \in Keys |-> IF gmx[k] = "open" THEN TakenBy(k, t) ELSE 0])
Stranded(t) == SumOver(Keys, [k \in Keys |-> IF gmx[k] = "open" THEN 0 ELSE TakenBy(k, t)])

RebalanceTypeOK ==
  /\ TypeOK
  /\ pendingDeposit \in [Keys -> Deposits \cup {None}]
  /\ pendingWithdrawal \in [Keys -> Withdrawals \cup {None}]
  /\ gmx \in [Keys -> {"none", "open", "executed", "cancelled"}]
  /\ service \in PerToken /\ outside \in PerToken

(* In a token the external rebalancer leaves alone, what is on hold is what  *)
(* the pending orders took, also after callbacks that reverted half way:     *)
(* holds and pending orders are made and cleared together or not at all.     *)
HeldExactly == \A t \in Tokens \ Removable : vault.hlpLiquidityOnHold[t] = OnOrder(t)

(* With the external rebalancer at work too, every token on hold traces back *)
(* to an order that GMX still has, to a rebalance that is still out, or to a *)
(* callback that failed.  The orders of failed callbacks are a term of their *)
(* own because no function of RebalanceHLPv2Service releases what they took; *)
(* nothing else leaves a hold behind.                                        *)
HoldsTraced ==
  \A t \in Tokens : vault.hlpLiquidityOnHold[t] <= InFlight(t) + Stranded(t) + outside[t]

(* "this mapping keeps track of hlpLiquidity that is on hold while being     *)
(* under rebalancing operation" (VaultStorage.sol:83): while a GMX order is  *)
(* pending the tokens it took are on hold.                                   *)
HeldWhileRebalancing ==
  \A t \in Tokens : vault.hlpLiquidityOnHold[t] >= OnOrder(t)

(* "the deposit was cancelled and deployed tokens are returned"              *)
(* (RebalanceHLPv2Service.sol:268-269): once GMX has cancelled a deposit its *)
(* tokens are back in the pool and the order is no longer pending.           *)
CancelledIsReturned ==
  \A k \in Keys : gmx[k] = "cancelled" => pendingDeposit[k] = None

(* An order is pending exactly while GMX has it open, and between GMX's      *)
(* transactions the service keeps no token: nothing GMX delivers, whatever   *)
(* strays arrive in the vault meanwhile, is left behind in the service.      *)
SettledWithGmx ==
  /\ \A k \in Keys :
        (pendingDeposit[k] # None \/ pendingWithdrawal[k] # None) <=> gmx[k] = "open"
  /\ service = Zero

(* Every order comes back: the tokens it took do not stay on hold for ever. *)
OrdersSettle ==
  \A k \in Keys :
     gmx[k] = "open" ~> (pendingDeposit[k] = None /\ pendingWithdrawal[k] = None)
=============================================================================
