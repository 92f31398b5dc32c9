----------------------------- MODULE VaultLedger -----------------------------
(* The transactions of the services that move tokens through the vault:      *)
(* CrossMarginService, LiquidityService, TradeService and LiquidationService *)
(* by way of TradeHelper, GasService, BotHandler and the owner.  A           *)
(* transaction is atomic on the EVM, so each is one action: the whole        *)
(* external call, with its reverts as guards.  What the services decide from *)
(* positions and prices (margin and health checks, the profit and fees due)  *)
(* is an input here.                                                         *)
EXTENDS TradeHelper

CONSTANTS
  CollateralTokens,  \* getCollateralTokens(), in order
  Treasury,    \* executionFeeTreasury, an account like any other
  LpFeeBPS,    \* the liquidity fee rates in use, each in 0 .. BPS
  Prices,      \* the prices the oracle may answer, a function on Tokens each
  Bills,       \* the profit or loss and the fees a settlement may be for
  Values,      \* the execution fees, liquidation fees and book values in use
  MaxBalance,  \* bound on the tokens the vault may hold of each kind
  Limits,      \* what it may hold of all kinds at once: one of these bounds applies
  MaxReward,   \* bound on the rewards of each kind that have not vested
  MaxDebt      \* bound on each total of debts

ASSUME LedgerAssumption ==
  /\ CollateralTokens \in Seq(Tokens) /\ Treasury \in SubAccounts
  /\ LpFeeBPS \subseteq 0 .. BPS
  /\ Prices \subseteq [Tokens -> Nat \ {0}]
  /\ Bills \subseteq [pnl : Int, funding : Int, borrowing : Nat, trading : Nat]
  /\ Values \subseteq Nat /\ MaxBalance \in Nat /\ MaxReward \in Nat /\ MaxDebt \in Nat
  /\ Limits \subseteq [Tokens -> 0 .. MaxBalance]

VARIABLE vault

(* The bounds stand for the top of uint256, where checked arithmetic reverts. *)
Bounded(v) ==
  /\ \E limit \in Limits : \A t \in Tokens : v.balanceOf[t] <= limit[t]
  /\ \A t \in Tokens : v.pendingRewardDebt[t] <= MaxReward
  /\ \A k \in DebtKinds : v.globalDebt[k] <= MaxDebt
  /\ v.hlpLiquidityDebt <= MaxDebt

Amounts == 1 .. MaxBalance

VaultInit == vault = EmptyVault

Becomes(v) == vault' = v /\ Bounded(v)

-----------------------------------------------------------------------------
(* Traders' collateral: CrossMarginService.                                  *)

(* Anyone may transfer tokens to the vault's address outside the protocol. *)
Donate(t, amount) == Becomes(Receive(vault, t, amount))

(* The handler transfers the tokens, then the service books them: exactly    *)
(* the amount must have arrived since the last pull or push.                 *)
DepositCollateral(a, t, amount) ==
  LET v == Receive(vault, t, amount)
  IN  /\ CanIncrease(v, a, t, amount)
      /\ PullDelta(v, t) = amount
      /\ Becomes(PullToken(IncreaseTraderBalance(v, a, t, amount), t))

WithdrawCollateral(a, t, amount) ==
  /\ CanDeduct(vault, a, t, amount) /\ CanPush(vault, t, amount)
  /\ Becomes(PushToken(DeductTraderBalance(vault, a, t, amount), t, amount))

TransferCollateral(from, to, t, amount) ==
  /\ CanDeduct(vault, from, t, amount)
  /\ Becomes(Transfer(vault, t, from, to, amount))

(* The router takes tokenIn away and returns amountOut of tokenOut. *)
SwitchCollateral(a, tokenIn, tokenOut, amountIn, amountOut) ==
  LET pushed == PushToken(DeductTraderBalance(vault, a, tokenIn, amountIn), tokenIn, amountIn)
      back == Receive(pushed, tokenOut, amountOut)
  IN  /\ CanDeduct(vault, a, tokenIn, amountIn) /\ CanPush(vault, tokenIn, amountIn)
      /\ PullDelta(back, tokenOut) = amountOut
      /\ Becomes(IncreaseTraderBalance(PullToken(back, tokenOut), a, tokenOut, amountOut))

-----------------------------------------------------------------------------
(* The pool: LiquidityService.                                               *)

(* _collectFee: the fee on amount, split between the developer and the       *)
(* protocol.                                                                 *)
LpFee(amount, rate) == (amount * rate) \div BPS

CollectFee(v, t, fee) == AddFee(AddDevFee(v, t, DevShare(fee)), t, fee - DevShare(fee))

(* A wrong variant, for BooksCovered to notice: the fee is credited twice. *)
AddLiquidityGross(t, amount, rate) ==
  LET v == Receive(vault, t, amount)
  IN  /\ PullDelta(v, t) >= amount
      /\ Becomes(AddHLPLiquidity(CollectFee(PullToken(v, t), t, LpFee(amount, rate)),
                                 t, amount))

AddLiquidity(t, amount, rate) ==
  LET v == Receive(vault, t, amount)
      fee == LpFee(amount, rate)
  IN  /\ PullDelta(v, t) >= amount
      /\ Becomes(AddHLPLiquidity(CollectFee(PullToken(v, t), t, fee), t, amount - fee))

RemoveLiquidity(t, amount, rate) ==
  LET fee == LpFee(amount, rate)
      v == CollectFee(RemoveHLPLiquidity(vault, t, amount), t, fee)
  IN  /\ CanRemoveHLPLiquidity(vault, t, amount)
      /\ CanPush(vault, t, amount - fee)
      /\ Becomes(PushToken(v, t, amount - fee))

(* Rewards fed to the pool, and time passing over them. *)
Feed(t, amount) == Becomes(FeedReward(vault, t, amount))

Vest(t) ==
  \E left \in 0 .. vault.pendingRewardDebt[t] :
     vault' = [vault EXCEPT !.pendingRewardDebt[t] = left]

-----------------------------------------------------------------------------
(* Settlement: TradeHelper called by TradeService and LiquidationService.    *)

Pays(v, a, bill, liquidation, liquidator, tpToken, p) ==
  DecreaseCollateral(IncreaseCollateral(v, a, bill.pnl, bill.funding, tpToken, p),
                     a, bill, liquidation, liquidator, p)

(* The settlement of a decreased position; settleAllFees and the settlement  *)
(* of an increase are the ones with no profit or loss and no chosen token.   *)
Settle(a, bill, tpToken, p) == Becomes(Pays(vault, a, bill, 0, a, tpToken, p))

(* liquidate: the liquidator is paid a fee and what is still owed after the  *)
(* collateral is gone is written off.                                        *)
WriteOff(v, a) ==
  LET Clear(w, kind) == SubDebt(w, kind, a, w.debt[kind][a])
  IN  Clear(Clear(Clear(Clear(v, "loss"), "tradingFee"), "borrowingFee"), "fundingFee")

Liquidate(a, liquidator, bill, fee, p) ==
  Becomes(WriteOff(Pays(vault, a, bill, fee, liquidator, NoToken, p), a))

-----------------------------------------------------------------------------
(* Fees and the funding fee reserve: executors, the owner and BotHandler.    *)

TakeFee(t, amount) ==
  CanWithdrawFee(vault, t, amount) /\ Becomes(WithdrawFee(vault, t, amount))

TakeDevFee(t, amount) ==
  CanWithdrawDevFee(vault, t, amount) /\ Becomes(WithdrawDevFee(vault, t, amount))

InjectTokenToHlpLiquidity(t, amount) ==
  Becomes(PullToken(AddHLPLiquidity(Receive(vault, t, amount), t, amount), t))

InjectTokenToFundingFeeReserve(t, amount) ==
  Becomes(PullToken(AddFundingFee(Receive(vault, t, amount), t, amount), t))

(* One round of convertFundingFeeReserve's loop: the pool takes all of the   *)
(* reserve's tokens and gives the reserve their worth in the stable token;   *)
(* the whole call reverts if it has not enough of that in any round.         *)
Converted(amount, t, stable, p) == (amount * p[t] * Unit) \div (p[stable] * Unit)

ConvertToken(s, t, stable, p) ==
  LET amount == s.v.fundingFeeReserve[t]
      converted == Converted(amount, t, stable, p)
  IN  IF t = stable \/ amount = 0 THEN s
      ELSE IF CanConvert(s.v, t, stable, amount, converted)
      THEN [s EXCEPT !.v = ConvertFundingFeeReserveWithHLP(@, t, stable, amount, converted)]
      ELSE [s EXCEPT !.enough = FALSE]

ConvertFundingFeeReserve(stable, p) ==
  LET Convert(s, t) == ConvertToken(s, t, stable, p)
      end == Through(CollateralTokens, Convert, [v |-> vault, enough |-> TRUE])
  IN  end.enough /\ Becomes(end.v)

(* withdrawFundingFeeSurplus: what the reserve holds beyond bookValue, the   *)
(* funding the markets still owe, joins the pool.                            *)
WithdrawFundingFeeSurplus(t, bookValue, p) ==
  LET reserve == vault.fundingFeeReserve[t]
      value == (reserve * p[t]) \div Unit
  IN  /\ bookValue <= value /\ value # 0
      /\ Becomes(WithdrawSurplusToHLP(vault, t,
                   RepayAmount(reserve, value - bookValue, p[t]).amount))

(* GasService: the execution fee is collected over the tokens the trader had *)
(* listed at the start; what they do not cover becomes trading fee debt.     *)
GasLeg(s, t, a, p) ==
  LET balance == s.v.traderBalances[a][t]
      r == RepayAmount(balance, s.due, p[t])
  IN  IF s.due > 0 /\ balance > 0
      THEN [v |-> Transfer(s.v, t, a, Treasury, r.amount), due |-> s.due - r.value]
      ELSE s

CollectExecutionFee(a, fee, p) ==
  LET Leg(s, t) == GasLeg(s, t, a, p)
      end == Through(vault.traderTokens[a], Leg, [v |-> vault, due |-> fee])
  IN  Becomes(AddDebt(end.v, "tradingFee", a, end.due))

-----------------------------------------------------------------------------
CollateralStep ==
  \E a \in SubAccounts, t \in Tokens, amount \in Amounts :
     \/ DepositCollateral(a, t, amount)
     \/ WithdrawCollateral(a, t, amount)
     \/ \E b \in SubAccounts : TransferCollateral(a, b, t, amount)
     \/ \E u \in Tokens, out \in 0 .. MaxBalance : SwitchCollateral(a, t, u, amount, out)

PoolStep ==
  \E t \in Tokens :
     \/ Vest(t)
     \/ \E amount \in Amounts :
           \/ Donate(t, amount)
           \/ Feed(t, amount)
           \/ \E rate \in LpFeeBPS :
                 AddLiquidity(t, amount, rate) \/ RemoveLiquidity(t, amount, rate)

SettlementStep ==
  \E a \in SubAccounts, p \in Prices :
     \/ \E bill \in Bills :
           \/ \E tpToken \in Tokens \cup {NoToken} : Settle(a, bill, tpToken, p)
           \/ \E b \in SubAccounts, fee \in Values : Liquidate(a, b, bill, fee, p)
     \/ \E fee \in Values : CollectExecutionFee(a, fee, p)

FeeStep ==
  \E t \in Tokens :
     \/ \E amount \in Amounts :
           \/ TakeFee(t, amount)
           \/ TakeDevFee(t, amount)
           \/ InjectTokenToHlpLiquidity(t, amount)
           \/ InjectTokenToFundingFeeReserve(t, amount)
     \/ \E p \in Prices :
           \/ ConvertFundingFeeReserve(t, p)
           \/ \E value \in Values : WithdrawFundingFeeSurplus(t, value, p)

LedgerNext == CollateralStep \/ PoolStep \/ SettlementStep \/ FeeStep

LedgerSpec == VaultInit /\ [][LedgerNext]_vault

-----------------------------------------------------------------------------
(* Every field is a natural number in every reachable state: the contract's  *)
(* checked subtractions never underflow, so no settlement, conversion or     *)
(* collection of fees ever reverts for the books' sake.                      *)
TypeOK == vault \in Vaults

(* Whatever mixture of deposits, settlements, fees and stray transfers, the  *)
(* vault holds what its books say it owes: all collateral, the pool, the     *)
(* fees and the fee reserve of a token together are in its balance.          *)
BooksCovered == Covered(vault)

(* The list the calculator values a trader's collateral by has each token he *)
(* has a balance in once, and no other, after any order of appends and       *)
(* swap-and-pops: a token missed or counted twice misprices his equity.      *)
TokensListed == ListedExactly(vault)

(* The global debts the pool's value is computed from stay the sums of the   *)
(* traders' debts, through partial payments, write-offs and execution fees.  *)
DebtsAgree == DebtsAddUp(vault)

(* A trader is left with new debt only when he has nothing left to pay with: *)
(* no settlement or execution fee raises a debt of his and leaves an asset   *)
(* of the pool in his balance.  The treasury pays execution fees to itself.  *)
BrokeBeforeIndebted ==
  [][\A a \in SubAccounts \ {Treasury}, k \in DebtKinds :
        vault'.debt[k][a] > vault.debt[k][a] =>
           \A i \in DOMAIN HlpAssets : vault'.traderBalances[a][HlpAssets[i]] = 0]_vault

(* The order claims on a trader's collateral are honoured in. *)
Seniority == <<"borrowingFee", "tradingFee", "fundingFee", "loss">>

(* While any of a senior debt is left, nothing is paid on a junior one, over *)
(* all the tokens a settlement goes through.  (A liquidation writes off all  *)
(* debts at its end, so it leaves no senior debt to compare.)                *)
PaidBySeniority ==
  [][\A a \in SubAccounts, i \in 1 .. 4 : \A j \in i + 1 .. 4 :
        vault'.debt[Seniority[i]][a] > 0 =>
           vault'.debt[Seniority[j]][a] >= vault.debt[Seniority[j]][a]]_vault

(* No step takes collateral from, or changes the debts of, more than one     *)
(* trader: nobody pays for another's settlement, fee or transfer.            *)
OthersUntouched ==
  [][\E a \in SubAccounts : \A b \in SubAccounts \ {a} :
        /\ \A t \in Tokens : vault'.traderBalances[b][t] >= vault.traderBalances[b][t]
        /\ \A k \in DebtKinds : vault'.debt[k][b] = vault.debt[k][b]]_vault

(* The vault told without its books: tokens come in, go out to whom they are *)
(* owed, or change claimant inside; each step of the ledger is one of these. *)
Abstract == INSTANCE Custody WITH
              held <- vault.balanceOf, owed <- [t \in Tokens |-> Owed(vault, t)]

KeepsCustody == Abstract!CustodySpec
=============================================================================
