----------------------------- MODULE TradeHelper -----------------------------
(* helpers/TradeHelper.sol: how a position's profit, loss and fees are       *)
(* settled against the vault, token by token over the pool's assets.  Values *)
(* are in USD, amounts in tokens; a token amount is worth amount * price /   *)
(* Unit, and every conversion rounds down as the contract's division does.   *)
EXTENDS VaultStorage

CONSTANTS
  HlpAssets,     \* getHlpAssetIds(): the pool's tokens in settlement order
  Unit,          \* 10 ** decimals of a token
  BPS,           \* the basis points in one, 1e4 in the code
  DevFeeRateBPS  \* tradingConfig.devFeeRateBPS

ASSUME TradeHelperAssumption ==
  /\ HlpAssets \in Seq(Tokens)
  /\ Unit \in Nat \ {0} /\ BPS \in Nat \ {0} /\ DevFeeRateBPS \in 0 .. BPS

NoToken == "none"

Least(x, y) == IF x < y THEN x ELSE y

(* _getRepayAmount: a payer holding balance pays value at price.  Either the *)
(* balance covers the (rounded down) amount and all of value is paid, or the *)
(* whole balance goes and pays what it is worth (rounded down).              *)
RepayAmount(balance, value, price) ==
  LET fee == (value * Unit) \div price
  IN  IF balance > fee THEN [amount |-> fee, value |-> value]
      ELSE [amount |-> balance, value |-> (balance * price) \div Unit]

DevShare(amount) == (amount * DevFeeRateBPS) \div BPS

-----------------------------------------------------------------------------
(* _increaseCollateral.  A state s carries the vault, the profit and the     *)
(* funding fee still to be received by sub-account a at prices p.            *)

ProfitFromHlp(s, a, t, p) ==
  LET r == RepayAmount(s.v.hlpLiquidity[t], s.profit, p[t])
  IN  IF s.v.hlpLiquidity[t] > 0 /\ s.profit > 0
      THEN [s EXCEPT !.v = PayTraderProfit(@, a, t, r.amount, 0),
                     !.profit = @ - r.value]
      ELSE s

FundingFeeFromReserve(s, a, t, p) ==
  LET r == RepayAmount(s.v.fundingFeeReserve[t], s.funding, p[t])
  IN  IF s.v.fundingFeeReserve[t] > 0 /\ s.funding > 0
      THEN [s EXCEPT !.v = PayFundingFeeFromReserve(@, a, t, r.amount),
                     !.funding = @ - r.value]
      ELSE s

(* The pool advances what the reserve could not pay and is owed its value. *)
FundingFeeFromHlp(s, a, t, p) ==
  LET r == RepayAmount(s.v.hlpLiquidity[t], s.funding, p[t])
  IN  IF s.v.hlpLiquidity[t] > 0 /\ s.funding > 0
      THEN [s EXCEPT !.v = BorrowFundingFeeFromHlp(@, a, t, r.amount, r.value),
                     !.funding = @ - r.value]
      ELSE s

IncreaseCollateral(v, a, pnl, fundingFee, tpToken, p) ==
  LET start == [v |-> v, profit |-> IF pnl > 0 THEN pnl ELSE 0,
                funding |-> IF fundingFee < 0 THEN -fundingFee ELSE 0]
      chosen == IF tpToken = NoToken THEN start ELSE ProfitFromHlp(start, a, tpToken, p)
      FromReserve(s, t) == FundingFeeFromReserve(s, a, t, p)
      FromHlp(s, t) == FundingFeeFromHlp(ProfitFromHlp(s, a, t, p), a, t, p)
  IN  Through(HlpAssets, FromHlp, Through(HlpAssets, FromReserve, chosen)).v

-----------------------------------------------------------------------------
(* _decreaseCollateral.  The debts themselves are the amounts still to be    *)
(* paid: each leg lowers both.  payer is the balance read at the start of a  *)
(* token's legs and run down by them, liquidation the fee still due.         *)

(* A wrong variant, for TypeOK to notice: payer is not run down. *)
LiquidationFeeUncounted(s, a, t, p, liquidator) ==
  LET r == RepayAmount(s.payer, s.liquidation, p[t])
  IN  IF s.payer > 0 /\ s.liquidation > 0
      THEN [s EXCEPT !.v = Transfer(s.v, t, a, liquidator, r.amount),
                     !.liquidation = @ - r.value]
      ELSE s

LiquidationFee(s, a, t, p, liquidator) ==
  LET r == RepayAmount(s.payer, s.liquidation, p[t])
  IN  IF s.payer > 0 /\ s.liquidation > 0
      THEN [v |-> Transfer(s.v, t, a, liquidator, r.amount),
            payer |-> s.payer - r.amount, liquidation |-> s.liquidation - r.value]
      ELSE s

BorrowingFeeToHlp(s, a, t, p) ==
  LET owed == s.v.debt["borrowingFee"][a]
      r == RepayAmount(s.payer, owed, p[t])
      dev == DevShare(r.amount)
  IN  IF s.payer > 0 /\ owed > 0
      THEN [s EXCEPT !.v = SubDebt(PayBorrowingFee(@, a, t, dev, r.amount - dev),
                                   "borrowingFee", a, r.value),
                     !.payer = @ - r.amount]
      ELSE s

TradingFeeToProtocol(s, a, t, p) ==
  LET owed == s.v.debt["tradingFee"][a]
      r == RepayAmount(s.payer, owed, p[t])
      dev == DevShare(r.amount)
  IN  IF s.payer > 0 /\ owed > 0
      THEN [s EXCEPT !.v = SubDebt(PayTradingFee(@, a, t, dev, r.amount - dev),
                                   "tradingFee", a, r.value),
                     !.payer = @ - r.amount]
      ELSE s

FundingFeeToHlp(s, a, t, p) ==
  LET owed == s.v.debt["fundingFee"][a]
      r == RepayAmount(s.payer, Least(owed, s.v.hlpLiquidityDebt), p[t])
  IN  IF s.payer > 0 /\ owed > 0 /\ s.v.hlpLiquidityDebt > 0
      THEN [s EXCEPT !.v = SubDebt(RepayFundingFeeDebtToHlp(@, a, t, r.amount, r.value),
                                   "fundingFee", a, r.value),
                     !.payer = @ - r.amount]
      ELSE s

FundingFeeToReserve(s, a, t, p) ==
  LET owed == s.v.debt["fundingFee"][a]
      r == RepayAmount(s.payer, owed, p[t])
  IN  IF s.payer > 0 /\ owed > 0
      THEN [s EXCEPT !.v = SubDebt(PayFundingFeeToReserve(@, a, t, r.amount),
                                   "fundingFee", a, r.value),
                     !.payer = @ - r.amount]
      ELSE s

LossToHlp(s, a, t, p) ==
  LET owed == s.v.debt["loss"][a]
      r == RepayAmount(s.payer, owed, p[t])
  IN  IF s.payer > 0 /\ owed > 0
      THEN [s EXCEPT !.v = SubDebt(PayHlp(@, a, t, r.amount), "loss", a, r.value),
                     !.payer = @ - r.amount]
      ELSE s

(* Wrong variants, for BrokeBeforeIndebted and PaidBySeniority to notice:    *)
(* losses are not collected; losses are collected before the fees.           *)
SettleFeesOnly(s, a, t, p, liquidator) ==
  LET s0 == [s EXCEPT !.payer = s.v.traderBalances[a][t]]
      s2 == BorrowingFeeToHlp(LiquidationFee(s0, a, t, p, liquidator), a, t, p)
      s3 == TradingFeeToProtocol(s2, a, t, p)
  IN  FundingFeeToReserve(FundingFeeToHlp(s3, a, t, p), a, t, p)

SettleLossFirst(s, a, t, p, liquidator) ==
  LET s0 == [s EXCEPT !.payer = s.v.traderBalances[a][t]]
      s1 == LossToHlp(LiquidationFee(s0, a, t, p, liquidator), a, t, p)
      s3 == TradingFeeToProtocol(BorrowingFeeToHlp(s1, a, t, p), a, t, p)
  IN  FundingFeeToReserve(FundingFeeToHlp(s3, a, t, p), a, t, p)

(* All the legs for one token, in the order the code takes them. *)
SettleToken(s, a, t, p, liquidator) ==
  LET s0 == [s EXCEPT !.payer = s.v.traderBalances[a][t]]
      s1 == LiquidationFee(s0, a, t, p, liquidator)
      s2 == BorrowingFeeToHlp(s1, a, t, p)
      s3 == TradingFeeToProtocol(s2, a, t, p)
      s4 == FundingFeeToHlp(s3, a, t, p)
      s5 == FundingFeeToReserve(s4, a, t, p)
  IN  LossToHlp(s5, a, t, p)

(* What is owed is booked as debt first; old debts are collected with it. *)
BookDebts(v, a, bill) ==
  LET v1 == IF bill.pnl < 0 THEN AddDebt(v, "loss", a, -bill.pnl) ELSE v
      v2 == AddDebt(v1, "tradingFee", a, bill.trading)
      v3 == AddDebt(v2, "borrowingFee", a, bill.borrowing)
  IN  IF bill.funding > 0 THEN AddDebt(v3, "fundingFee", a, bill.funding) ELSE v3

DecreaseCollateral(v, a, bill, liquidationFee, liquidator, p) ==
  LET Settled(s, t) == SettleToken(s, a, t, p, liquidator)
      start == [v |-> BookDebts(v, a, bill), payer |-> 0, liquidation |-> liquidationFee]
  IN  Through(HlpAssets, Settled, start).v
=============================================================================
