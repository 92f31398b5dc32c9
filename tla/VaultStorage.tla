---------------------------- MODULE VaultStorage ----------------------------
(* storages/VaultStorage.sol: the contract that holds every token of the     *)
(* exchange and the books that say whose they are.  A vault is a record with *)
(* one field per mapping of the contract; each external function of the      *)
(* contract is an operator from a vault to the vault it leaves, and each     *)
(* condition it reverts under an operator CanXxx.  The services compose      *)
(* these operators into transactions (TradeHelper, VaultLedger, Rebalance).  *)
EXTENDS Integers, Sequences, FiniteSets, Sums

CONSTANTS
  Tokens,       \* the ERC-20 tokens the vault accounts for
  SubAccounts   \* the traders' sub-accounts (primary account xor sub id)

ASSUME VaultAssumption == IsFiniteSet(Tokens) /\ IsFiniteSet(SubAccounts)

(* The four mappings tradingFeeDebt ... lossDebt, each with its global sum.  *)
DebtKinds == {"tradingFee", "borrowingFee", "fundingFee", "loss"}

PerToken == [Tokens -> Nat]

(* balanceOf is what the token contract says the vault holds; it also grows  *)
(* when anyone transfers tokens to the vault.  pendingRewardDebt is          *)
(* getPendingRewardDebt(): the part of a feed that has not vested yet.       *)
Vaults ==
  [balanceOf : PerToken, totalAmount : PerToken, hlpLiquidity : PerToken,
   hlpLiquidityOnHold : PerToken, protocolFees : PerToken, devFees : PerToken,
   fundingFeeReserve : PerToken, pendingRewardDebt : PerToken,
   hlpLiquidityDebt : Nat,
   traderBalances : [SubAccounts -> PerToken],
   traderTokens : [SubAccounts -> Seq(Tokens)],
   debt : [DebtKinds -> [SubAccounts -> Nat]],
   globalDebt : [DebtKinds -> Nat]]

Zero == [t \in Tokens |-> 0]

EmptyVault ==
  [balanceOf |-> Zero, totalAmount |-> Zero, hlpLiquidity |-> Zero,
   hlpLiquidityOnHold |-> Zero, protocolFees |-> Zero, devFees |-> Zero,
   fundingFeeReserve |-> Zero, pendingRewardDebt |-> Zero,
   hlpLiquidityDebt |-> 0,
   traderBalances |-> [a \in SubAccounts |-> Zero],
   traderTokens |-> [a \in SubAccounts |-> << >>],
   debt |-> [k \in DebtKinds |-> [a \in SubAccounts |-> 0]],
   globalDebt |-> [k \in DebtKinds |-> 0]]

-----------------------------------------------------------------------------
(* Tokens in and out.                                                        *)

(* An ERC-20 transfer to the vault's address: the books do not move. *)
Receive(v, t, amount) == [v EXCEPT !.balanceOf[t] = @ + amount]

PullDelta(v, t) == v.balanceOf[t] + v.hlpLiquidityOnHold[t] - v.totalAmount[t]

PullToken(v, t) ==
  [v EXCEPT !.totalAmount[t] = v.balanceOf[t] + v.hlpLiquidityOnHold[t]]

CanPush(v, t, amount) == amount <= v.balanceOf[t]

PushToken(v, t, amount) ==
  [v EXCEPT !.balanceOf[t] = @ - amount,
            !.totalAmount[t] =
               v.balanceOf[t] - amount + v.hlpLiquidityOnHold[t]]

CanClearOnHold(v, t, amount) ==
  amount <= v.totalAmount[t] /\ amount <= v.hlpLiquidityOnHold[t]

ClearOnHold(v, t, amount) ==
  [v EXCEPT !.totalAmount[t] = @ - amount,
            !.hlpLiquidityOnHold[t] = @ - amount]

-----------------------------------------------------------------------------
(* The liquidity pool and the fees.                                          *)

AddHLPLiquidity(v, t, amount) == [v EXCEPT !.hlpLiquidity[t] = @ + amount]

(* Unvested rewards cannot be removed: hlpLiquidity - pendingRewardDebt must *)
(* neither underflow nor be less than amount.                                *)
CanRemoveHLPLiquidity(v, t, amount) ==
  v.pendingRewardDebt[t] + amount <= v.hlpLiquidity[t]

RemoveHLPLiquidity(v, t, amount) == [v EXCEPT !.hlpLiquidity[t] = @ - amount]

RemoveHLPLiquidityOnHold(v, t, amount) ==
  [v EXCEPT !.hlpLiquidity[t] = @ - amount,
            !.hlpLiquidityOnHold[t] = @ + amount]

AddFee(v, t, amount) == [v EXCEPT !.protocolFees[t] = @ + amount]

AddDevFee(v, t, amount) == [v EXCEPT !.devFees[t] = @ + amount]

AddFundingFee(v, t, amount) == [v EXCEPT !.fundingFeeReserve[t] = @ + amount]

CanWithdrawFee(v, t, amount) == amount <= v.protocolFees[t] /\ CanPush(v, t, amount)

WithdrawFee(v, t, amount) ==
  PushToken([v EXCEPT !.protocolFees[t] = @ - amount], t, amount)

CanWithdrawDevFee(v, t, amount) == amount <= v.devFees[t] /\ CanPush(v, t, amount)

WithdrawDevFee(v, t, amount) ==
  PushToken([v EXCEPT !.devFees[t] = @ - amount], t, amount)

(* feed(): the tokens join the pool at once but vest over the duration. *)
FeedReward(v, t, amount) ==
  LET w == PullToken(AddHLPLiquidity(Receive(v, t, amount), t, amount), t)
  IN  [w EXCEPT !.pendingRewardDebt[t] = @ + amount]

WithdrawSurplusToHLP(v, t, amount) ==
  [v EXCEPT !.fundingFeeReserve[t] = @ - amount, !.hlpLiquidity[t] = @ + amount]

CanConvert(v, convert, target, convertAmount, targetAmount) ==
  /\ convertAmount <= v.fundingFeeReserve[convert]
  /\ targetAmount <= v.hlpLiquidity[target]

(* A wrong variant, for KeepsCustody to notice: the pool does not pay. *)
ConvertForNothing(v, convert, target, convertAmount, targetAmount) ==
  [v EXCEPT !.fundingFeeReserve[convert] = @ - convertAmount,
            !.fundingFeeReserve[target] = @ + targetAmount,
            !.hlpLiquidity[convert] = @ + convertAmount]

ConvertFundingFeeReserveWithHLP(v, convert, target, convertAmount, targetAmount) ==
  [v EXCEPT !.fundingFeeReserve[convert] = @ - convertAmount,
            !.fundingFeeReserve[target] = @ + targetAmount,
            !.hlpLiquidity[convert] = @ + convertAmount,
            !.hlpLiquidity[target] = @ - targetAmount]

-----------------------------------------------------------------------------
(* Traders' collateral.  traderTokens[a] is the list the calculator walks to *)
(* value a's collateral: a token is appended when its balance leaves zero    *)
(* and swapped with the last and popped when the balance is back to zero.    *)

Listed(s, t) == \E i \in DOMAIN s : s[i] = t

(* A wrong variant, for TokensListed to notice: popped without swapping. *)
PopOnly(s, t) == [j \in 1 .. Len(s) - 1 |-> s[j]]

SwapAndPop(s, t) ==
  LET i == CHOOSE i \in DOMAIN s : s[i] = t /\ \A j \in 1 .. i - 1 : s[j] # t
  IN  [j \in 1 .. Len(s) - 1 |-> IF j = i THEN s[Len(s)] ELSE s[j]]

(* _validateAddTraderToken reverts when the token is already listed. *)
CanIncrease(v, a, t, amount) ==
  amount > 0 /\ v.traderBalances[a][t] = 0 => ~ Listed(v.traderTokens[a], t)

IncreaseTraderBalance(v, a, t, amount) ==
  IF amount = 0 THEN v
  ELSE [v EXCEPT !.traderBalances[a][t] = @ + amount,
                 !.traderTokens[a] =
                    IF v.traderBalances[a][t] = 0 THEN Append(@, t) ELSE @]

CanDeduct(v, a, t, amount) == amount <= v.traderBalances[a][t]

DeductTraderBalance(v, a, t, amount) ==
  IF amount = 0 THEN v
  ELSE [v EXCEPT !.traderBalances[a][t] = @ - amount,
                 !.traderTokens[a] =
                    IF v.traderBalances[a][t] = amount /\ Listed(@, t)
                    THEN SwapAndPop(@, t) ELSE @]

(* A wrong variant, for OthersUntouched to notice: from and to swapped. *)
TransferBack(v, t, from, to, amount) ==
  IncreaseTraderBalance(DeductTraderBalance(v, to, t, amount), from, t, amount)

Transfer(v, t, from, to, amount) ==
  IncreaseTraderBalance(DeductTraderBalance(v, from, t, amount), to, t, amount)

-----------------------------------------------------------------------------
(* Settlement between a trader, the pool, the fees and the fee reserve.      *)

PayHlp(v, a, t, amount) ==
  DeductTraderBalance([v EXCEPT !.hlpLiquidity[t] = @ + amount], a, t, amount)

PayTradingFee(v, a, t, devFee, protocolFee) ==
  LET w == DeductTraderBalance(v, a, t, devFee + protocolFee)
  IN  [w EXCEPT !.devFees[t] = @ + devFee, !.protocolFees[t] = @ + protocolFee]

PayBorrowingFee(v, a, t, devFee, hlpFee) ==
  LET w == DeductTraderBalance(v, a, t, devFee + hlpFee)
  IN  [w EXCEPT !.devFees[t] = @ + devFee, !.hlpLiquidity[t] = @ + hlpFee]

PayTraderProfit(v, a, t, profit, settlementFee) ==
  LET w == [v EXCEPT !.hlpLiquidity[t] = @ - profit,
                     !.protocolFees[t] = @ + settlementFee]
  IN  IncreaseTraderBalance(w, a, t, profit - settlementFee)

PayFundingFeeToReserve(v, a, t, amount) ==
  LET w == DeductTraderBalance(v, a, t, amount)
  IN  [w EXCEPT !.fundingFeeReserve[t] = @ + amount]

PayFundingFeeFromReserve(v, a, t, amount) ==
  IncreaseTraderBalance([v EXCEPT !.fundingFeeReserve[t] = @ - amount], a, t, amount)

RepayFundingFeeDebtToHlp(v, a, t, amount, value) ==
  LET w == DeductTraderBalance(v, a, t, amount)
  IN  [w EXCEPT !.hlpLiquidity[t] = @ + amount, !.hlpLiquidityDebt = @ - value]

BorrowFundingFeeFromHlp(v, a, t, amount, value) ==
  LET w == IncreaseTraderBalance([v EXCEPT !.hlpLiquidity[t] = @ - amount], a, t, amount)
  IN  [w EXCEPT !.hlpLiquidityDebt = @ + value]

AddDebt(v, kind, a, value) ==
  [v EXCEPT !.debt[kind][a] = @ + value, !.globalDebt[kind] = @ + value]

(* A wrong variant, for DebtsAgree to notice: the global debt stays. *)
SubOwnDebt(v, kind, a, value) == [v EXCEPT !.debt[kind][a] = @ - value]

SubDebt(v, kind, a, value) ==
  [v EXCEPT !.debt[kind][a] = @ - value, !.globalDebt[kind] = @ - value]

-----------------------------------------------------------------------------
(* What the books must say.                                                  *)

(* All the sub-accounts' collateral in token t. *)
Collateral(v, t) == SumOver(SubAccounts, [a \in SubAccounts |-> v.traderBalances[a][t]])

(* Everything the vault owes in token t and must be able to hand out now. *)
Owed(v, t) ==
  Collateral(v, t) + v.hlpLiquidity[t] + v.protocolFees[t] + v.devFees[t]
    + v.fundingFeeReserve[t]

(* The tokens on hold are with someone else; all the rest is here. *)
Covered(v) ==
  \A t \in Tokens :
     /\ Owed(v, t) + v.hlpLiquidityOnHold[t] <= v.totalAmount[t]
     /\ v.totalAmount[t] <= v.balanceOf[t] + v.hlpLiquidityOnHold[t]

(* traderTokens[a] lists the tokens a has a balance in, each exactly once. *)
ListedExactly(v) ==
  \A a \in SubAccounts :
     LET s == v.traderTokens[a]
     IN  /\ \A t \in Tokens : Listed(s, t) <=> v.traderBalances[a][t] > 0
         /\ \A i, j \in DOMAIN s : s[i] = s[j] => i = j

(* The global debts used in the pool's value are the sums of the traders'. *)
DebtsAddUp(v) ==
  \A k \in DebtKinds : v.globalDebt[k] = SumOver(SubAccounts, v.debt[k])
=============================================================================
