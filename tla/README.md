# HMXv2: a verification project

This directory keeps TLA+ models of the core of HMXv2, a perpetual exchange on the EVM
(`src/src`, Solidity) and of the scripts its operators run it with (`src/script/ts`), the TLC
configurations that check them on small instances, and TLAPS proofs for every instance. `PROJECT.json` maps each definition to the lines it models.

## 1. The system

### Components

| component (under `src/src`) | state it keeps | operations |
|---|---|---|
| `storages/VaultStorage` | the tokens of the exchange; books of who owns them: `traderBalances`, `traderTokens`, `hlpLiquidity`, `hlpLiquidityOnHold`, `protocolFees`, `devFees`, `fundingFeeReserve`, four kinds of debt with global sums, `hlpLiquidityDebtUSDE30`, vesting rewards | pull, push, pay, transfer, add and remove debt, feed; called by whitelisted services only |
| `helpers/TradeHelper` | none (a library contract) | settle profit, loss and fees of a trader against the vault; update rates |
| `services/CrossMarginService` | none | deposit, withdraw, transfer, switch collateral; withdraw funding surplus |
| `services/LiquidityService` | none | add and remove liquidity of the pool |
| `services/TradeService`, `services/LiquidationService`, `storages/PerpStorage` | positions, market sizes, reserves, funding and borrowing accumulators | increase, decrease, force close, liquidate |
| `services/GasService` | a counter of subsidised fees | collect an execution fee from collateral |
| `handlers/BotHandler` | roles | keepers' calls: liquidate, deleverage, convert or inject the fee reserve |
| `services/RebalanceHLPService` | none | swap pool tokens; stake and unstake GLP |
| `services/RebalanceHLPv2Service` | pending deposits and withdrawals by GMX key; tokens between a delivery and its callback | create orders on GMX v2; four callbacks |
| `contracts/ExternalRebalancer` | the allowed change of value | hand pool tokens to a recipient, take the replacement |
| `handlers/LiquidityHandler02` | orders, next index per sub-account, sets of active and executed pointers, the tokens and fees left with it | create, execute in batches, cancel |
| `handlers/LimitTradeHandler`, `helpers/LimitTradeHelper` | market and limit orders, their execution fees, the next index per sub-account, sets of pointers by kind; limits on a trade and a position | create, update, cancel, in batches too; execute in batches; set limits |
| `handlers/IntentHandler`, `helpers/TradeOrderHelper` | the keys of the intents used up; limits again | execute signed intents in batches; set limits |
| `handlers/CrossMarginHandler(02)`, `Ext01Handler`, `LiquidityHandler` | orders of other kinds | create, execute, cancel |
| `contracts/Calculator`, `AdaptiveFeeCalculator` | none | value of the pool and of collateral, margins, rates |
| `contracts/HLP`, `DLP`, `Timelock`, `storages/ConfigStorage` | shares, delayed calls, parameters | mint, burn, queue, execute, set |
| administration of every contract | parameters, allow lists, delegations | set (owner only) |
| `oracles/*`, `staking/*`, `tokens/*`, `readers/*`, `strategies/*` | prices, stakes and reward accumulators | update, stake, claim, read |
| `metric-core` | bins of liquidity of a separate pool | swap, add and remove liquidity |

And under `src/script/ts`:

| component | state it keeps | operations |
|---|---|---|
| `deploys` | the config file (`configs/*.json`): the address of every contract | deploy a contract, record its address |
| `configs` | none; what they set is in the contracts | call owners' and keepers' functions, directly, by the Safe, or whichever way the owner requires |
| `commands` | none | rebalance, close delisted markets, feed and withdraw, sign and execute what the Safe has pending |
| `upgrades` | none | deploy an implementation, point a proxy to it |
| `wrappers` | the queue of the Safe service, the nonces of the Safe and of the deployer, the Timelock's queue | route, propose, execute, queue |
| `queries`, `utils`, `entities`, `constants`, generated bindings | none | read, format, encode |

Users and keepers call handlers; handlers call services; services compute from
`PerpStorage`, `ConfigStorage` and the oracles and move tokens by calling `VaultStorage`.
A call is atomic: it commits as a whole or reverts as a whole. What is *not* atomic are the
protocols of several transactions, and the scripts, whose every read, transaction and proposal
is an await: an order created by a user and executed later by a
keeper, a GMX order answered by a callback in GMX's transaction (where GMX catches a
revert and goes on), a rebalance started and completed by an external party, and balances
that anyone can raise by a plain transfer.

### What is hard

* **Accounting.** Some thirty functions of the vault are composed into transactions by seven
  callers, each booking claims in one place and tokens in another. `pullToken` credits the
  difference between the balance and the last written `totalAmount`, so stray transfers,
  tokens on hold and missing writes all show up in someone's books later.
* **Rounding and order in settlement.** Values are paid in several tokens whose conversion
  rounds down, in a fixed order of legs and tokens, with running balances kept in memory.
* **Partial failure.** A GMX callback that reverts undoes its own effects only; an order that
  fails in a batch is refunded in the batch.
* **Interleaving.** Two rebalancing protocols share one mapping of holds; calls to order
  books land after the order they name was settled; several executors send the same signed
  intent; an order is carried out against a position and limits that changed since it was
  left, by other orders, intents or keepers.
* **Running sums.** The book of positions keeps sizes, reserves, funding and borrowing fees as
  totals that every increase, partial decrease, forced close and liquidation must keep equal
  to the sums over positions, while rates and market parameters change in between.
* **Scripts without locks.** Several operators share one config file, one deployer account and
  one Safe; what a script read is old when it acts, and it may die between two steps.
* **Liveness.** Orders and rebalances must come back.

### What would make it correct

* The vault: every field stays a natural number (checked arithmetic never reverts a
  settlement), the balance covers the books, lists and sums agree with what they summarise,
  transactions neither create nor destroy claims.
* Settlement: senior claims first, debt only when nothing is left, nobody else touched.
* Rebalancing: holds equal what pending orders took, and each traces back to an order, a
  rebalance or a callback that failed; each order is settled; no token is left in the service.
* Orders: the handler can always settle all active orders; the lists agree with the orders;
  every order is settled.
* Trade orders and intents: the handler holds the fees of its active orders and no others; the
  lists tell market from limit orders; an intent takes effect once for the words it is sent
  in; a reduce-only order never
  opens, grows or turns a position; limits hold when an order is carried out; a market order
  does not stay.
* Positions: sizes and reserves are the sums over the open positions, unsettled funding and
  borrowing fees too but for truncation, which no number of settlements adds up; every open position is listed once; the surplus of funding fees leaves what is
  owed. Shares (planned): adding and removing liquidity does not dilute.
* Deployment: every contract is wired to contracts of the kinds it takes; the file never names
  one that does not exist and loses an address only to overlapping runs.
* Operation: what is proposed is not lost and takes effect in order; a setting is not undone;
  an upgrade gives a proxy its own implementation after the announced delay.

## 2. The modules

| module | models | kind |
|---|---|---|
| `Sums` | sums over finite sets, loops over lists | definitions |
| `VaultStorage` | `storages/VaultStorage.sol` | operators on a vault record |
| `TradeHelper` | the settlement of `helpers/TradeHelper.sol` | operators |
| `VaultLedger` | the transactions of the services, GasService and BotHandler | state machine |
| `Custody` | what the vault promises, without its books | abstract specification |
| `Rebalance` | RebalanceHLPv2Service with GMX, ExternalRebalancer, the swap of RebalanceHLPService | state machine over VaultLedger's vault |
| `LiquidityOrders` | `handlers/LiquidityHandler02.sol` | state machine |
| `Positions` | what an order does to a position's size, limits, keepers' closing | definitions and a variable |
| `LimitOrders` | `handlers/LimitTradeHandler.sol`, `helpers/LimitTradeHelper.sol` | variables and actions |
| `Intents` | `handlers/IntentHandler.sol`, `helpers/TradeOrderHelper.sol` | variables and actions |
| `TradeOrders` | orders, intents, keepers and owner on the same positions | state machine composing the three |
| `PerpBook` | `storages/PerpStorage.sol` and what TradeService, LiquidationService, TradeHelper and CrossMarginService write in it | state machine |
| `Contracts` | the initializers of the contracts: what they take, what they ask of it | definitions |
| `DeployScripts` | `script/ts/deploys`: contract, arguments, key | definitions |
| `Deployment` | the deployment scripts running on the config file | state machine |
| `Steps` | the vocabulary of the other scripts | definitions |
| `ConfigScripts`, `CommandScripts`, `UpgradeScripts` | `script/ts/configs`, `commands`, `upgrades`: the calls each script makes | definitions |
| `Governance` | what the contracts allow the operators and what a call changes; the Timelock | operators on a chain record |
| `Operations` | the scripts and their wrappers running | state machine over Governance's chain |
| `MCVaultLedger`, `MCRebalance`, `MCLiquidityOrders`, `MCTradeOrders`, `MCPerpBook`, `MCDeployment`, `MCOperations` | instances for TLC | |
| `SumsProofs` | what `Sums` computes: sums that change in one place, loops that keep an invariant | proofs |
| `VaultLedgerProofs` | `VaultStorage`, `TradeHelper`, `VaultLedger`: the operators, settlement, transactions | proofs |
| `RebalanceProofs` | `Rebalance` | proofs |
| `LiquidityOrdersProofs` | `LiquidityOrders` | proofs |
| `TradeOrdersProofs` | `LimitOrders`, `Intents`, `TradeOrders` | proofs |
| `PerpBookProofs` | `PerpBook` | proofs |
| `DeploymentProofs` | `Deployment`, `DeployScripts`, `Contracts` | proofs |
| `OperationsProofs` | `Operations`, `Governance`, `Steps` and the scripts' calls | proofs |

**VaultStorage.** A vault is a record with one field per mapping of the contract, plus
`balanceOf`, what the token contracts say. An external function of the contract is an
operator from vault to vault; what it reverts under is an operator `CanXxx`. The four kinds of
debt, four pairs of mappings in the code, are one function on kinds. Events, the strategy
calls (`cook`) and the setters are left out. `CanIncrease` and `Listed` are
`_validateAddTraderToken` and the search in `_removeTraderToken`. Five functions that nothing
under `src/src` calls have no operator (`addHlpLiquidityDebtUSDE30`,
`removeHlpLiquidityDebtUSDE30`, `removeFundingFee`, `payFundingFeeFromTraderToHlp`,
`payFundingFeeFromHlpToTrader`); `feedWithExpiredAt` is `FeedReward` like `feed`.

**TradeHelper.** One operator per leg (`_increaseCollateralWith...`, `_decreaseCollateralWith...`).
The memory struct `_vars` becomes a record: the vault, what is left to receive or pay, and the
payer's running balance. `Through` (of `Sums`) is the `for` loop over assets. Values are USD, amounts tokens;
`Unit` stands for `10 ** decimals`.

**VaultLedger.** One action per transaction that moves the vault's books: the external call
from the handler's transfer of tokens to the last write. What the services read from
positions and prices (profit, fees due, whether margins allow it) is an input chosen by the
environment, so each action allows at least what the code allows. `Donate` is a transfer to
the vault by anyone. Vesting is abstracted: time may lower `pendingRewardDebt` to anything.
The bounds `MaxBalance`, `Limits`, `MaxReward`, `MaxDebt` stand for the top of `uint256`: a
transaction that would pass them reverts. `Limits` bounds the tokens together, so that an
instance may hold more of one token where it has none of the other. Settling an increase (`settleAllFees`) is `Settle`
with no profit and no chosen token.

**Rebalance.** Adds the pending orders by GMX key, GMX's own view of an order (`gmx`), the
tokens the service holds, and the tokens with the rebalancer's recipients. Creating an order
is one action. Finishing it is one action of GMX: it delivers the tokens to the service and
calls back; either the callback's whole effect is kept or none of it is, and the delivery and
GMX's own state stay. `OutOfGas` lets the callback fail for want of gas even when it would
succeed (the order sets a gas limit for it). GMX does not call again: such an order stays
`pending` and its tokens on hold, with no function of the service to release them (what
`completeRebalance` clears of the same token, it takes from them). `InFlight` and `Stranded`
are the parts of the pending orders that GMX has and that it is done with.

**LiquidityOrders.** An order is an amount of an asset with an execution fee; minimum outputs
and wrapping are data. A batch runs through a state of the call, so that a failing order's
refund, the following orders and the fees paid at the end see each other's effects.
`Status` has no failed orders: they are deleted. Where `late` is true calls may name orders
already settled, as they may when they were sent before; where it is false calls name active
orders, each once, as keepers that read the getters do. `LateCalls` says which an instance has.

**LimitOrders, Intents, TradeOrders.** An order or an intent is a change of a position's size,
reduce-only or not, market or limit; the trigger and acceptable prices, the market's status
and the service's checks are the `outcome` of a call, which may be any. `Batch` stands for the
external calls of a trader (`createOrder`, `updateOrder`, `cancelOrder` and
`batchCancelOrders` are batches of their own), `ExecuteOrders` and `Execute` go through what
the executor sends, one order after the other, each seeing what the last did. `CarryOut` is
the decision both handlers make (increase, decrease, close and open on the other side), with
the final size of the one or two calls to TradeService; `RevisedDelta` is LimitTradeHandler's
"all of it". An order whose call to TradeService is refused is undone, its removal included.
`filled` and `charged` are history: how often LogExecuteTradeOrderSuccess was emitted and the
fee collected for an intent (what collecting does to the vault is in `VaultLedger`). An
intent is sent as two words, whose hash is its key. The signature is over the fields decoded
from them; the `rest` of a key is what the other bits hold (those of the first word above 168,
of the second above 246), so `Keys` may have several keys of one signed intent. Delegates act as the
account; whether a signature is valid is an outcome, since a delegation may be withdrawn
between signing and sending. The per-account sets of pointers are parts of the global ones.

**PerpBook.** `book` is PerpStorage, field by field: positions, the list of a sub-account's
positions (append, swap with the last and pop), the sets of active positions and
sub-accounts, market sizes and funding, asset classes with reserves and borrowing fees. One
action per external call: `IncreasePosition`, `DecreasePosition`, `ForceClosePosition` (taking
the maximum profit, deleveraging, closing in a delisted market), `Liquidate` with its loop over
a copy of the list, `WithdrawFundingFeeSurplus`, and the owner's `SetFundingRate` and
`SetMarketConfig`. Each brings the rates of the market and its asset class up to date first, as
the code does. Prices, profits and the checks of margin are left out: they only refuse calls,
so the model allows at least what the code allows. Fees are truncated where the code truncates
them: the division by `RATE_PRECISION` on the total of a class or side each time it accrues and
on a position for all the time since it last settled, those by the interval, the skew scale and
two besides (`Quotient` rounds towards zero, as the EVM does). Time is in days, an
interval a whole number of them; the parts of a day the code computes with (in 1e18ths, truncated) go
into the accrued rate, which a side and its positions share. `IntervalsTo` counts the intervals
since the clock began, more than ever accrued: with the deployed interval of a second less than 2 * 10^9
of them by now, beside amounts of which a dollar is 10^30 units. A market's `active` stands for `allowIncreasePosition` too when a position is
increased, and its margin fraction times its profit rate is one number, `reserveRate`. A market's
asset class is a constant.

**Deployment.** A contract is the list of parameters of its initializer, each with the kind of
contract it stands for and the getters the initializer calls on it (`Contracts`); a script is a
contract, the keys it passes, and the key it writes (`DeployScripts`: every script under
`deploys`). A run loads the file, deploys (if the initializer accepts the arguments), and
writes back the whole file it loaded with one key changed; it may stop before any step. What
the models record of an address is which contract lives there. The networks are taken as one:
each run reads and writes the file of the main network, as runs on `arbitrum` and on `tenderly`
both do (`config.ts:51-59`), and the chains they deploy to are not told apart. Sharing the file
between the two, a run on `tenderly` leaves in it an address that exists on its own chain only,
which `FileNamesDeployed` does not notice.

**Operations.** A script is a sequence of steps, a step a call with the way it is made
(`Steps`). The constants' `Shifts` are the situations the operators may find (who owns the
contracts, the ProxyAdmin and the Timelock) with the scripts each may run. An action is one
await of a script: reading an owner and choosing the way (`authExec`, `upgrade`,
`throughTimelock`), reading the next nonce (`proposeTransaction`), posting at it
(`postTransaction`), sending. `Mine` mines the deployer's next transaction, `signersExecute` and
`signersReject` act on the Safe's head, `cancelTransaction` and `Tick` on the Timelock. What a
call needs to succeed (ownership, a role, an allowance, a balance) and what it changes is
`Governance`. `Refuses` is what contracts refuse by their own state: setters that can be called
once (`setDlp`, `setHlpStaking`, `insertAssetIds`, `insertMarketIndexes`), steps of the minimum
profit durations that are not there, a minimum execution fee that was changed after a script
read it. A situation says what was set before the scripts run. `Settings` are what scripts could
undo of each other: the configuration of a market, which `setMarketConfig` writes as a whole;
the maker and taker fees, which are in mappings of their own and which it leaves alone; the
minimum execution fee of CrossMarginHandler; the price feeds. What contracts check of the inputs
(ranges, lengths) is taken to be met. `settled`, `posted` and `met` are history: what was sent in which order, what came
of it, and whose runs overlapped.

## 3. The runs

`tlc -config X.cfg M` for each row; PROJECT.json has the list. Deadlock is not checked in
`Rebalance`, `LiquidityOrders`, `TradeOrders`, `Deployment` and `Operations`: with the finite supply of keys,
orders, balance and scripts the instances end, the program does not.

| run | instance | shows |
|---|---|---|
| `ledger` | 2 tokens, one of which may be worth three times the other; 2 sub-accounts, one the fee treasury; a token of each, or two of one | `TypeOK`, `BooksCovered`, `DebtsAgree`, `TokensListed`, `OthersUntouched`, `BrokeBeforeIndebted`, `PaidBySeniority`, and that it implements `Custody` (`KeepsCustody`) |
| `perp` | 2 traders, 2 markets of 2 asset classes, one of which changes its margin fraction and is delisted while the rate of the other is set by hand; 3 intervals | `TypeOK`, `BookAddsUp`, `PositionsListed`, `FundingAddsUp`, `BorrowingAddsUp`, `SettledIsAccrued` |
| `surplus` | as `perp`, with larger orders and reserve | refutes `SurplusLeavesWhatIsOwed` |
| `gmx` | 3 tokens, 2 keys, long deposits and withdrawals, callbacks with enough gas, fairness | `RebalanceTypeOK`, `SettledWithGmx`, `OrdersSettle` |
| `shared` | external rebalancer and GMX orders of both tokens, one of them shared; callbacks that may fail | `HeldExactly`, `HoldsTraced` |
| `cancel` | deposits of both tokens | refutes `CancelledIsReturned` |
| `clearall` | external rebalancer and GMX in one token | refutes `HeldWhileRebalancing` |
| `orders` | 2 sub-accounts (one an executor), 2 orders each, batches of 2, with and without late and repeated calls, fairness | `TypeOK`, `ListsAgree`; where no call lands late, `HoldsPending`, `OrdersHandled` |
| `trade` | 1 sub-account; a market order and a reduce-only limit order of everything; a market intent in two forms of its words and a reduce-only limit intent; calls of 2; positions of up to 2 on either side; limits set and lifted; fairness | `FeesHeld`, `ListsAgree`, `IntentsOnce`, `ReduceOnlyReduces`, `LimitsKept`, `MarketOrdersSettle` |
| `refund` | as `orders`, calls land late | refutes `NothingLeftAfterExecution` |
| `rollout` | 2 operators, any 2 deployment scripts, from the file of the main network | `Wired`, `FileNamesDeployed`, `KeptUnlessOverlapped` |
| `operate` | 2 operators: any configuration or command script beside one of five that disturb others, or any upgrade beside another upgrade or an execution by hand, for each owner and admin | `NoneLost`, `TakeEffectInOrder`, `SettingsKept`, `OneFeed`, `RoutedExecutable`, `OwnImplementation`, `Announced`, `QueueableInTime` |

**Bounds, and why they are enough.** The ledger's hazards are in the composition of one
transaction with an arbitrary state before it: two of a token let a payment leave a
remainder, prices three to one let it be rounded to zero, two tokens make a list that
swap-and-pop can get wrong and a settlement that continues in a second token, and two traders
show who is touched. The only fee on one token that does not round to nothing takes all of it,
and the developers' share of one half needs a fee of two tokens: so `Limits` has one of each
token, and two of the first alone. The ledger's properties are all proved for
every bound (section 4): its run guards the statements.
`Rebalance` needs two orders to interleave, three tokens because deposits turn two tokens into
a third. Its two order keys are interchangeable, so the runs that check invariants only use
them as a symmetry set. `MaxAUMDrop = 1` allows a change of value of one half, `MaxSwapLoss = 0`
none. `PoolStep` is part of `Rebalance` so that liquidity can be added, removed, donated and
fed between the transactions of an order.

`perp` needs two traders on both sides of one market for skew and funding of either sign, a
position of two units for a partial decrease, two markets for a list of positions that
swap-and-pop can get wrong and for a liquidation of more than one, and three intervals: the
first updates of a market and a class only set their clocks, the second accrues, the third
accrues at a changed rate. With `RatePrecision = 3` and rates that are no multiples of it
nearly every fee is truncated. Its asset classes have a market each; with the interval of one
time unit `LastInterval` is the present. The bounds `MaxFunds` and `MaxTime` stop the reserve
and the clock; totals do not depend on how far they run. Traders are a symmetry set.

`trade` needs orders on both sides of one position, of different sizes, so that one may
decrease, close or turn what another opened: orders of -1 and of everything and intents of 2
and -2 with positions from -2 to 2 do.
Two orders to a call make one order see what the one before it did, a batch refund a fee
before the new one is paid in, and a call name an order the same call has removed. Limits
that exist and do not, in each helper, changed at any time, are what staleness of limits
needs. The market intent may be sent in two forms of its words, which is what it takes for one
signed intent to have several keys. `MaxAttempts = 1` lets a limit intent fail, be charged, and
be sent again; charges of market intents have no bound but the code's. `MaxOrders = 2` lets an
index be used after an earlier order was settled (indexes are never used again). `AllOf` is
any number no size reaches. Sub-accounts share nothing but the handler's WETH and the lists,
which two orders of one account share as well.

`rollout`: whether a script's arguments fit is one script's matter; a wrong key is two
scripts' (one writes it, one reads it), and so is an overwritten file. `operate`: what disturbs
a script is one other script between two of its steps; the five are one for each kind of
disturbance (a rewritten configuration, a burst of nonces, a written-in nonce, a grant and its use, an
execution of the Safe's queue). With the delay 2, the grace period 1, the margin 1 and a
clock up to 5 a proposal can be in time, late, and stale.

**Fairness.** `FairRebalanceSpec`: GMX's keepers finish every open order, by executing or
cancelling it; they are paid for it by the execution fee the order carries. `FairSpec` of
`LiquidityOrders`: executors put every active order into some batch; they earn its fee
whether it succeeds or fails. An executor's batch is chosen from the active list, so weak
fairness per pointer is enough (where calls land late none is assumed). `FairSpec` of
`TradeOrders`: executors try every market order they find with `getMarketActiveOrders`, with
any outcome; they earn its fee unless it is stale. Limit orders and intents may wait for ever:
nothing obliges an executor to send them. No fairness is assumed of users, nor of operators, signers or
traders, of whom nothing live is claimed.

**Mutants.** Each property is listed with a plausible mistake in one definition (a dropped
guard, a swapped order, a missing reset: the operators described as wrong variants, or as bugs
to test a property with, in the modules) under which its run fails.

### Findings

* `cancel`: when GMX cancels a deposit, `RebalanceHLPv2Service.sol:282` sends back the long
  token for the short token's amount. With short tokens deposited and no spare long tokens the
  callback reverts, the order stays pending and its tokens stay in the service.
* `clearall`: `ExternalRebalancer.sol:147-156` clears everything on hold in a token, the
  tokens of pending GMX orders included, although the mapping is documented to keep track of
  what is under rebalancing. The GMX callback then finds no hold to clear.
* `refund`: `LiquidityHandler02.sol:574` says an order found with amount 0 was executed
  or cancelled, but an executed order keeps its amount (`_handleOrderSuccess`, 502-512), so a
  late cancellation is refunded from the tokens of other orders. `orders` shows what still
  holds then, and that this is the only way the handler comes to lack tokens.
* `surplus`: `CrossMarginService.sol:301` reads a market into memory before line 304 brings its
  funding up to date, and lines 306-315 sum what the copy owes. Funding that accrued since the
  last update is paid to the pool as surplus, and the reserve is left with less than the
  markets owe, which the comment at lines 310-311 says the sum is there to prevent. (Traders are
  then paid from the pool, as long as it has the tokens.)

### What the models show of holds

A hold may outlive its order. Only the four callbacks of `RebalanceHLPv2Service.sol:216-350`
clear what GMX orders took, and they run under the gas limit that the order set (150, 197).
When one fails GMX is done with the order all the same: it stays pending, its tokens stay on
hold and in the pool's value, and no function of the service releases them. `HoldsTraced`
names these orders in a term of their own (`Stranded`), and says that failed callbacks are the
one way a hold is left behind.

### What the models show of trade orders

Behaviour a reader of the properties should expect; nothing in the repository says otherwise:

* A reduce-only order on the wrong side, or with no position left, counts as carried out: it
  is used up and its fee is paid, without effect (`CarryOut`). Only an order of everything
  (`AllOf`) fails when there is nothing.
* A limit order of LimitTradeHandler that fails costs nothing; a limit intent that fails is
  charged for each attempt (`IntentsOnce` bounds the fee of market intents only).
* `IntentsOnce` is about words, not about what was signed. `IntentHandler.sol:97` keys an intent
  by the hash of the two words it was sent in, some bits of which are neither decoded nor covered
  by the signature: sent in words that differ in these, one signed intent is filled, and charged
  for, under each key (the comment at line 132 says that the order is recorded as executed;
  recorded is one form of it).
* One order that is no longer there reverts the whole of an `executeOrders` call; a replayed
  intent is skipped.
* The limits of LimitTradeHelper and TradeOrderHelper are set apart and may differ
  (`LimitsKept` is stated for each); `updateOrder` checks none, execution does.

### What the models show of the scripts

Met while translating them; no run is about these:

* `DeployScripts`: the deployment of GasService passes four arguments to an initializer of
  five; those of ConvertedGlpStrategy and StakedGlpOracleAdapter read `config.yieldSources`,
  which the networks' files do not have; that of HmxAccountFactory names a contract whose
  source is not in the repository. The first three throw before they write anything (`Deploy` is
  not enabled); the model takes the last to deploy what its script says.
* `multi-set-pyth` exists because five deployment scripts still pass the first `ecoPyth`.
* `CommandScripts`: clear-on-hold and remove-on-hold scale an amount that is in wei already and
  exit; `sign-txs` signs and sends the signatures nowhere; inject-liquidity has the Safe approve
  even where the deployer owns BotHandler and injects.
* The wrappers do not ask whether a contract would refuse a call: `set-dlp` run a second time
  (`LiquidityHandler.sol:711`), or `remove-last-step-min-profit-duration` with none left
  (`ConfigStorage.sol:723`), proposes what cannot be executed and blocks the Safe's queue until the
  signers reject it. `RoutedExecutable` exempts just these (`Refuses`).
* A `nonce` of 0 given to SafeWrapper counts as none. `authExec` waits for no transaction to be
  mined. No script executes what the Timelock has queued: operators do it by hand.
* ProxyAdminWrapper computes the time of an upgrade from `MINIMUM_DELAY`, not from the delay in
  force; `Announced` and `QueueableInTime` hold for a delay that was not changed.

## 4. The proofs

The theorems hold for every value of the constants that the named ASSUMEs of the modules
allow: any finite sets of tokens, traders, markets, keys, orders and intents, any prices, rates,
fees, amounts and bounds, and calls of any length.

| module | theorem | says |
|---|---|---|
| `VaultLedgerProofs` | `Invariance` | `LedgerSpec => []LedgerInv`, the inductive invariant |
| | `TypeCorrect` | `TypeOK` always: nothing in the books underflows |
| | `Solvent` | `BooksCovered` always |
| | `ListsExact` | `TokensListed` always |
| | `DebtsExact` | `DebtsAgree` always |
| | `Refinement` | `LedgerSpec` implements `Custody` |
| | `OneTraderPays` | `OthersUntouched`, of every step |
| | `CollateralFirst` | `BrokeBeforeIndebted`, of every step |
| | `SeniorsFirst` | `PaidBySeniority`, of every step |
| `RebalanceProofs` | `RebalanceInvariance` | `RebalanceSpec => []RebalanceInv`, the inductive invariant |
| | `RebalanceTypeCorrect` | `RebalanceTypeOK` always |
| | `RebalanceSolvent` | `BooksCovered` always, with the pool's tokens travelling |
| | `HoldsExact` | `HeldExactly` always |
| | `HoldsAreTraced` | `HoldsTraced` always |
| | `Settles` | `SettledWithGmx` always, if `Undisturbed` |
| `LiquidityOrdersProofs` | `OrdersInvariance` | `Spec => []OrdersInv`, the inductive invariant |
| | `OrdersTypeCorrect` | `TypeOK` always: no transfer takes more than the handler has |
| | `HoldsForPending` | `HoldsPending` always |
| | `OrderListsAgree` | `ListsAgree` always |
| `TradeOrdersProofs` | `TradeInvariance` | `Spec => []TradeInv`, the inductive invariant |
| | `FeesExact` | `FeesHeld` always |
| | `TradeListsAgree` | `ListsAgree` always |
| | `IntentsTakeEffectOnce` | `IntentsOnce` always |
| | `ReduceOnlyOrdersReduce` | `ReduceOnlyReduces`, of every step |
| | `NoLimitPassed` | `LimitsKept`, of every step |
| `PerpBookProofs` | `PerpInvariance` | `Spec => []PerpInv`, the inductive invariant |
| | `PerpTypes` | `TypeOK` always: no size or reserve underflows |
| | `TotalsAreSums` | `BookAddsUp` always |
| | `OpenPositionsListed` | `PositionsListed` always |
| | `FundingIsOwed` | `FundingAddsUp` always |
| | `BorrowingIsOwed` | `BorrowingAddsUp` always |
| | `SettledWasAccrued` | `SettledIsAccrued` always |
| `DeploymentProofs` | `DeploymentInvariance` | `Spec => []DeploymentInv`, the inductive invariant |
| | `DeployedWired` | `Wired` always |
| | `NoDanglingName` | `FileNamesDeployed` always |
| | `RecordsKept` | `KeptUnlessOverlapped` always |
| `OperationsProofs` | `OperationsInvariance` | `Spec => []OperationsInv`, the inductive invariant |
| | `CallsNotLost` | `NoneLost` always |
| | `InOrder` | `TakeEffectInOrder` always |
| | `SettingsExplained` | `SettingsKept` always |
| | `FeedsTogether` | `OneFeed` always |
| | `ProposalsExecutable` | `RoutedExecutable` always |
| | `UpgradesOwn` | `OwnImplementation` always |
| | `UpgradesAnnounced` | `Announced` always |
| | `MarginSuffices` | `QueueableInTime` always |

**The vault.** `LedgerInv == Good(vault) /\ Covered(vault)`, with `Good` typing,
exact lists and summed debts. The parts lean on each other: that the vault stays typed needs
exact lists (a removal never pops an empty list, so a list stays a sequence of tokens) and
summed debts (a global debt written down by one trader's share of it stays a natural number);
that the lists stay exact needs typing; and `Covered`, like the `owed' >= 0` of `Custody`, is
a sum that only has a meaning over naturals. `SumsProofs`: a sum over a finite set changes by
what one summand changes, and bounds each summand; an invariant of one round of `Through` is
one of the loop, by taking the smallest position at which it would fail. `VaultLedgerProofs`
has three parts. Each operator of `VaultStorage` keeps `Good` and changes each token's `Owed` by
a stated amount. Each leg of `TradeHelper` keeps a running balance no larger than the payer's, a
settlement leaves `Owed` of every token as it was, and the loops follow. Then there is one
lemma per action (`...Sound`), which say of each step that it keeps `LedgerInv`, is a step
of `Custody` and is fair to the traders (`Correct`); `StepSound` puts them together.

`Fair` is what the three action properties say of a step, and needs `LedgerInv` before it. A leg
of a settlement takes all the payer has of an asset, rounding included, or pays all of its debt
(`LegsPay`, `TokenPaid`); so after the legs of any number of assets his balances in those are
gone or all his debts are, and no junior debt was paid while a senior one was left: that is
`PaidUpTo`, the invariant of the loop. A liquidation writes off what is left (`Cleared`), so of
it only the sparing of the others is to be shown (`Spares`). The loop that collects an execution
fee (`TakenUpTo`) goes through the tokens listed for the payer: that he is broke when it charges
the rest as a debt needs exact lists.

**Rebalancing.** `RebalanceInv == Sane(vault) /\ Orderly /\ HeldExactly /\ HoldsAccounted`, the
last of which `HoldsTraced` follows from: what pending orders took is what GMX has of it and what
failed callbacks left. The holds alone are not inductive. That no key has both a deposit and a withdrawal, and that a key
GMX has not used has nothing pending (`Orderly`), is what makes an order add its own amounts
to a sum; that the hold is at least each pending order's part (`HeldExactly`) is why clearing it never
underflows; and a step of the pool must not move what is on hold (`Sane`, from the ledger's
lemmas). A callback that fails is the same lemma with nothing kept but the delivery.
`SettledWithGmx` is proved under `Undisturbed` alone: callbacks have enough gas, a deposit of
short tokens is one of long tokens, and the external rebalancer's executors leave the orders'
tokens alone. Each of the three is needed: `cancel`, `clearall` and the failing callbacks of
`shared` are what happens otherwise. The constants of run `gmx` satisfy it.

**Liquidity orders.** `OrdersInv` adds to the properties that whatever is listed was created
(`active \cup executed \subseteq Created`): without it a new order might take the pointer of
one that is stored, and its amount replace the other's in the sum. The loop's state is what
is proved about: in the middle of a batch the handler holds what is due to the orders still
active and to the fees not yet paid out, and the executed orders were not in it.

**Trade orders.** `TradeInv` says that storage is a stage of a call (`OrderStage`: types, lists,
indexes never given out twice, fees held or due), that executed intents are marked
(`IntentStage`: of each key, filled or charged once implies marked, which is what `IntentsOnce`
needs to be inductive for market intents), and that positions and limits are within the market's maximum.
`Executed` and `Spent` relate a stage of a call to the state before it: orders were only
removed; a position has only shrunk, or an order that is not reduce-only is among those gone;
it has only shrunk, or is within the limit. They are invariants of the loops, so both action
properties hold for a batch in which orders of one position follow each other. That limits do
not exceed `MaxPosition` is in `LimitsAssumption`, and is used for `AllOf` alone: an order of
`type(int256).max` passes no limit that is smaller.

**PerpStorage.** `PerpInv` is `Sound(book)`, `Totals` and `ListsExact` of a typed book, with the
configs among those allowed, and clocks that have counted no interval that has not ended
(`Clocked`). `Totals` has sizes and reserves exact.
Of the fees it says more than the drift that the run checks: the funding of a side is within two
units, for each account and interval that has passed, of the sum of its positions' truncated
fees; what borrowing has accrued and not settled covers the fees before they are truncated
(`FullFee`) but for a unit an interval, and exceeds the truncated ones by at most a unit for each
position and interval. A position that settles takes its truncated fee out of both sides of
these bounds, so settling adds no drift. Two kinds of step keep the totals. When rates are
brought up to date (`RatesMoved`), which is once in an interval, what a side owes grows by its
size times what accrued, divided and truncated, and so does the sum over its positions, less
than a unit for each (`SumRounded`). When a position changes (`Moved`), one summand
of each sum does: its fees leave the totals and it starts anew at the present rates
(`UpToDate`), so it owes nothing. Increasing, decreasing, closing and each leg of a liquidation
are such steps, the bookkeeping (`Accounted`) and the saving (`Saved`) taken together: between
the two no total is right. The sums need that a closed position has no reserve left (`Reserved`):
otherwise a position opened anew would owe borrowing fees for it. The lists need that they hold
a position once (`Distinct`): removing it makes the list shorter by one. The loop of a liquidation is proved about for any list of positions, closed ones
included. Underflow is a consequence: sizes and reserves are sums of naturals. Nothing is
assumed of the prices, of who calls or when; that a market keeps its asset class is in the
model (`assetClass` is a constant), and hazards lists what happens otherwise.

**Deployment.** The theorems are for any number of operators, any number of runs and any interleaving
of them; `DeploymentInv` is about every copy of the config file that somebody has: the one
on disk and those that running scripts have read. Each copy names deployed contracts only, of
the kinds the scripts put behind their keys (`NamesKinds`), and holds what was recorded until it
was read, unless that was replaced since (`Holds`); a running script has, besides, deployed what
it will record. `Holds` of the copies is what makes `KeptUnlessOverlapped` inductive: a script
writes back the copy it read, so the file forgets only what was recorded in between. `Wired` needs
`NamesKinds` and facts about the scripts alone, proved script by script: what a script takes for
an argument is, under the key it takes it from, of a kind that fits the parameter (`ScriptsFit`),
and a script's contract is of the kind of its key (`NamesRight`).

**Operations.** The theorems are for any operators, any menus of the catalogue's scripts
(`ShiftsAssumption`: who owns what at first, and what each operator may run; the runs take a few
scripts at a time, the theorems all of them in any mix), any first nonces of the Safes, and any
delay and margin. What they need of the scripts is proved script by script (`ConfigScriptsGood`,
`CommandScriptsGood`, `UpgradeScriptsGood`): what goes through a wrapper goes to the
one Safe, an upgrade names a key and the kind of contract that belongs to it, a script is sent in
one burst or has no step that is. `OperationsInv` has three parts, each proved action by action.

`Sound` is about each call where it is: in a script, sent, proposed, or in the Timelock's queue.
What a script has read of the settings was true of what had landed by then (`Explained`, which is
`SettingsKept` said of every snapshot, not of the present alone: `set-market-config` makes its
snapshot the present). What a wrapper found out about an owner stays so, as ownership only ever
moves to the Safe (`Follows`); so a proposal made for the Safe is still one the Safe can make.
A call carried by the Timelock keeps the time it was computed from.

`Orderly` is about the order of calls. A step of a run is posted once (`IdsPassed`, `IdsUnique`);
nobody is busy at once without being in `met`; nonces that wait are not behind the account's, and
two pending at one nonce of a Safe belong to disturbed runs (`SentNonces`, `PendingNonces`).
`WaitInOrder` is what makes `TakeEffectInOrder` inductive: of two undisturbed calls that wait, the
earlier has the lower nonce. That a new one is above all those waiting needs, for the Safe, that
nobody proposed between `getNextNonce` and the post (`NumberedAbove`), and for the deployer's account
that an undisturbed run's transactions leave no nonce free below them (`NoGap`; a burst leaves
one when the node refuses one of its transactions, so it is exempt, and is ordered by the nonces
it counts itself, `BurstAbove`). `Fed` is about `multi-set-pyth`: it is not refused a step without
failing (`AllPosted`), nothing it has sent can fail, since the feeds have one owner who cannot
change meanwhile (`SentByBurst`), so what is settled has landed (`SettledLanded`); and when the last
is mined, those with lower nonces are settled.

**What made the models provable.** The loops of `LiquidityOrders`, `LimitOrders` and `Intents`
are written with `Through`, a recursive function, and their sums with `SumOver`: the provers can instantiate neither the
operator parameters of the community modules' folds in a theorem nor a RECURSIVE operator. Two assumptions
are about the models' own encoding: `None` is no order (`OrdersAssumption`,
`LimitOrdersAssumption`); in the code, account 0 has none.

**Only model-checked.** `OrdersSettle`, `OrdersHandled` and `MarketOrdersSettle`: liveness under
fairness is out of the prover's reach. Every invariant and every action property that a passing
run checks is stated by a theorem above (`KeepsCustody` by `Refinement`).

## 5. Not modelled

`PROJECT.json` has the reason for each component. In short: prices, and what is computed from
them (profits, entry prices, margins, adaptive fees, the share price), which enter the models
as inputs or as calls refused; the order books of CrossMarginHandler, Ext01Handler and
the first LiquidityHandler (planned), which repeat LiquidityHandler02 with other payloads; the
guaranteed limit price and multicall of LimitTradeHandler; rewards and staking; oracles as byte packing; the effect of setters
inside each contract, whose parameters are constants; strategies and `cook` (arbitrary calls
the owner allows); readers, queries, formatting and generated bindings, which change nothing;
the fork mode of the wrappers, which replaces the Safe by one process on a local chain;
`metric-core` (a separate exchange).

## 6. Plan

What could follow, in this order:

1. **Order books.** One abstract specification of an order book (created, settled once,
   custody returned once), shown to be implemented by `LiquidityOrders` without late calls, by `LimitOrders`,
   then by `CrossMarginHandler02` and `Ext01Handler`.
2. **Book, vault and orders.** `TradeOrders` on `PerpBook`'s positions, composed with `VaultLedger`, whose `Bills` become what the book
   computes at given prices.
3. **Pool shares.** HLP minting and burning with the value of the pool, the clock of vesting
   rewards, and when the value cannot be computed because profits were paid out of rewards
   that have not vested.
4. **GLP rebalancing** (`addGlp`, `withdrawGlp`), staking and epoch rewards, price packing.
