------------------------------ MODULE CommandScripts ------------------------------
\* The scripts of script/ts/commands.  Those without a step send nothing of their
\* own: they compute, call the team's API, or sign for the Safe without sending the
\* signature anywhere.  VaultStorageClearOnHold and VaultStorageRemoveHlpLiquidityOnHold
\* scale an amount that is in wei already by the token's decimals, and so find
\* the vault short of it and exit before they propose anything.
EXTENDS Steps

AccountGetSubAccount == <<>>
BotHandlerCloseDelistedMarketPositions ==
  ForEach(Direct("handlers.bot", "closeDelistedMarketPositions"))
BotHandlerInjectLiquidity ==
  <<UnlessHeldBy("owner", For("handlers.bot", Propose("token", "approve"))),
    Auth("handlers.bot", "injectTokenToHlpLiquidity")>>
BulkSendErc20MultisigLeggo ==
  <<UnlessHeldBy("treasury", OfTreasury(For("bulkSendErc20", Propose("token", "approve")))),
    OfTreasury(Propose("bulkSendErc20", "leggo"))>>
CrossMarginHandlerCreateWithdrawCollateralOnBehalf ==
  <<Auth("handlers.crossMargin", "createWithdrawCollateralOrderOnBehalf")>>
CrossMarginHandlerDepositCollateral ==
  <<For("handlers.crossMargin", Sent("tokens.usdc", "approve")),
    Direct("handlers.crossMargin", "depositCollateral")>>
DistributeSTIPARBStrategyExecute ==
  <<Propose("strategies.distributeSTIPARB", "execute")>>
EcoPythFeedPriceEcoPyth == <<Direct("oracles.ecoPyth2", "updatePriceFeeds")>>
Erc20MultisigMassTransfer == ForEach(OfTreasury(Propose("token", "transfer")))
Ext01HandlerCreateExtOrder == <<Direct("handlers.ext01", "createExtOrder")>>
Ext01HandlerExecuteOrder == <<Direct("handlers.ext01", "executeOrders")>>
\* The deployer is let in to the ExternalRebalancer, whoever will be its caller.
WhitelistDeployer ==
  UnlessHeldBy("deployer",
    For("deployer", Auth("handlers.externalRebalancer", "addWhitelistedExecutor")))
ExternalRebalancerCompleteRebalance ==
  <<WhitelistDeployer,
    UnlessHeldBy("deployer",
      For("handlers.externalRebalancer", Direct("tokens.usdcNative", "approve"))),
    Moving("onHold", "none", Auth("handlers.externalRebalancer", "completeRebalance"))>>
ExternalRebalancerStartRebalance ==
  <<WhitelistDeployer,
    Moving("hlpLiquidity", "onHold", Auth("handlers.externalRebalancer", "startRebalance"))>>
GasServiceAdjustSubsidizedExecutionFeeValue ==
  <<Auth("services.gas", "adjustSubsidizedExecutionFeeValue")>>
LimitTradeHandlerBatch == <<Direct("handlers.limitTrade", "batch")>>
LimitTradeHandlerCreateLimitOrder == <<Direct("handlers.limitTrade", "createOrder")>>
LimitTradeHandlerExecuteLimitOrder == <<Direct("handlers.limitTrade", "executeOrders")>>
LiquidityHandlerCreateAddLiquidityOrder ==
  <<For("handlers.liquidity", Sent("tokens.usdc", "approve")),
    Direct("handlers.liquidity", "createAddLiquidityOrder")>>
LiquidityHandlerExecuteOrder == <<Direct("handlers.liquidity", "executeOrder")>>
OrderbookOracleFeedOrderbookOracle == <<>>
RebalanceHLPHandlerAddGlp == <<Propose("handlers.rebalanceHLP", "addGlp")>>
RebalanceHLPHandlerExecuteWithdraw == <<Direct("handlers.rebalanceHLP", "withdrawGlp")>>
RebalanceHLPHandlerSwapOneInch == <<Sent("handlers.rebalanceHLP", "oneInchSwap")>>
RebalanceHLPHandlerSwap == ForEach(Sent("handlers.rebalanceHLP", "swap"))
RebalanceHLPv2HandlerCreateDepositOrders ==
  <<Direct("handlers.rebalanceHLPv2", "createDepositOrders")>>
RebalanceHLPv2HandlerCreateWithdrawalOrders ==
  <<Direct("handlers.rebalanceHLPv2", "createWithdrawalOrders")>>
SafeExecuteTxs == <<ExecutePending>>
SafeSignTxs == <<>>
StakedGlpStrategyReinvest == <<Direct("strategies.stakedGlpStrategy", "execute")>>
TenderlyVerify == <<>>
VaultStorageClearOnHold == <<>>
VaultStorageRemoveHlpLiquidityOnHold == <<>>
\* --nonce is optional, and 0 stands for its absence: one proposal for each token
\* that had a fee when the script read them all, the nonce counted up if given.
VaultStorageWithdrawDevFee(nonce) ==
  LET withdraw(fee, n) ==
        ProposeAt(n, IfAny(Moving(fee, "none", Propose("storages.vault", "withdrawDevFee"))))
  IN <<withdraw("devFees.weth", nonce),
       withdraw("devFees.usdc", IF nonce = 0 THEN 0 ELSE nonce + 1)>>

CommandScripts == {
  AccountGetSubAccount, BotHandlerCloseDelistedMarketPositions,
  BotHandlerInjectLiquidity, BulkSendErc20MultisigLeggo,
  CrossMarginHandlerCreateWithdrawCollateralOnBehalf,
  CrossMarginHandlerDepositCollateral, DistributeSTIPARBStrategyExecute,
  EcoPythFeedPriceEcoPyth, Erc20MultisigMassTransfer, Ext01HandlerCreateExtOrder,
  Ext01HandlerExecuteOrder, ExternalRebalancerCompleteRebalance,
  ExternalRebalancerStartRebalance, GasServiceAdjustSubsidizedExecutionFeeValue,
  LimitTradeHandlerBatch, LimitTradeHandlerCreateLimitOrder,
  LimitTradeHandlerExecuteLimitOrder, LiquidityHandlerCreateAddLiquidityOrder,
  LiquidityHandlerExecuteOrder, OrderbookOracleFeedOrderbookOracle,
  RebalanceHLPHandlerAddGlp, RebalanceHLPHandlerExecuteWithdraw,
  RebalanceHLPHandlerSwapOneInch, RebalanceHLPHandlerSwap,
  RebalanceHLPv2HandlerCreateDepositOrders, RebalanceHLPv2HandlerCreateWithdrawalOrders,
  SafeExecuteTxs, SafeSignTxs, StakedGlpStrategyReinvest, TenderlyVerify,
  VaultStorageClearOnHold, VaultStorageRemoveHlpLiquidityOnHold,
  VaultStorageWithdrawDevFee(0), VaultStorageWithdrawDevFee(381)}
===================================================================================
