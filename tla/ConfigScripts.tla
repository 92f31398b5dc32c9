------------------------------- MODULE ConfigScripts -------------------------------
\* The scripts of script/ts/configs: what each one sends, to which contract, and
\* how.  The inputs written into the scripts are left out, but for the accounts
\* they let in: the executor bot, the operator that rebalances, the Safe, the
\* deployer, or a contract.
EXTENDS Steps

BotHandlerSetPositionManager ==
  <<For("bot", Propose("handlers.bot", "setPositionManagers"))>>
CIXPriceAdapterSetConfig == <<Checked("oracles.priceAdapters.dix", "setConfig")>>
CalcPriceLensSetPriceAdapters ==
  <<CheckedSent("oracles.calcPriceLens", "setPriceAdapters")>>
CalculatorSetTradeHelper == <<Checked("calculator", "setTradeHelper")>>
ConfigStorageAddAssetClass == <<Direct("storages.config", "addAssetClassConfig")>>
ConfigStorageAddMarketConfig == ForEach(Propose("storages.config", "addMarketConfig"))
ConfigStorageAddOrUpdateAcceptedToken ==
  <<Propose("storages.config", "addOrUpdateAcceptedToken")>>
ConfigStorageAddStepMinProfitDuration ==
  <<Auth("storages.config", "addStepMinProfitDuration")>>
ConfigStorageRemoveLastStepMinProfitDuration ==
  <<Auth("storages.config", "removeLastStepMinProfitDuration")>>
ConfigStorageSetAssetClassConfigByIndex ==
  ForEach(Propose("storages.config", "setAssetClassConfigByIndex"))
ConfigStorageSetAssetConfigs == <<Propose("storages.config", "setAssetConfigs")>>
ConfigStorageSetCalculator == <<Direct("storages.config", "setCalculator")>>
ConfigStorageSetCollateralConfigs ==
  <<Propose("storages.config", "setCollateralTokenConfigs")>>
ConfigStorageSetConfigExecutor ==
  ForEach(For("safe", Auth("storages.config", "setConfigExecutor")))
ConfigStorageSetHlp == <<Direct("storages.config", "setHLP")>>
ConfigStorageSetIsStepMinProfitEnabledByMarketIndex ==
  <<Auth("storages.config", "setIsStepMinProfitEnabledByMarketIndex")>>
ConfigStorageSetLiquidationConfig ==
  <<Direct("storages.config", "setLiquidationConfig")>>
ConfigStorageSetLiquidityConfig == <<Auth("storages.config", "setLiquidityConfig")>>
ConfigStorageSetMakerTakerFeeByMarketIndexes ==
  <<Auth("storages.config", "setMakerTakerFeeByMarketIndexes")>>
ConfigStorageSetMarketConfig == ForEach(Auth("storages.config", "setMarketConfig"))
ConfigStorageSetMarketImfAndMaxProfit ==
  <<Direct("storages.config", "setMarketIMFAndMaxProfit")>>
ConfigStorageSetMarketMaxOi == <<Direct("storages.config", "setMarketMaxOI")>>
ConfigStorageSetMinProfitDurations ==
  <<Checked("storages.config", "setMinProfitDurations")>>
ConfigStorageSetMinimumPositionSize ==
  <<Direct("storages.config", "setMinimumPositionSize")>>
ConfigStorageSetOracle == <<Direct("storages.config", "setOracle")>>
ConfigStorageSetPnlFactor == <<Direct("storages.config", "setPnlFactor")>>
ConfigStorageSetServiceExecutors ==
  <<For("safe", Auth("storages.config", "setServiceExecutors"))>>
ConfigStorageSetStepMinProfitDuration ==
  <<Auth("storages.config", "setStepMinProfitDuration")>>
ConfigStorageSetSwitchCollateralRouter ==
  <<Checked("storages.config", "setSwitchCollateralRouter")>>
ConfigStorageSetTradeServiceHooks ==
  <<Propose("storages.config", "setTradeServiceHooks")>>
ConfigStorageSetTradingConfig == <<Auth("storages.config", "setTradingConfig")>>
ConfigStorageSetWeth == <<Direct("storages.config", "setWeth")>>
CrossMarginHandlerSetBanlist == <<Auth("handlers.crossMargin", "setBanlist")>>
CrossMarginHandlerSetDeskVault == <<Auth("handlers.crossMargin", "setDESKVault")>>
CrossMarginHandlerSetOrderExecutor ==
  <<For("bot", Auth("handlers.crossMargin", "setOrderExecutor"))>>
CurveDexterSetPoolConfigs ==
  ForEach(Direct("extension.dexter.curve", "setPoolConfigOf"))
DistributeSTIPARBStrategySetWhitelistedExecutor ==
  <<For("safe", Checked("strategies.distributeSTIPARB", "setWhitelistedExecutor"))>>
ERC20ApproveStrategySetWhitelistedExecutor ==
  <<For("strategies.distributeSTIPARB",
      Checked("strategies.erc20Approve", "setWhitelistedExecutor"))>>
EcoPythInsertAssetIds == <<Auth("oracles.ecoPyth2", "insertAssetIds")>>
EcoPythSetUpdaters ==
  <<For("handlers.intent", Checked("oracles.ecoPyth2", "setUpdaters"))>>
Ext01HandlerSetMinExecutionFee == ForEach(Auth("handlers.ext01", "setMinExecutionFee"))
Ext01HandlerSetOrderExecutor ==
  <<For("bot", Checked("handlers.ext01", "setOrderExecutor"))>>
ExternalRebalancerSetWhitelistedExecutor ==
  <<For("rebalancer", Auth("handlers.externalRebalancer", "addWhitelistedExecutor"))>>
GasServiceSetGasPremiumBps == <<Auth("services.gas", "setGasPremiumBps")>>
GasServiceSetGasTokenAssetId == <<Auth("services.gas", "setGasTokenAssetId")>>
GasServiceSetParams == <<Auth("services.gas", "setParams")>>
GasServiceSetWaviedExecutionFeeMinTradeSize ==
  <<Auth("services.gas", "setWaviedExecutionFeeMinTradeSize")>>
GenericHandlerSetMinExecutionFee ==
  <<Auth("handlers.crossMargin", "setMinExecutionFee"),
    Auth("handlers.limitTrade", "setMinExecutionFee"),
    Auth("handlers.liquidity", "setMinExecutionFee")>>
HLPSetMinter == <<For("services.liquidity", Direct("tokens.hlp", "setMinter"))>>
IntentHandlerSetIntentExecutor ==
  <<For("bot", Auth("handlers.intent", "setIntentExecutor"))>>
LimitTradeHandlerSetLimitTradeHelper ==
  <<Propose("handlers.limitTrade", "setLimitTradeHelper")>>
LimitTradeHandlerSetMinExecutionFee ==
  <<Auth("handlers.limitTrade", "setMinExecutionFee")>>
LimitTradeHandlerSetMinExecutionTimestamp ==
  <<Propose("handlers.limitTrade", "setMinExecutionTimestamp")>>
LimitTradeHandlerSetOrderExecutor ==
  <<For("bot", Auth("handlers.limitTrade", "setOrderExecutor"))>>
LimitTradeHandlerSetPositionSizeLimit ==
  <<Direct("handlers.limitTrade", "setPositionSizeLimit")>>
LimitTradeHelperSetLimit == <<Auth("helpers.limitTrade", "setLimit")>>
LiquidityHandlerPause == <<Auth("handlers.liquidity", "pause")>>
LiquidityHandlerSetDlp == <<Auth("handlers.liquidity", "setDlp")>>
LiquidityHandlerSetHlpStaking == <<Direct("handlers.liquidity", "setHlpStaking")>>
LiquidityHandlerSetOrderExecutor ==
  <<For("bot", Auth("handlers.liquidity", "setOrderExecutor"))>>
LiquidityHandlerUnpause == <<Auth("handlers.liquidity", "unpause")>>
MultiSetPyth ==
  <<Burst("oracles.pythAdapter", "setPyth"),
    Burst("handlers.bot", "setPyth"),
    Burst("handlers.crossMargin", "setPyth"),
    Burst("handlers.limitTrade", "setPyth"),
    Burst("handlers.liquidity", "setPyth")>>
OnChainPriceLensSetPriceAdapters ==
  <<CheckedSent("oracles.onChainPriceLens", "setPriceAdapters")>>
OracleMiddlewareSetAssetPriceConfigs ==
  <<Propose("oracles.middleware", "setAssetPriceConfigs")>>
OracleMiddlewareSetMultipleMarketStatus ==
  <<Direct("oracles.middleware", "setMultipleMarketStatus")>>
OracleMiddlewareSetUpdater == <<For("bot", Auth("oracles.middleware", "setUpdater"))>>
OrderbookOracleInsertMarketIndexes ==
  <<Auth("oracles.orderbook", "insertMarketIndexes")>>
OrderbookOracleSetMarketIndexes == <<Checked("oracles.orderbook", "setMarketIndexes")>>
OrderbookOracleSetUpdater == <<For("bot", Auth("oracles.orderbook", "setUpdaters"))>>
OwnableTransferOwnership ==
  <<Burst("services.gas", "transferOwnership"),
    Burst("handlers.intent", "transferOwnership"),
    Burst("helpers.tradeOrder", "transferOwnership")>>
PerpStorageSetFundingRate == <<Auth("storages.perp", "setFundingRate")>>
PerpStorageSetMovingWindowConfig == <<Auth("storages.perp", "setMovingWindowConfig")>>
PerpStorageSetServiceExecutorBatch ==
  <<For("rewardDistributor", Direct("storages.perp", "setServiceExecutorBatch"))>>
PythAdapterSetConfigs == <<Propose("oracles.pythAdapter", "setConfigs")>>
PythAdapterSetPyth == <<Direct("oracles.pythAdapter", "setPyth")>>
RebalanceHLPHandlerSetWhitelistExecutor ==
  <<For("rebalancer", Propose("handlers.rebalanceHLP", "setWhitelistExecutor"))>>
RebalanceHLPServiceSetOneInchRouter ==
  <<ProposeAt(381, Propose("services.rebalanceHLP", "setOneInchRouter"))>>
RebalanceHLPToGMXV2HandlerSetWhitelistExecutor ==
  <<For("safe", Propose("handlers.rebalanceHLPv2", "setWhitelistExecutor"))>>
RebalanceHLPv2HandlerSetWhitelistExecutor ==
  <<For("deployer", Checked("handlers.rebalanceHLPv2", "setWhitelistExecutor"))>>
RebalanceHLPv2ServiceSetGmxV2DepositHandler ==
  <<Auth("services.rebalanceHLPv2", "setGmxV2DepositHandler")>>
RebalanceHLPv2ServiceSetGmxV2DepositVault ==
  <<Auth("services.rebalanceHLPv2", "setGmxV2DepositVault")>>
RebalanceHLPv2ServiceSetGmxV2ExchangeRouter ==
  <<Auth("services.rebalanceHLPv2", "setGmxV2ExchangeRouter")>>
RebalanceHLPv2ServiceSetGmxV2WithdrawalHandler ==
  <<Auth("services.rebalanceHLPv2", "setGmxV2WithdrawalHandler")>>
RebalanceHLPv2ServiceSetGmxV2WithdrawalVault ==
  <<Auth("services.rebalanceHLPv2", "setGmxV2WithdrawalVault")>>
SwitchCollateralRouterSetDexter ==
  ForEach(Direct("extension.switchCollateralRouter", "setDexterOf"))
TLCHookSetMarketWeight == ForEach(Propose("hooks.tlc", "setMarketWeight"))
TLCHookSetWhitelistedCallers == <<Checked("hooks.tlc", "setWhitelistedCallers")>>
TradeHelperSetAdaptiveFeeCalculator ==
  <<Auth("helpers.trade", "setAdaptiveFeeCalculator")>>
TradeHelperSetMaxAdaptiveFeeBps == <<Auth("helpers.trade", "setMaxAdaptiveFeeBps")>>
TradeHelperSetOrderbookOracle == <<Auth("helpers.trade", "setOrderbookOracle")>>
TradeOrderHelperSetLimit == <<Auth("helpers.tradeOrder", "setLimit")>>
TradeOrderHelperSetWhitelistedCallers ==
  <<For("handlers.intent", Auth("helpers.tradeOrder", "setWhitelistedCaller"))>>
TradingStakingHookSetWhitelistedCallers ==
  <<Checked("hooks.tradingStaking", "setWhitelistedCallers")>>
UniswapDexterSetPath == ForEach(Direct("extension.dexter.uniswapV3", "setPathOf"))
VaultStorageSetServiceExecutorBatch ==
  <<For("handlers.externalRebalancer",
      Auth("storages.vault", "setServiceExecutorBatch"))>>
VaultStorageSetStrategyAllowance ==
  <<For("strategies.distributeSTIPARB",
      Auth("storages.vault", "setStrategyAllowance"))>>
VaultStorageSetStrategyFunctionSigAllowance ==
  <<For("strategies.distributeSTIPARB",
      Auth("storages.vault", "setStrategyFunctionSigAllowance"))>>

ConfigScripts == {
  BotHandlerSetPositionManager, CIXPriceAdapterSetConfig, CalcPriceLensSetPriceAdapters,
  CalculatorSetTradeHelper, ConfigStorageAddAssetClass, ConfigStorageAddMarketConfig,
  ConfigStorageAddOrUpdateAcceptedToken, ConfigStorageAddStepMinProfitDuration,
  ConfigStorageRemoveLastStepMinProfitDuration, ConfigStorageSetAssetClassConfigByIndex,
  ConfigStorageSetAssetConfigs, ConfigStorageSetCalculator,
  ConfigStorageSetCollateralConfigs, ConfigStorageSetConfigExecutor,
  ConfigStorageSetHlp, ConfigStorageSetIsStepMinProfitEnabledByMarketIndex,
  ConfigStorageSetLiquidationConfig, ConfigStorageSetLiquidityConfig,
  ConfigStorageSetMakerTakerFeeByMarketIndexes, ConfigStorageSetMarketConfig,
  ConfigStorageSetMarketImfAndMaxProfit, ConfigStorageSetMarketMaxOi,
  ConfigStorageSetMinProfitDurations, ConfigStorageSetMinimumPositionSize,
  ConfigStorageSetOracle, ConfigStorageSetPnlFactor, ConfigStorageSetServiceExecutors,
  ConfigStorageSetStepMinProfitDuration, ConfigStorageSetSwitchCollateralRouter,
  ConfigStorageSetTradeServiceHooks, ConfigStorageSetTradingConfig,
  ConfigStorageSetWeth, CrossMarginHandlerSetBanlist, CrossMarginHandlerSetDeskVault,
  CrossMarginHandlerSetOrderExecutor, CurveDexterSetPoolConfigs,
  DistributeSTIPARBStrategySetWhitelistedExecutor,
  ERC20ApproveStrategySetWhitelistedExecutor, EcoPythInsertAssetIds, EcoPythSetUpdaters,
  Ext01HandlerSetMinExecutionFee, Ext01HandlerSetOrderExecutor,
  ExternalRebalancerSetWhitelistedExecutor, GasServiceSetGasPremiumBps,
  GasServiceSetGasTokenAssetId, GasServiceSetParams,
  GasServiceSetWaviedExecutionFeeMinTradeSize, GenericHandlerSetMinExecutionFee,
  HLPSetMinter, IntentHandlerSetIntentExecutor, LimitTradeHandlerSetLimitTradeHelper,
  LimitTradeHandlerSetMinExecutionFee, LimitTradeHandlerSetMinExecutionTimestamp,
  LimitTradeHandlerSetOrderExecutor, LimitTradeHandlerSetPositionSizeLimit,
  LimitTradeHelperSetLimit, LiquidityHandlerPause, LiquidityHandlerSetDlp,
  LiquidityHandlerSetHlpStaking, LiquidityHandlerSetOrderExecutor,
  LiquidityHandlerUnpause, MultiSetPyth, OnChainPriceLensSetPriceAdapters,
  OracleMiddlewareSetAssetPriceConfigs, OracleMiddlewareSetMultipleMarketStatus,
  OracleMiddlewareSetUpdater, OrderbookOracleInsertMarketIndexes,
  OrderbookOracleSetMarketIndexes, OrderbookOracleSetUpdater, OwnableTransferOwnership,
  PerpStorageSetFundingRate, PerpStorageSetMovingWindowConfig,
  PerpStorageSetServiceExecutorBatch, PythAdapterSetConfigs, PythAdapterSetPyth,
  RebalanceHLPHandlerSetWhitelistExecutor, RebalanceHLPServiceSetOneInchRouter,
  RebalanceHLPToGMXV2HandlerSetWhitelistExecutor,
  RebalanceHLPv2HandlerSetWhitelistExecutor,
  RebalanceHLPv2ServiceSetGmxV2DepositHandler,
  RebalanceHLPv2ServiceSetGmxV2DepositVault,
  RebalanceHLPv2ServiceSetGmxV2ExchangeRouter,
  RebalanceHLPv2ServiceSetGmxV2WithdrawalHandler,
  RebalanceHLPv2ServiceSetGmxV2WithdrawalVault, SwitchCollateralRouterSetDexter,
  TLCHookSetMarketWeight, TLCHookSetWhitelistedCallers,
  TradeHelperSetAdaptiveFeeCalculator, TradeHelperSetMaxAdaptiveFeeBps,
  TradeHelperSetOrderbookOracle, TradeOrderHelperSetLimit,
  TradeOrderHelperSetWhitelistedCallers, TradingStakingHookSetWhitelistedCallers,
  UniswapDexterSetPath, VaultStorageSetServiceExecutorBatch,
  VaultStorageSetStrategyAllowance, VaultStorageSetStrategyFunctionSigAllowance}
====================================================================================
