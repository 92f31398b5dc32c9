------------------------------ MODULE UpgradeScripts ------------------------------
\* The scripts of script/ts/upgrades: each deploys a new implementation of one
\* contract and has the proxy at one key of the config file point to it.
EXTENDS Steps

UpgradeBotHandler == Upgrade("handlers.bot", "BotHandler")
UpgradeCalculator == Upgrade("calculator", "Calculator")
UpgradeConfigStorage == Upgrade("storages.config", "ConfigStorage")
UpgradeCrossMarginHandler == Upgrade("handlers.crossMargin", "CrossMarginHandler")
UpgradeCrossMarginService == Upgrade("services.crossMargin", "CrossMarginService")
UpgradeEcoPyth == UpgradeProxy("oracles.ecoPyth", "EcoPyth")
UpgradeExt01Handler == Upgrade("handlers.ext01", "Ext01Handler")
UpgradeExternalRebalancer ==
  Upgrade("handlers.externalRebalancer", "ExternalRebalancer")
\* A bug to test OwnImplementation with: the key is another script's.
UpgradeGasServicePasted == Upgrade("services.crossMargin", "GasService")
UpgradeGasService == Upgrade("services.gas", "GasService")
UpgradeHLP == Upgrade("tokens.hlp", "HLP")
UpgradeIntentHandler == Upgrade("handlers.intent", "IntentHandler")
UpgradeLimitTradeHandler == Upgrade("handlers.limitTrade", "LimitTradeHandler")
UpgradeLiquidationService == Upgrade("services.liquidation", "LiquidationService")
UpgradeLiquidityHandler == Upgrade("handlers.liquidity", "LiquidityHandler")
UpgradeLiquidityService == Upgrade("services.liquidity", "LiquidityService")
UpgradeOracleMiddleware == UpgradeProxy("oracles.middleware", "OracleMiddleware")
UpgradePerpStorage == Upgrade("storages.perp", "PerpStorage")
UpgradePythAdapter == UpgradeProxy("oracles.pythAdapter", "PythAdapter")
UpgradeRebalanceHLPHandler == Upgrade("handlers.rebalanceHLP", "RebalanceHLPHandler")
UpgradeRebalanceHLPService == Upgrade("services.rebalanceHLP", "RebalanceHLPService")
UpgradeRebalanceHLPv2Service ==
  Upgrade("services.rebalanceHLPv2", "RebalanceHLPv2Service")
UpgradeTLCHook == Upgrade("hooks.tlc", "TLCHook")
UpgradeTradeHelper == Upgrade("helpers.trade", "TradeHelper")
UpgradeTradeService == Upgrade("services.trade", "TradeService")
UpgradeTradingStakingHook == Upgrade("hooks.tradingStaking", "TradingStakingHook")
UpgradeVaultStorage == Upgrade("storages.vault", "VaultStorage")

UpgradeScripts == {
  UpgradeBotHandler, UpgradeCalculator, UpgradeConfigStorage, UpgradeCrossMarginHandler,
  UpgradeCrossMarginService, UpgradeEcoPyth, UpgradeExt01Handler,
  UpgradeExternalRebalancer, UpgradeGasService, UpgradeHLP, UpgradeIntentHandler,
  UpgradeLimitTradeHandler, UpgradeLiquidationService, UpgradeLiquidityHandler,
  UpgradeLiquidityService, UpgradeOracleMiddleware, UpgradePerpStorage,
  UpgradePythAdapter, UpgradeRebalanceHLPHandler, UpgradeRebalanceHLPService,
  UpgradeRebalanceHLPv2Service, UpgradeTLCHook, UpgradeTradeHelper, UpgradeTradeService,
  UpgradeTradingStakingHook, UpgradeVaultStorage}
===================================================================================
