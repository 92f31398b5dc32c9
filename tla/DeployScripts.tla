------------------------------ MODULE DeployScripts ------------------------------
\* The scripts of script/ts/deploys: the contract each one creates, the arguments
\* it takes from the config file (a dotted name is a key of the file, "value" a
\* number and "account" an address written into the script), and the key under
\* which it records the new address ("none": it records nothing).  Two scripts
\* name a key, yieldSources, that the deployed networks' files do not have.
EXTENDS Contracts

Script(contract, key, args) == [contract |-> contract, key |-> key, args |-> args]

DeployAdaptiveFeeCalculator ==
  Script(AdaptiveFeeCalculator, "adaptiveFeeCalculator", <<"value", "value">>)

\* A bug to test Wired with: both services answer the getter that is asked of them.
DeployBotHandlerSwapped ==
  Script(BotHandler, "handlers.bot",
         <<"services.liquidation", "services.trade", "services.crossMargin",
           "oracles.ecoPyth">>)

DeployBotHandler ==
  Script(BotHandler, "handlers.bot",
         <<"services.trade", "services.liquidation", "services.crossMargin",
           "oracles.ecoPyth">>)

DeployBulkSendErc20 == Script(BulkSendErc20, "none", <<>>)

DeployCIXPriceAdapter == Script(CIXPriceAdapter, "oracles.priceAdapters.dix", <<>>)

DeployCalcPriceLens == Script(CalcPriceLens, "oracles.calcPriceLens", <<>>)

DeployCalculator ==
  Script(Calculator, "calculator",
         <<"oracles.middleware", "storages.vault", "storages.perp", "storages.config">>)

DeployChronicleOraclePriceAdapter ==
  Script(ChronicleOraclePriceAdapter, "oracles.priceAdapters.wusdm", <<"account">>)

DeployCollateralReader ==
  Script(CollateralReader, "reader.collateral", <<"storages.vault", "storages.config">>)

DeployConfigStorage == Script(ConfigStorage, "storages.config", <<>>)

DeployConvertedGlpStrategy ==
  Script(ConvertedGlpStrategy, "strategies.convertedGlpStrategy",
         <<"tokens.sglp", "yieldSources.gmx.rewardRouterV2", "storages.vault">>)

DeployCrossMarginHandler ==
  Script(CrossMarginHandler, "handlers.crossMargin",
         <<"services.crossMargin", "oracles.ecoPyth", "value", "value">>)

DeployCrossMarginService ==
  Script(CrossMarginService, "services.crossMargin",
         <<"storages.config", "storages.vault", "storages.perp", "calculator",
           "strategies.convertedGlpStrategy">>)

DeployCurveDexter == Script(CurveDexter, "extension.dexter.curve", <<"tokens.weth">>)

DeployDLP == Script(DLP, "tokens.dlp", <<"tokens.hlp">>)

DeployDistributeSTIPARBStrategy ==
  Script(DistributeSTIPARBStrategy, "strategies.distributeSTIPARB",
         <<"storages.vault", "account", "tokens.arb", "value", "account",
           "strategies.erc20Approve">>)

DeployERC20ApproveStrategy ==
  Script(ERC20ApproveStrategy, "strategies.erc20Approve", <<"storages.vault">>)

DeployEcoPyth == Script(EcoPyth, "oracles.ecoPyth", <<>>)

DeployEcoPyth2 == Script(EcoPyth2, "oracles.ecoPyth2", <<>>)

DeployEcoPythCalldataBuilder ==
  Script(EcoPythCalldataBuilder, "oracles.ecoPythCalldataBuilder",
         <<"oracles.ecoPyth2", "vendors.gmx.glpManager", "tokens.sglp">>)

DeployEcoPythCalldataBuilder2 ==
  Script(EcoPythCalldataBuilder2, "oracles.ecoPythCalldataBuilder2",
         <<"oracles.ecoPyth2", "oracles.onChainPriceLens", "value">>)

DeployEcoPythCalldataBuilder3 ==
  Script(EcoPythCalldataBuilder3, "oracles.ecoPythCalldataBuilder3",
         <<"oracles.ecoPyth2", "oracles.onChainPriceLens", "oracles.calcPriceLens",
           "value">>)

DeployExt01Handler ==
  Script(Ext01Handler, "handlers.ext01",
         <<"services.crossMargin", "services.liquidation", "services.liquidity",
           "services.trade", "oracles.ecoPyth2">>)

DeployExternalRebalancer ==
  Script(ExternalRebalancer, "handlers.externalRebalancer",
         <<"storages.vault", "calculator", "value">>)

DeployGasService ==
  Script(GasService, "services.gas",
         <<"storages.vault", "storages.config", "value", "account">>)

DeployGlpDexter ==
  Script(GlpDexter, "extension.dexter.glp",
         <<"tokens.weth", "tokens.sglp", "vendors.gmx.glpManager", "vendors.gmx.gmxVault",
           "vendors.gmx.rewardRouterV2">>)

DeployGlpPriceAdapter ==
  Script(GlpPriceAdapter, "oracles.priceAdapters.glp",
         <<"tokens.sglp", "vendors.gmx.glpManager">>)

DeployGmBTCUSD ==
  Script(GmPriceAdapter, "oracles.priceAdapters.gmBTCUSD",
         <<"vendors.gmxV2.reader", "vendors.gmxV2.dataStore", "tokens.gmBTCUSD", "account",
           "value", "tokens.wbtc", "value", "tokens.usdcNative", "value", "value", "value",
           "value">>)

DeployGmETHUSD ==
  Script(GmPriceAdapter, "oracles.priceAdapters.gmETHUSD",
         <<"vendors.gmxV2.reader", "vendors.gmxV2.dataStore", "tokens.gmETHUSD",
           "tokens.weth", "value", "tokens.weth", "value", "tokens.usdcNative", "value",
           "value", "value", "value">>)

DeployHLP == Script(HLP, "tokens.hlp", <<>>)

DeployHlpPriceAdapter ==
  Script(HlpPriceAdapter, "oracles.priceAdapters.hlp", <<"tokens.hlp", "calculator">>)

DeployHmxAccountFactory ==
  Script(HmxAccountFactory, "accountAbstraction.factory",
         <<"accountAbstraction.entryPoint">>)

DeployIntentHandler ==
  Script(IntentHandler, "handlers.intent",
         <<"oracles.ecoPyth2", "storages.config", "helpers.tradeOrder", "services.gas">>)

DeployLimitTradeHandler ==
  Script(LimitTradeHandler, "handlers.limitTrade",
         <<"tokens.weth", "services.trade", "oracles.ecoPyth", "value", "value">>)

DeployLimitTradeHelper ==
  Script(LimitTradeHelper, "helpers.limitTrade", <<"storages.config", "storages.perp">>)

DeployLiquidationReader ==
  Script(LiquidationReader, "reader.liquidation", <<"storages.perp", "calculator">>)

DeployLiquidationService ==
  Script(LiquidationService, "services.liquidation",
         <<"storages.perp", "storages.vault", "storages.config", "helpers.trade">>)

DeployLiquidityHandler ==
  Script(LiquidityHandler, "handlers.liquidity",
         <<"services.liquidity", "oracles.ecoPyth", "value", "value">>)

DeployLiquidityService ==
  Script(LiquidityService, "services.liquidity",
         <<"storages.perp", "storages.vault", "storages.config">>)

DeployOnChainPriceLens == Script(OnChainPriceLens, "oracles.onChainPriceLens", <<>>)

DeployOracleMiddleware == Script(OracleMiddleware, "oracles.middleware", <<"value">>)

DeployOrderReader ==
  Script(OrderReader, "reader.order",
         <<"storages.config", "storages.perp", "oracles.middleware", "handlers.limitTrade">>)

DeployOrderbookOracle == Script(OrderbookOracle, "oracles.orderbook", <<>>)

DeployPerpStorage == Script(PerpStorage, "storages.perp", <<>>)

DeployPositionReader ==
  Script(PositionReader, "reader.position",
         <<"storages.config", "storages.perp", "oracles.middleware", "calculator">>)

DeployPythAdapter == Script(PythAdapter, "oracles.pythAdapter", <<"oracles.ecoPyth">>)

DeployRebalanceHLPHandler ==
  Script(RebalanceHLPHandler, "handlers.rebalanceHLP",
         <<"services.rebalanceHLP", "oracles.ecoPyth2">>)

DeployRebalanceHLPService ==
  Script(RebalanceHLPService, "services.rebalanceHLP",
         <<"tokens.sglp", "vendors.gmx.rewardRouterV2", "vendors.gmx.glpManager",
           "storages.vault", "storages.config", "calculator",
           "extension.switchCollateralRouter", "value">>)

DeployRebalanceHLPv2Handler ==
  Script(RebalanceHLPv2Handler, "handlers.rebalanceHLPv2",
         <<"services.rebalanceHLPv2", "tokens.weth", "value">>)

DeployRebalanceHLPv2Service ==
  Script(RebalanceHLPv2Service, "services.rebalanceHLPv2",
         <<"tokens.weth", "storages.vault", "storages.config",
           "vendors.gmxV2.exchangeRouter", "vendors.gmxV2.depositVault",
           "vendors.gmxV2.depositHandler", "vendors.gmxV2.withdrawalVault",
           "vendors.gmxV2.withdrawalHandler">>)

DeployStakedGlpOracleAdapter ==
  Script(StakedGlpOracleAdapter, "oracles.sglpStakedAdapter",
         <<"tokens.sglp", "yieldSources.gmx.glpManager", "value">>)

DeployStakedGlpStrategy ==
  Script(StakedGlpStrategy, "strategies.stakedGlpStrategy",
         <<"tokens.sglp", "vendors.gmx.rewardRouterV2", "vendors.gmx.rewardTracker",
           "vendors.gmx.glpManager", "oracles.middleware", "storages.vault", "account",
           "value">>)

DeploySwitchCollateralRouter ==
  Script(SwitchCollateralRouter, "extension.switchCollateralRouter", <<>>)

DeployTLCHook ==
  Script(TLCHook, "hooks.tlc",
         <<"services.trade", "tokens.traderLoyaltyCredit", "staking.tlc">>)

DeployTimelock == Script(Timelock, "timelock", <<"account", "value">>)

DeployTradeHelper ==
  Script(TradeHelper, "helpers.trade",
         <<"storages.perp", "storages.vault", "storages.config">>)

DeployTradeOrderHelper ==
  Script(TradeOrderHelper, "helpers.tradeOrder",
         <<"storages.config", "storages.perp", "oracles.middleware", "services.trade">>)

DeployTradeService ==
  Script(TradeService, "services.trade",
         <<"storages.perp", "storages.vault", "storages.config", "helpers.trade">>)

DeployTradingStakingHook ==
  Script(TradingStakingHook, "hooks.tradingStaking",
         <<"staking.trading", "services.trade">>)

DeployUniswapDexter ==
  Script(UniswapDexter, "extension.dexter.uniswapV3",
         <<"vendors.uniswap.permit2", "vendors.uniswap.universalRouter">>)

DeployUnsafeEcoPythCalldataBuilder ==
  Script(UnsafeEcoPythCalldataBuilder, "oracles.unsafeEcoPythCalldataBuilder",
         <<"oracles.ecoPyth2", "vendors.gmx.glpManager", "tokens.sglp">>)

DeployUnsafeEcoPythCalldataBuilder2 ==
  Script(UnsafeEcoPythCalldataBuilder2, "oracles.unsafeEcoPythCalldataBuilder2",
         <<"oracles.ecoPyth2", "oracles.onChainPriceLens", "value">>)

DeployUnsafeEcoPythCalldataBuilder3 ==
  Script(UnsafeEcoPythCalldataBuilder3, "oracles.unsafeEcoPythCalldataBuilder3",
         <<"oracles.ecoPyth2", "oracles.onChainPriceLens", "oracles.calcPriceLens",
           "value">>)

DeployVaultStorage == Script(VaultStorage, "storages.vault", <<>>)

DeployWstEthUsdPriceAdapter ==
  Script(WstEthUsdPriceAdapter, "oracles.priceAdapters.wstEth",
         <<"vendors.chainlink.wstEthEthPriceFeed", "vendors.chainlink.ethUsdPriceFeed">>)

DeployScripts == {
  DeployAdaptiveFeeCalculator, DeployBotHandler, DeployBulkSendErc20,
  DeployCIXPriceAdapter, DeployCalcPriceLens, DeployCalculator,
  DeployChronicleOraclePriceAdapter, DeployCollateralReader, DeployConfigStorage,
  DeployConvertedGlpStrategy, DeployCrossMarginHandler, DeployCrossMarginService,
  DeployCurveDexter, DeployDLP, DeployDistributeSTIPARBStrategy,
  DeployERC20ApproveStrategy, DeployEcoPyth, DeployEcoPyth2,
  DeployEcoPythCalldataBuilder, DeployEcoPythCalldataBuilder2,
  DeployEcoPythCalldataBuilder3, DeployExt01Handler, DeployExternalRebalancer,
  DeployGasService, DeployGlpDexter, DeployGlpPriceAdapter, DeployGmBTCUSD,
  DeployGmETHUSD, DeployHLP, DeployHlpPriceAdapter, DeployHmxAccountFactory,
  DeployIntentHandler, DeployLimitTradeHandler, DeployLimitTradeHelper,
  DeployLiquidationReader, DeployLiquidationService, DeployLiquidityHandler,
  DeployLiquidityService, DeployOnChainPriceLens, DeployOracleMiddleware,
  DeployOrderReader, DeployOrderbookOracle, DeployPerpStorage, DeployPositionReader,
  DeployPythAdapter, DeployRebalanceHLPHandler, DeployRebalanceHLPService,
  DeployRebalanceHLPv2Handler, DeployRebalanceHLPv2Service, DeployStakedGlpOracleAdapter,
  DeployStakedGlpStrategy, DeploySwitchCollateralRouter, DeployTLCHook, DeployTimelock,
  DeployTradeHelper, DeployTradeOrderHelper, DeployTradeService,
  DeployTradingStakingHook, DeployUniswapDexter, DeployUnsafeEcoPythCalldataBuilder,
  DeployUnsafeEcoPythCalldataBuilder2, DeployUnsafeEcoPythCalldataBuilder3,
  DeployVaultStorage, DeployWstEthUsdPriceAdapter}
==================================================================================
