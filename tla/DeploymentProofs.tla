---------------------------- MODULE DeploymentProofs ----------------------------
(* Theorems about Deployment, for any number of operators and of runs.  The     *)
(* inductive invariant is that every file somebody has, the one on disk and the *)
(* copy each running script read, names what was deployed, by the right keys,   *)
(* and has what had been recorded when it was read.                             *)
EXTENDS Deployment, TLAPS

(* The contract each key should name, as the scripts that record it have it.    *)
Names ==
  {<<"adaptiveFeeCalculator", "AdaptiveFeeCalculator">>,
   <<"handlers.bot", "BotHandler">>,
   <<"oracles.priceAdapters.dix", "CIXPriceAdapter">>,
   <<"oracles.calcPriceLens", "CalcPriceLens">>, <<"calculator", "Calculator">>,
   <<"oracles.priceAdapters.wusdm", "ChronicleOraclePriceAdapter">>,
   <<"reader.collateral", "CollateralReader">>,
   <<"storages.config", "ConfigStorage">>,
   <<"strategies.convertedGlpStrategy", "ConvertedGlpStrategy">>,
   <<"handlers.crossMargin", "CrossMarginHandler">>,
   <<"services.crossMargin", "CrossMarginService">>,
   <<"extension.dexter.curve", "CurveDexter">>, <<"tokens.dlp", "DLP">>,
   <<"strategies.distributeSTIPARB", "DistributeSTIPARBStrategy">>,
   <<"strategies.erc20Approve", "ERC20ApproveStrategy">>,
   <<"oracles.ecoPyth", "EcoPyth">>, <<"oracles.ecoPyth2", "EcoPyth2">>,
   <<"oracles.ecoPythCalldataBuilder", "EcoPythCalldataBuilder">>,
   <<"oracles.ecoPythCalldataBuilder2", "EcoPythCalldataBuilder2">>,
   <<"oracles.ecoPythCalldataBuilder3", "EcoPythCalldataBuilder3">>,
   <<"handlers.ext01", "Ext01Handler">>,
   <<"handlers.externalRebalancer", "ExternalRebalancer">>,
   <<"services.gas", "GasService">>, <<"extension.dexter.glp", "GlpDexter">>,
   <<"oracles.priceAdapters.glp", "GlpPriceAdapter">>,
   <<"oracles.priceAdapters.gmBTCUSD", "GmPriceAdapter">>,
   <<"oracles.priceAdapters.gmETHUSD", "GmPriceAdapter">>, <<"tokens.hlp", "HLP">>,
   <<"oracles.priceAdapters.hlp", "HlpPriceAdapter">>,
   <<"accountAbstraction.factory", "HmxAccountFactory">>,
   <<"handlers.intent", "IntentHandler">>,
   <<"handlers.limitTrade", "LimitTradeHandler">>,
   <<"helpers.limitTrade", "LimitTradeHelper">>,
   <<"reader.liquidation", "LiquidationReader">>,
   <<"services.liquidation", "LiquidationService">>,
   <<"handlers.liquidity", "LiquidityHandler">>,
   <<"services.liquidity", "LiquidityService">>,
   <<"oracles.onChainPriceLens", "OnChainPriceLens">>,
   <<"oracles.middleware", "OracleMiddleware">>, <<"reader.order", "OrderReader">>,
   <<"oracles.orderbook", "OrderbookOracle">>, <<"storages.perp", "PerpStorage">>,
   <<"reader.position", "PositionReader">>,
   <<"oracles.pythAdapter", "PythAdapter">>,
   <<"handlers.rebalanceHLP", "RebalanceHLPHandler">>,
   <<"services.rebalanceHLP", "RebalanceHLPService">>,
   <<"handlers.rebalanceHLPv2", "RebalanceHLPv2Handler">>,
   <<"services.rebalanceHLPv2", "RebalanceHLPv2Service">>,
   <<"oracles.sglpStakedAdapter", "StakedGlpOracleAdapter">>,
   <<"strategies.stakedGlpStrategy", "StakedGlpStrategy">>,
   <<"extension.switchCollateralRouter", "SwitchCollateralRouter">>,
   <<"hooks.tlc", "TLCHook">>, <<"timelock", "Timelock">>,
   <<"helpers.trade", "TradeHelper">>,
   <<"helpers.tradeOrder", "TradeOrderHelper">>,
   <<"services.trade", "TradeService">>,
   <<"hooks.tradingStaking", "TradingStakingHook">>,
   <<"extension.dexter.uniswapV3", "UniswapDexter">>,
   <<"oracles.unsafeEcoPythCalldataBuilder", "UnsafeEcoPythCalldataBuilder">>,
   <<"oracles.unsafeEcoPythCalldataBuilder2", "UnsafeEcoPythCalldataBuilder2">>,
   <<"oracles.unsafeEcoPythCalldataBuilder3", "UnsafeEcoPythCalldataBuilder3">>,
   <<"storages.vault", "VaultStorage">>,
   <<"oracles.priceAdapters.wstEth", "WstEthUsdPriceAdapter">>}

(* Any address the file may hold at key, and any party of that name, will do    *)
(* where a parameter of kind wanted is declared.                                *)
Serves(key, wanted) ==
  \A kind : <<key, kind>> \in Names \/ (kind = key /\ kind \in OuterKeys \cup Literals)
              => Fits(kind, wanted)

(* A script with as many arguments as its contract takes names suitable ones.   *)
Fitting(s) ==
  Len(s.args) = Len(s.contract.takes) =>
    \A i \in DOMAIN s.args : Serves(s.args[i], s.contract.takes[i].kind)

(* Every script records its contract under the key of that contract. *)
LEMMA NamesRight ==
  \A s \in DeployScripts : s.key # "none" => <<s.key, s.contract.name>> \in Names
<1>1. ASSUME NEW s \in DeployScripts, s.key # "none"
      PROVE  <<s.key, s.contract.name>> \in Names
  <2>1. CASE s = DeployAdaptiveFeeCalculator BY <1>1, <2>1 DEF Names, Script,
      Contract, DeployAdaptiveFeeCalculator, AdaptiveFeeCalculator
  <2>2. CASE s = DeployBotHandler BY <1>1, <2>2 DEF Names, Script, Contract,
      DeployBotHandler, BotHandler
  <2>3. CASE s = DeployBulkSendErc20 BY <1>1, <2>3 DEF Names, Script, Contract,
      DeployBulkSendErc20, BulkSendErc20
  <2>4. CASE s = DeployCIXPriceAdapter BY <1>1, <2>4 DEF Names, Script, Contract,
      DeployCIXPriceAdapter, CIXPriceAdapter
  <2>5. CASE s = DeployCalcPriceLens BY <1>1, <2>5 DEF Names, Script, Contract,
      DeployCalcPriceLens, CalcPriceLens
  <2>6. CASE s = DeployCalculator BY <1>1, <2>6 DEF Names, Script, Contract,
      DeployCalculator, Calculator
  <2>7. CASE s = DeployChronicleOraclePriceAdapter BY <1>1, <2>7 DEF Names, Script,
      Contract, DeployChronicleOraclePriceAdapter, ChronicleOraclePriceAdapter
  <2>8. CASE s = DeployCollateralReader BY <1>1, <2>8 DEF Names, Script, Contract,
      DeployCollateralReader, CollateralReader
  <2>9. CASE s = DeployConfigStorage BY <1>1, <2>9 DEF Names, Script, Contract,
      DeployConfigStorage, ConfigStorage
  <2>10. CASE s = DeployConvertedGlpStrategy BY <1>1, <2>10 DEF Names, Script,
      Contract, DeployConvertedGlpStrategy, ConvertedGlpStrategy
  <2>11. CASE s = DeployCrossMarginHandler BY <1>1, <2>11 DEF Names, Script,
      Contract, DeployCrossMarginHandler, CrossMarginHandler
  <2>12. CASE s = DeployCrossMarginService BY <1>1, <2>12 DEF Names, Script,
      Contract, DeployCrossMarginService, CrossMarginService
  <2>13. CASE s = DeployCurveDexter BY <1>1, <2>13 DEF Names, Script, Contract,
      DeployCurveDexter, CurveDexter
  <2>14. CASE s = DeployDLP BY <1>1, <2>14 DEF Names, Script, Contract, DeployDLP, DLP
  <2>15. CASE s = DeployDistributeSTIPARBStrategy BY <1>1, <2>15 DEF Names, Script,
      Contract, DeployDistributeSTIPARBStrategy, DistributeSTIPARBStrategy
  <2>16. CASE s = DeployERC20ApproveStrategy BY <1>1, <2>16 DEF Names, Script,
      Contract, DeployERC20ApproveStrategy, ERC20ApproveStrategy
  <2>17. CASE s = DeployEcoPyth BY <1>1, <2>17 DEF Names, Script, Contract,
      DeployEcoPyth, EcoPyth
  <2>18. CASE s = DeployEcoPyth2 BY <1>1, <2>18 DEF Names, Script, Contract,
      DeployEcoPyth2, EcoPyth2
  <2>19. CASE s = DeployEcoPythCalldataBuilder BY <1>1, <2>19 DEF Names, Script,
      Contract, DeployEcoPythCalldataBuilder, EcoPythCalldataBuilder
  <2>20. CASE s = DeployEcoPythCalldataBuilder2 BY <1>1, <2>20 DEF Names, Script,
      Contract, DeployEcoPythCalldataBuilder2, EcoPythCalldataBuilder2
  <2>21. CASE s = DeployEcoPythCalldataBuilder3 BY <1>1, <2>21 DEF Names, Script,
      Contract, DeployEcoPythCalldataBuilder3, EcoPythCalldataBuilder3
  <2>22. CASE s = DeployExt01Handler BY <1>1, <2>22 DEF Names, Script, Contract,
      DeployExt01Handler, Ext01Handler
  <2>23. CASE s = DeployExternalRebalancer BY <1>1, <2>23 DEF Names, Script,
      Contract, DeployExternalRebalancer, ExternalRebalancer
  <2>24. CASE s = DeployGasService BY <1>1, <2>24 DEF Names, Script, Contract,
      DeployGasService, GasService
  <2>25. CASE s = DeployGlpDexter BY <1>1, <2>25 DEF Names, Script, Contract,
      DeployGlpDexter, GlpDexter
  <2>26. CASE s = DeployGlpPriceAdapter BY <1>1, <2>26 DEF Names, Script, Contract,
      DeployGlpPriceAdapter, GlpPriceAdapter
  <2>27. CASE s = DeployGmBTCUSD BY <1>1, <2>27 DEF Names, Script, Contract,
      DeployGmBTCUSD, GmPriceAdapter
  <2>28. CASE s = DeployGmETHUSD BY <1>1, <2>28 DEF Names, Script, Contract,
      DeployGmETHUSD, GmPriceAdapter
  <2>29. CASE s = DeployHLP BY <1>1, <2>29 DEF Names, Script, Contract, DeployHLP, HLP
  <2>30. CASE s = DeployHlpPriceAdapter BY <1>1, <2>30 DEF Names, Script, Contract,
      DeployHlpPriceAdapter, HlpPriceAdapter
  <2>31. CASE s = DeployHmxAccountFactory BY <1>1, <2>31 DEF Names, Script,
      Contract, DeployHmxAccountFactory, HmxAccountFactory
  <2>32. CASE s = DeployIntentHandler BY <1>1, <2>32 DEF Names, Script, Contract,
      DeployIntentHandler, IntentHandler
  <2>33. CASE s = DeployLimitTradeHandler BY <1>1, <2>33 DEF Names, Script,
      Contract, DeployLimitTradeHandler, LimitTradeHandler
  <2>34. CASE s = DeployLimitTradeHelper BY <1>1, <2>34 DEF Names, Script, Contract,
      DeployLimitTradeHelper, LimitTradeHelper
  <2>35. CASE s = DeployLiquidationReader BY <1>1, <2>35 DEF Names, Script,
      Contract, DeployLiquidationReader, LiquidationReader
  <2>36. CASE s = DeployLiquidationService BY <1>1, <2>36 DEF Names, Script,
      Contract, DeployLiquidationService, LiquidationService
  <2>37. CASE s = DeployLiquidityHandler BY <1>1, <2>37 DEF Names, Script, Contract,
      DeployLiquidityHandler, LiquidityHandler
  <2>38. CASE s = DeployLiquidityService BY <1>1, <2>38 DEF Names, Script, Contract,
      DeployLiquidityService, LiquidityService
  <2>39. CASE s = DeployOnChainPriceLens BY <1>1, <2>39 DEF Names, Script, Contract,
      DeployOnChainPriceLens, OnChainPriceLens
  <2>40. CASE s = DeployOracleMiddleware BY <1>1, <2>40 DEF Names, Script, Contract,
      DeployOracleMiddleware, OracleMiddleware
  <2>41. CASE s = DeployOrderReader BY <1>1, <2>41 DEF Names, Script, Contract,
      DeployOrderReader, OrderReader
  <2>42. CASE s = DeployOrderbookOracle BY <1>1, <2>42 DEF Names, Script, Contract,
      DeployOrderbookOracle, OrderbookOracle
  <2>43. CASE s = DeployPerpStorage BY <1>1, <2>43 DEF Names, Script, Contract,
      DeployPerpStorage, PerpStorage
  <2>44. CASE s = DeployPositionReader BY <1>1, <2>44 DEF Names, Script, Contract,
      DeployPositionReader, PositionReader
  <2>45. CASE s = DeployPythAdapter BY <1>1, <2>45 DEF Names, Script, Contract,
      DeployPythAdapter, PythAdapter
  <2>46. CASE s = DeployRebalanceHLPHandler BY <1>1, <2>46 DEF Names, Script,
      Contract, DeployRebalanceHLPHandler, RebalanceHLPHandler
  <2>47. CASE s = DeployRebalanceHLPService BY <1>1, <2>47 DEF Names, Script,
      Contract, DeployRebalanceHLPService, RebalanceHLPService
  <2>48. CASE s = DeployRebalanceHLPv2Handler BY <1>1, <2>48 DEF Names, Script,
      Contract, DeployRebalanceHLPv2Handler, RebalanceHLPv2Handler
  <2>49. CASE s = DeployRebalanceHLPv2Service BY <1>1, <2>49 DEF Names, Script,
      Contract, DeployRebalanceHLPv2Service, RebalanceHLPv2Service
  <2>50. CASE s = DeployStakedGlpOracleAdapter BY <1>1, <2>50 DEF Names, Script,
      Contract, DeployStakedGlpOracleAdapter, StakedGlpOracleAdapter
  <2>51. CASE s = DeployStakedGlpStrategy BY <1>1, <2>51 DEF Names, Script,
      Contract, DeployStakedGlpStrategy, StakedGlpStrategy
  <2>52. CASE s = DeploySwitchCollateralRouter BY <1>1, <2>52 DEF Names, Script,
      Contract, DeploySwitchCollateralRouter, SwitchCollateralRouter
  <2>53. CASE s = DeployTLCHook BY <1>1, <2>53 DEF Names, Script, Contract,
      DeployTLCHook, TLCHook
  <2>54. CASE s = DeployTimelock BY <1>1, <2>54 DEF Names, Script, Contract,
      DeployTimelock, Timelock
  <2>55. CASE s = DeployTradeHelper BY <1>1, <2>55 DEF Names, Script, Contract,
      DeployTradeHelper, TradeHelper
  <2>56. CASE s = DeployTradeOrderHelper BY <1>1, <2>56 DEF Names, Script, Contract,
      DeployTradeOrderHelper, TradeOrderHelper
  <2>57. CASE s = DeployTradeService BY <1>1, <2>57 DEF Names, Script, Contract,
      DeployTradeService, TradeService
  <2>58. CASE s = DeployTradingStakingHook BY <1>1, <2>58 DEF Names, Script,
      Contract, DeployTradingStakingHook, TradingStakingHook
  <2>59. CASE s = DeployUniswapDexter BY <1>1, <2>59 DEF Names, Script, Contract,
      DeployUniswapDexter, UniswapDexter
  <2>60. CASE s = DeployUnsafeEcoPythCalldataBuilder BY <1>1, <2>60 DEF Names,
      Script, Contract, DeployUnsafeEcoPythCalldataBuilder,
      UnsafeEcoPythCalldataBuilder
  <2>61. CASE s = DeployUnsafeEcoPythCalldataBuilder2 BY <1>1, <2>61 DEF Names,
      Script, Contract, DeployUnsafeEcoPythCalldataBuilder2,
      UnsafeEcoPythCalldataBuilder2
  <2>62. CASE s = DeployUnsafeEcoPythCalldataBuilder3 BY <1>1, <2>62 DEF Names,
      Script, Contract, DeployUnsafeEcoPythCalldataBuilder3,
      UnsafeEcoPythCalldataBuilder3
  <2>63. CASE s = DeployVaultStorage BY <1>1, <2>63 DEF Names, Script, Contract,
      DeployVaultStorage, VaultStorage
  <2>64. CASE s = DeployWstEthUsdPriceAdapter BY <1>1, <2>64 DEF Names, Script,
      Contract, DeployWstEthUsdPriceAdapter, WstEthUsdPriceAdapter
  <2> QED BY <2>1, <2>2, <2>3, <2>4, <2>5, <2>6, <2>7, <2>8, <2>9, <2>10, <2>11,
      <2>12, <2>13, <2>14, <2>15, <2>16, <2>17, <2>18, <2>19, <2>20, <2>21, <2>22,
      <2>23, <2>24, <2>25, <2>26, <2>27, <2>28, <2>29, <2>30, <2>31, <2>32, <2>33,
      <2>34, <2>35, <2>36, <2>37, <2>38, <2>39, <2>40, <2>41, <2>42, <2>43, <2>44,
      <2>45, <2>46, <2>47, <2>48, <2>49, <2>50, <2>51, <2>52, <2>53, <2>54, <2>55,
      <2>56, <2>57, <2>58, <2>59, <2>60, <2>61, <2>62, <2>63, <2>64 DEF
      DeployScripts
<1> QED BY <1>1

(* Each argument that a script names, and what it is declared as. *)
LEMMA ArgumentsServe ==
  /\ Serves("value", "value")
  /\ Serves("services.trade", "TradeService")
  /\ Serves("services.liquidation", "LiquidationService")
  /\ Serves("services.crossMargin", "CrossMarginService")
  /\ Serves("oracles.ecoPyth", "IEcoPyth")
  /\ Serves("oracles.middleware", "OracleMiddleware")
  /\ Serves("storages.vault", "VaultStorage")
  /\ Serves("storages.perp", "PerpStorage")
  /\ Serves("storages.config", "ConfigStorage")
  /\ Serves("account", "account")
  /\ Serves("tokens.sglp", "tokens.sglp")
  /\ Serves("calculator", "Calculator")
  /\ Serves("strategies.convertedGlpStrategy", "ConvertedGlpStrategy")
  /\ Serves("tokens.weth", "tokens.weth")
  /\ Serves("tokens.hlp", "token")
  /\ Serves("tokens.arb", "tokens.arb")
  /\ Serves("strategies.erc20Approve", "ERC20ApproveStrategy")
  /\ Serves("oracles.ecoPyth2", "IEcoPyth")
  /\ Serves("vendors.gmx.glpManager", "vendors.gmx.glpManager")
  /\ Serves("oracles.onChainPriceLens", "OnChainPriceLens")
  /\ Serves("oracles.calcPriceLens", "CalcPriceLens")
  /\ Serves("services.liquidity", "LiquidityService")
  /\ Serves("vendors.gmx.gmxVault", "vendors.gmx.gmxVault")
  /\ Serves("vendors.gmx.rewardRouterV2", "vendors.gmx.rewardRouterV2")
  /\ Serves("vendors.gmxV2.reader", "vendors.gmxV2.reader")
  /\ Serves("vendors.gmxV2.dataStore", "vendors.gmxV2.dataStore")
  /\ Serves("tokens.gmBTCUSD", "token")
  /\ Serves("account", "token")
  /\ Serves("tokens.wbtc", "token")
  /\ Serves("tokens.usdcNative", "token")
  /\ Serves("tokens.gmETHUSD", "token")
  /\ Serves("tokens.weth", "token")
  /\ Serves("tokens.hlp", "HLP")
  /\ Serves("accountAbstraction.entryPoint", "accountAbstraction.entryPoint")
  /\ Serves("helpers.tradeOrder", "TradeOrderHelper")
  /\ Serves("services.gas", "GasService")
  /\ Serves("helpers.trade", "TradeHelper")
  /\ Serves("handlers.limitTrade", "LimitTradeHandler")
  /\ Serves("services.rebalanceHLP", "RebalanceHLPService")
  /\ Serves("extension.switchCollateralRouter", "SwitchCollateralRouter")
  /\ Serves("services.rebalanceHLPv2", "RebalanceHLPv2Service")
  /\ Serves("vendors.gmxV2.exchangeRouter", "vendors.gmxV2.exchangeRouter")
  /\ Serves("vendors.gmxV2.depositVault", "vendors.gmxV2.depositVault")
  /\ Serves("vendors.gmxV2.depositHandler", "vendors.gmxV2.depositHandler")
  /\ Serves("vendors.gmxV2.withdrawalVault", "vendors.gmxV2.withdrawalVault")
  /\ Serves("vendors.gmxV2.withdrawalHandler", "vendors.gmxV2.withdrawalHandler")
  /\ Serves("vendors.gmx.rewardTracker", "vendors.gmx.rewardTracker")
  /\ Serves("tokens.traderLoyaltyCredit", "tokens.traderLoyaltyCredit")
  /\ Serves("staking.tlc", "staking.tlc")
  /\ Serves("staking.trading", "staking.trading")
  /\ Serves("vendors.uniswap.permit2", "vendors.uniswap.permit2")
  /\ Serves("vendors.uniswap.universalRouter", "vendors.uniswap.universalRouter")
  /\ Serves("vendors.chainlink.wstEthEthPriceFeed", "vendors.chainlink.wstEthEthPriceFeed")
  /\ Serves("vendors.chainlink.ethUsdPriceFeed", "vendors.chainlink.ethUsdPriceFeed")
  /\ Serves("yieldSources.gmx.rewardRouterV2", "vendors.gmx.rewardRouterV2")
  /\ Serves("yieldSources.gmx.glpManager", "vendors.gmx.glpManager")
BY DEF Serves, Names, OuterKeys, Literals, Fits, Tokens

(* The arguments of a script are a list. *)
Listed(s) == Len(s.args) \in Nat /\ DOMAIN s.args = 1 .. Len(s.args)
LEMMA ArgumentsListed == \A s \in DeployScripts : Listed(s)
<1>1. Listed(DeployAdaptiveFeeCalculator) BY DEF Listed, Script,
    DeployAdaptiveFeeCalculator
<1>2. Listed(DeployBotHandler) BY DEF Listed, Script, DeployBotHandler
<1>3. Listed(DeployBulkSendErc20) BY DEF Listed, Script, DeployBulkSendErc20
<1>4. Listed(DeployCIXPriceAdapter) BY DEF Listed, Script, DeployCIXPriceAdapter
<1>5. Listed(DeployCalcPriceLens) BY DEF Listed, Script, DeployCalcPriceLens
<1>6. Listed(DeployCalculator) BY DEF Listed, Script, DeployCalculator
<1>7. Listed(DeployChronicleOraclePriceAdapter) BY DEF Listed, Script,
    DeployChronicleOraclePriceAdapter
<1>8. Listed(DeployCollateralReader) BY DEF Listed, Script, DeployCollateralReader
<1>9. Listed(DeployConfigStorage) BY DEF Listed, Script, DeployConfigStorage
<1>10. Listed(DeployConvertedGlpStrategy) BY DEF Listed, Script,
    DeployConvertedGlpStrategy
<1>11. Listed(DeployCrossMarginHandler) BY DEF Listed, Script,
    DeployCrossMarginHandler
<1>12. Listed(DeployCrossMarginService) BY DEF Listed, Script,
    DeployCrossMarginService
<1>13. Listed(DeployCurveDexter) BY DEF Listed, Script, DeployCurveDexter
<1>14. Listed(DeployDLP) BY DEF Listed, Script, DeployDLP
<1>15. Listed(DeployDistributeSTIPARBStrategy) BY DEF Listed, Script,
    DeployDistributeSTIPARBStrategy
<1>16. Listed(DeployERC20ApproveStrategy) BY DEF Listed, Script,
    DeployERC20ApproveStrategy
<1>17. Listed(DeployEcoPyth) BY DEF Listed, Script, DeployEcoPyth
<1>18. Listed(DeployEcoPyth2) BY DEF Listed, Script, DeployEcoPyth2
<1>19. Listed(DeployEcoPythCalldataBuilder) BY DEF Listed, Script,
    DeployEcoPythCalldataBuilder
<1>20. Listed(DeployEcoPythCalldataBuilder2) BY DEF Listed, Script,
    DeployEcoPythCalldataBuilder2
<1>21. Listed(DeployEcoPythCalldataBuilder3) BY DEF Listed, Script,
    DeployEcoPythCalldataBuilder3
<1>22. Listed(DeployExt01Handler) BY DEF Listed, Script, DeployExt01Handler
<1>23. Listed(DeployExternalRebalancer) BY DEF Listed, Script,
    DeployExternalRebalancer
<1>24. Listed(DeployGasService) BY DEF Listed, Script, DeployGasService
<1>25. Listed(DeployGlpDexter) BY DEF Listed, Script, DeployGlpDexter
<1>26. Listed(DeployGlpPriceAdapter) BY DEF Listed, Script, DeployGlpPriceAdapter
<1>27. Listed(DeployGmBTCUSD) BY DEF Listed, Script, DeployGmBTCUSD
<1>28. Listed(DeployGmETHUSD) BY DEF Listed, Script, DeployGmETHUSD
<1>29. Listed(DeployHLP) BY DEF Listed, Script, DeployHLP
<1>30. Listed(DeployHlpPriceAdapter) BY DEF Listed, Script, DeployHlpPriceAdapter
<1>31. Listed(DeployHmxAccountFactory) BY DEF Listed, Script, DeployHmxAccountFactory
<1>32. Listed(DeployIntentHandler) BY DEF Listed, Script, DeployIntentHandler
<1>33. Listed(DeployLimitTradeHandler) BY DEF Listed, Script, DeployLimitTradeHandler
<1>34. Listed(DeployLimitTradeHelper) BY DEF Listed, Script, DeployLimitTradeHelper
<1>35. Listed(DeployLiquidationReader) BY DEF Listed, Script, DeployLiquidationReader
<1>36. Listed(DeployLiquidationService) BY DEF Listed, Script,
    DeployLiquidationService
<1>37. Listed(DeployLiquidityHandler) BY DEF Listed, Script, DeployLiquidityHandler
<1>38. Listed(DeployLiquidityService) BY DEF Listed, Script, DeployLiquidityService
<1>39. Listed(DeployOnChainPriceLens) BY DEF Listed, Script, DeployOnChainPriceLens
<1>40. Listed(DeployOracleMiddleware) BY DEF Listed, Script, DeployOracleMiddleware
<1>41. Listed(DeployOrderReader) BY DEF Listed, Script, DeployOrderReader
<1>42. Listed(DeployOrderbookOracle) BY DEF Listed, Script, DeployOrderbookOracle
<1>43. Listed(DeployPerpStorage) BY DEF Listed, Script, DeployPerpStorage
<1>44. Listed(DeployPositionReader) BY DEF Listed, Script, DeployPositionReader
<1>45. Listed(DeployPythAdapter) BY DEF Listed, Script, DeployPythAdapter
<1>46. Listed(DeployRebalanceHLPHandler) BY DEF Listed, Script,
    DeployRebalanceHLPHandler
<1>47. Listed(DeployRebalanceHLPService) BY DEF Listed, Script,
    DeployRebalanceHLPService
<1>48. Listed(DeployRebalanceHLPv2Handler) BY DEF Listed, Script,
    DeployRebalanceHLPv2Handler
<1>49. Listed(DeployRebalanceHLPv2Service) BY DEF Listed, Script,
    DeployRebalanceHLPv2Service
<1>50. Listed(DeployStakedGlpOracleAdapter) BY DEF Listed, Script,
    DeployStakedGlpOracleAdapter
<1>51. Listed(DeployStakedGlpStrategy) BY DEF Listed, Script, DeployStakedGlpStrategy
<1>52. Listed(DeploySwitchCollateralRouter) BY DEF Listed, Script,
    DeploySwitchCollateralRouter
<1>53. Listed(DeployTLCHook) BY DEF Listed, Script, DeployTLCHook
<1>54. Listed(DeployTimelock) BY DEF Listed, Script, DeployTimelock
<1>55. Listed(DeployTradeHelper) BY DEF Listed, Script, DeployTradeHelper
<1>56. Listed(DeployTradeOrderHelper) BY DEF Listed, Script, DeployTradeOrderHelper
<1>57. Listed(DeployTradeService) BY DEF Listed, Script, DeployTradeService
<1>58. Listed(DeployTradingStakingHook) BY DEF Listed, Script,
    DeployTradingStakingHook
<1>59. Listed(DeployUniswapDexter) BY DEF Listed, Script, DeployUniswapDexter
<1>60. Listed(DeployUnsafeEcoPythCalldataBuilder) BY DEF Listed, Script,
    DeployUnsafeEcoPythCalldataBuilder
<1>61. Listed(DeployUnsafeEcoPythCalldataBuilder2) BY DEF Listed, Script,
    DeployUnsafeEcoPythCalldataBuilder2
<1>62. Listed(DeployUnsafeEcoPythCalldataBuilder3) BY DEF Listed, Script,
    DeployUnsafeEcoPythCalldataBuilder3
<1>63. Listed(DeployVaultStorage) BY DEF Listed, Script, DeployVaultStorage
<1>64. Listed(DeployWstEthUsdPriceAdapter) BY DEF Listed, Script,
    DeployWstEthUsdPriceAdapter
<1> QED BY <1>1, <1>2, <1>3, <1>4, <1>5, <1>6, <1>7, <1>8, <1>9, <1>10, <1>11,
    <1>12, <1>13, <1>14, <1>15, <1>16, <1>17, <1>18, <1>19, <1>20, <1>21, <1>22,
    <1>23, <1>24, <1>25, <1>26, <1>27, <1>28, <1>29, <1>30, <1>31, <1>32, <1>33,
    <1>34, <1>35, <1>36, <1>37, <1>38, <1>39, <1>40, <1>41, <1>42, <1>43, <1>44,
    <1>45, <1>46, <1>47, <1>48, <1>49, <1>50, <1>51, <1>52, <1>53, <1>54, <1>55,
    <1>56, <1>57, <1>58, <1>59, <1>60, <1>61, <1>62, <1>63, <1>64 DEF DeployScripts

(* No script passes its arguments in the wrong order, if it passes enough.      *)
LEMMA ScriptsFit == \A s \in DeployScripts : Fitting(s)
<1>1. Fitting(DeployAdaptiveFeeCalculator)
  BY ArgumentsServe DEF Fitting, Script, Contract, Of, Asked, DeployAdaptiveFeeCalculator, AdaptiveFeeCalculator
<1>2. Fitting(DeployBotHandler)
  BY ArgumentsServe DEF Fitting, Script, Contract, Of, Asked, DeployBotHandler, BotHandler
<1>3. Fitting(DeployBulkSendErc20)
  BY ArgumentsServe DEF Fitting, Script, Contract, Of, Asked, DeployBulkSendErc20, BulkSendErc20
<1>4. Fitting(DeployCIXPriceAdapter)
  BY ArgumentsServe DEF Fitting, Script, Contract, Of, Asked, DeployCIXPriceAdapter, CIXPriceAdapter
<1>5. Fitting(DeployCalcPriceLens)
  BY ArgumentsServe DEF Fitting, Script, Contract, Of, Asked, DeployCalcPriceLens, CalcPriceLens
<1>6. Fitting(DeployCalculator)
  BY ArgumentsServe DEF Fitting, Script, Contract, Of, Asked, DeployCalculator, Calculator
<1>7. Fitting(DeployChronicleOraclePriceAdapter)
  BY ArgumentsServe DEF Fitting, Script, Contract, Of, Asked, DeployChronicleOraclePriceAdapter, ChronicleOraclePriceAdapter
<1>8. Fitting(DeployCollateralReader)
  BY ArgumentsServe DEF Fitting, Script, Contract, Of, Asked, DeployCollateralReader, CollateralReader
<1>9. Fitting(DeployConfigStorage)
  BY ArgumentsServe DEF Fitting, Script, Contract, Of, Asked, DeployConfigStorage, ConfigStorage
<1>10. Fitting(DeployConvertedGlpStrategy)
  BY ArgumentsServe DEF Fitting, Script, Contract, Of, Asked, DeployConvertedGlpStrategy, ConvertedGlpStrategy
<1>11. Fitting(DeployCrossMarginHandler)
  BY ArgumentsServe DEF Fitting, Script, Contract, Of, Asked, DeployCrossMarginHandler, CrossMarginHandler
<1>12. Fitting(DeployCrossMarginService)
  BY ArgumentsServe DEF Fitting, Script, Contract, Of, Asked, DeployCrossMarginService, CrossMarginService
<1>13. Fitting(DeployCurveDexter)
  BY ArgumentsServe DEF Fitting, Script, Contract, Of, Asked, DeployCurveDexter, CurveDexter
<1>14. Fitting(DeployDLP)
  BY ArgumentsServe DEF Fitting, Script, Contract, Of, Asked, DeployDLP, DLP
<1>15. Fitting(DeployDistributeSTIPARBStrategy)
  BY ArgumentsServe DEF Fitting, Script, Contract, Of, Asked, DeployDistributeSTIPARBStrategy, DistributeSTIPARBStrategy
<1>16. Fitting(DeployERC20ApproveStrategy)
  BY ArgumentsServe DEF Fitting, Script, Contract, Of, Asked, DeployERC20ApproveStrategy, ERC20ApproveStrategy
<1>17. Fitting(DeployEcoPyth)
  BY ArgumentsServe DEF Fitting, Script, Contract, Of, Asked, DeployEcoPyth, EcoPyth
<1>18. Fitting(DeployEcoPyth2)
  BY ArgumentsServe DEF Fitting, Script, Contract, Of, Asked, DeployEcoPyth2, EcoPyth2
<1>19. Fitting(DeployEcoPythCalldataBuilder)
  BY ArgumentsServe DEF Fitting, Script, Contract, Of, Asked, DeployEcoPythCalldataBuilder, EcoPythCalldataBuilder
<1>20. Fitting(DeployEcoPythCalldataBuilder2)
  BY ArgumentsServe DEF Fitting, Script, Contract, Of, Asked, DeployEcoPythCalldataBuilder2, EcoPythCalldataBuilder2
<1>21. Fitting(DeployEcoPythCalldataBuilder3)
  BY ArgumentsServe DEF Fitting, Script, Contract, Of, Asked, DeployEcoPythCalldataBuilder3, EcoPythCalldataBuilder3
<1>22. Fitting(DeployExt01Handler)
  BY ArgumentsServe DEF Fitting, Script, Contract, Of, Asked, DeployExt01Handler, Ext01Handler
<1>23. Fitting(DeployExternalRebalancer)
  BY ArgumentsServe DEF Fitting, Script, Contract, Of, Asked, DeployExternalRebalancer, ExternalRebalancer
<1>24. Fitting(DeployGasService)
  BY ArgumentsServe DEF Fitting, Script, Contract, Of, Asked, DeployGasService, GasService
<1>25. Fitting(DeployGlpDexter)
  BY ArgumentsServe DEF Fitting, Script, Contract, Of, Asked, DeployGlpDexter, GlpDexter
<1>26. Fitting(DeployGlpPriceAdapter)
  BY ArgumentsServe DEF Fitting, Script, Contract, Of, Asked, DeployGlpPriceAdapter, GlpPriceAdapter
<1>27. Fitting(DeployGmBTCUSD)
  BY ArgumentsServe DEF Fitting, Script, Contract, Of, Asked, DeployGmBTCUSD, GmPriceAdapter
<1>28. Fitting(DeployGmETHUSD)
  BY ArgumentsServe DEF Fitting, Script, Contract, Of, Asked, DeployGmETHUSD, GmPriceAdapter
<1>29. Fitting(DeployHLP)
  BY ArgumentsServe DEF Fitting, Script, Contract, Of, Asked, DeployHLP, HLP
<1>30. Fitting(DeployHlpPriceAdapter)
  BY ArgumentsServe DEF Fitting, Script, Contract, Of, Asked, DeployHlpPriceAdapter, HlpPriceAdapter
<1>31. Fitting(DeployHmxAccountFactory)
  BY ArgumentsServe DEF Fitting, Script, Contract, Of, Asked, DeployHmxAccountFactory, HmxAccountFactory
<1>32. Fitting(DeployIntentHandler)
  BY ArgumentsServe DEF Fitting, Script, Contract, Of, Asked, DeployIntentHandler, IntentHandler
<1>33. Fitting(DeployLimitTradeHandler)
  BY ArgumentsServe DEF Fitting, Script, Contract, Of, Asked, DeployLimitTradeHandler, LimitTradeHandler
<1>34. Fitting(DeployLimitTradeHelper)
  BY ArgumentsServe DEF Fitting, Script, Contract, Of, Asked, DeployLimitTradeHelper, LimitTradeHelper
<1>35. Fitting(DeployLiquidationReader)
  BY ArgumentsServe DEF Fitting, Script, Contract, Of, Asked, DeployLiquidationReader, LiquidationReader
<1>36. Fitting(DeployLiquidationService)
  BY ArgumentsServe DEF Fitting, Script, Contract, Of, Asked, DeployLiquidationService, LiquidationService
<1>37. Fitting(DeployLiquidityHandler)
  BY ArgumentsServe DEF Fitting, Script, Contract, Of, Asked, DeployLiquidityHandler, LiquidityHandler
<1>38. Fitting(DeployLiquidityService)
  BY ArgumentsServe DEF Fitting, Script, Contract, Of, Asked, DeployLiquidityService, LiquidityService
<1>39. Fitting(DeployOnChainPriceLens)
  BY ArgumentsServe DEF Fitting, Script, Contract, Of, Asked, DeployOnChainPriceLens, OnChainPriceLens
<1>40. Fitting(DeployOracleMiddleware)
  BY ArgumentsServe DEF Fitting, Script, Contract, Of, Asked, DeployOracleMiddleware, OracleMiddleware
<1>41. Fitting(DeployOrderReader)
  BY ArgumentsServe DEF Fitting, Script, Contract, Of, Asked, DeployOrderReader, OrderReader
<1>42. Fitting(DeployOrderbookOracle)
  BY ArgumentsServe DEF Fitting, Script, Contract, Of, Asked, DeployOrderbookOracle, OrderbookOracle
<1>43. Fitting(DeployPerpStorage)
  BY ArgumentsServe DEF Fitting, Script, Contract, Of, Asked, DeployPerpStorage, PerpStorage
<1>44. Fitting(DeployPositionReader)
  BY ArgumentsServe DEF Fitting, Script, Contract, Of, Asked, DeployPositionReader, PositionReader
<1>45. Fitting(DeployPythAdapter)
  BY ArgumentsServe DEF Fitting, Script, Contract, Of, Asked, DeployPythAdapter, PythAdapter
<1>46. Fitting(DeployRebalanceHLPHandler)
  BY ArgumentsServe DEF Fitting, Script, Contract, Of, Asked, DeployRebalanceHLPHandler, RebalanceHLPHandler
<1>47. Fitting(DeployRebalanceHLPService)
  BY ArgumentsServe DEF Fitting, Script, Contract, Of, Asked, DeployRebalanceHLPService, RebalanceHLPService
<1>48. Fitting(DeployRebalanceHLPv2Handler)
  BY ArgumentsServe DEF Fitting, Script, Contract, Of, Asked, DeployRebalanceHLPv2Handler, RebalanceHLPv2Handler
<1>49. Fitting(DeployRebalanceHLPv2Service)
  BY ArgumentsServe DEF Fitting, Script, Contract, Of, Asked, DeployRebalanceHLPv2Service, RebalanceHLPv2Service
<1>50. Fitting(DeployStakedGlpOracleAdapter)
  BY ArgumentsServe DEF Fitting, Script, Contract, Of, Asked, DeployStakedGlpOracleAdapter, StakedGlpOracleAdapter
<1>51. Fitting(DeployStakedGlpStrategy)
  BY ArgumentsServe DEF Fitting, Script, Contract, Of, Asked, DeployStakedGlpStrategy, StakedGlpStrategy
<1>52. Fitting(DeploySwitchCollateralRouter)
  BY ArgumentsServe DEF Fitting, Script, Contract, Of, Asked, DeploySwitchCollateralRouter, SwitchCollateralRouter
<1>53. Fitting(DeployTLCHook)
  BY ArgumentsServe DEF Fitting, Script, Contract, Of, Asked, DeployTLCHook, TLCHook
<1>54. Fitting(DeployTimelock)
  BY ArgumentsServe DEF Fitting, Script, Contract, Of, Asked, DeployTimelock, Timelock
<1>55. Fitting(DeployTradeHelper)
  BY ArgumentsServe DEF Fitting, Script, Contract, Of, Asked, DeployTradeHelper, TradeHelper
<1>56. Fitting(DeployTradeOrderHelper)
  BY ArgumentsServe DEF Fitting, Script, Contract, Of, Asked, DeployTradeOrderHelper, TradeOrderHelper
<1>57. Fitting(DeployTradeService)
  BY ArgumentsServe DEF Fitting, Script, Contract, Of, Asked, DeployTradeService, TradeService
<1>58. Fitting(DeployTradingStakingHook)
  BY ArgumentsServe DEF Fitting, Script, Contract, Of, Asked, DeployTradingStakingHook, TradingStakingHook
<1>59. Fitting(DeployUniswapDexter)
  BY ArgumentsServe DEF Fitting, Script, Contract, Of, Asked, DeployUniswapDexter, UniswapDexter
<1>60. Fitting(DeployUnsafeEcoPythCalldataBuilder)
  BY ArgumentsServe DEF Fitting, Script, Contract, Of, Asked, DeployUnsafeEcoPythCalldataBuilder, UnsafeEcoPythCalldataBuilder
<1>61. Fitting(DeployUnsafeEcoPythCalldataBuilder2)
  BY ArgumentsServe DEF Fitting, Script, Contract, Of, Asked, DeployUnsafeEcoPythCalldataBuilder2, UnsafeEcoPythCalldataBuilder2
<1>62. Fitting(DeployUnsafeEcoPythCalldataBuilder3)
  BY ArgumentsServe DEF Fitting, Script, Contract, Of, Asked, DeployUnsafeEcoPythCalldataBuilder3, UnsafeEcoPythCalldataBuilder3
<1>63. Fitting(DeployVaultStorage)
  BY ArgumentsServe DEF Fitting, Script, Contract, Of, Asked, DeployVaultStorage, VaultStorage
<1>64. Fitting(DeployWstEthUsdPriceAdapter)
  BY ArgumentsServe DEF Fitting, Script, Contract, Of, Asked, DeployWstEthUsdPriceAdapter, WstEthUsdPriceAdapter
<1> QED BY <1>1, <1>2, <1>3, <1>4, <1>5, <1>6, <1>7, <1>8, <1>9, <1>10, <1>11,
    <1>12, <1>13, <1>14, <1>15, <1>16, <1>17, <1>18, <1>19, <1>20, <1>21, <1>22,
    <1>23, <1>24, <1>25, <1>26, <1>27, <1>28, <1>29, <1>30, <1>31, <1>32, <1>33,
    <1>34, <1>35, <1>36, <1>37, <1>38, <1>39, <1>40, <1>41, <1>42, <1>43, <1>44,
    <1>45, <1>46, <1>47, <1>48, <1>49, <1>50, <1>51, <1>52, <1>53, <1>54, <1>55,
    <1>56, <1>57, <1>58, <1>59, <1>60, <1>61, <1>62, <1>63, <1>64 DEF DeployScripts

------------------------------------------------------------------------------------
(* What is true of every file somebody has.                                         *)

(* The file names nothing that is not among the deployed, and nothing by         *)
(* another contract's key.                                                       *)
NamesDeployed(config, made) ==
  \A key \in Written :
    config[key] # Unset /\ config[key].n > 0 => \E d \in made : d.at = config[key]
NamesKinds(config) ==
  \A key \in Written : config[key] = Unset \/ <<key, config[key].kind>> \in Names

(* What was recorded by time t is in the file, or was replaced since.            *)
Replaced(r, kept) ==
  \E q \in kept : q.written > r.written /\ (q.key = r.key \/ q.loaded < r.written)
Holds(config, t, kept) ==
  \A r \in kept : r.written <= t => config[r.key] = r.at \/ Replaced(r, kept)

FileAt(config, t, made, kept) ==
  /\ config = [key \in Written |-> config[key]]
  /\ NamesDeployed(config, made) /\ NamesKinds(config) /\ Holds(config, t, kept)

(* A script that has read the file, and one that has deployed its contract. *)
Loaded(r, made, kept, present) ==
  /\ r.script \in DeployScripts
  /\ r.since \in Nat /\ r.since < present
  /\ FileAt(r.config, r.since, made, kept)
Recordable(r, made) ==
  /\ r.script.key # "none"
  /\ r.at.kind = r.script.contract.name
  /\ \E d \in made : d.at = r.at
Running(r, made, kept, present) ==
  \/ r = Idle
  \/ r.phase = "loaded" /\ Loaded(r, made, kept, present)
  \/ r.phase = "deployed" /\ Loaded(r, made, kept, present) /\ Recordable(r, made)

(* What is recorded is of the past. *)
Past(kept, present) ==
  \A r \in kept : r.key \in Written /\ r.written \in Nat /\ r.written < present

WiredIn(made) == \A d \in made : \A i \in DOMAIN d.with : Fits(d.with[i].kind, d.takes[i].kind)

DeploymentInv ==
  /\ now \in Nat
  /\ Past(recorded, now)
  /\ FileAt(file, now, created, recorded)
  /\ run = [o \in Operators |-> run[o]]
  /\ \A o \in Operators : Running(run[o], created, recorded, now)
  /\ WiredIn(created)

LEMMA InitInv == Init => DeploymentInv
<1> SUFFICES ASSUME Init PROVE DeploymentInv
  OBVIOUS
<1>1. file = [key \in Written |-> file[key]] BY DEF Init, MainnetFile
<1>2. ASSUME NEW key \in Written
      PROVE  file[key] = Unset \/ file[key] = At(KindOf(key), 0)
  BY DEF Init, MainnetFile
<1>3. ASSUME NEW key \in Written PROVE <<key, KindOf(key)>> \in Names
  <2>1. \E s \in DeployScripts : s.key = key /\ key # "none" BY <1>3 DEF Written
  <2> DEFINE s == CHOOSE x \in DeployScripts : x.key = key
  <2>2. s \in DeployScripts /\ s.key = key BY <2>1
  <2>3. KindOf(key) = s.contract.name BY DEF KindOf
  <2> HIDE DEF s
  <2> QED BY <2>1, <2>2, <2>3, NamesRight
<1>4. ASSUME NEW key \in Written
      PROVE  /\ file[key] = Unset \/ <<key, file[key].kind>> \in Names
             /\ file[key] # Unset => file[key].n = 0
  <2>1. CASE file[key] = At(KindOf(key), 0)
    <3>1. file[key].kind = KindOf(key) /\ file[key].n = 0 BY <2>1 DEF At
    <3> QED BY <3>1, <1>3
  <2> QED BY <2>1, <1>2
<1>5. NamesKinds(file) /\ NamesDeployed(file, created)
  <2>1. NamesKinds(file) BY <1>4 DEF NamesKinds
  <2>2. ASSUME NEW key \in Written, file[key] # Unset PROVE ~(file[key].n > 0)
    <3>1. file[key].n = 0 BY <1>4, <2>2
    <3> QED BY <3>1
  <2>3. NamesDeployed(file, created) BY <2>2 DEF NamesDeployed
  <2> QED BY <2>1, <2>3
<1>6. Holds(file, now, recorded) BY DEF Init, Holds
<1>7. FileAt(file, now, created, recorded) BY <1>1, <1>5, <1>6 DEF FileAt
<1>8. Past(recorded, now) /\ WiredIn(created) /\ now \in Nat BY DEF Init, Past,
    WiredIn
<1>9. /\ run = [o \in Operators |-> run[o]]
      /\ \A o \in Operators : Running(run[o], created, recorded, now)
  BY DEF Init, Running
<1> QED BY <1>7, <1>8, <1>9 DEF DeploymentInv

(* What is deployed in the meantime leaves a file what it was, and so a running script. *)
LEMMA FileStays ==
  ASSUME NEW config, NEW t, NEW made, NEW kept, FileAt(config, t, made, kept),
         NEW more, made \subseteq more
  PROVE  FileAt(config, t, more, kept)
BY DEF FileAt, NamesDeployed

LEMMA RunStays ==
  ASSUME NEW r, NEW made, NEW kept, NEW present \in Nat, Running(r, made, kept, present),
         NEW more, made \subseteq more, NEW later \in Nat, present <= later
  PROVE  Running(r, more, kept, later)
<1>1. CASE r = Idle BY <1>1 DEF Running
<1>2. ASSUME Loaded(r, made, kept, present) PROVE Loaded(r, more, kept, later)
  BY <1>2, FileStays DEF Loaded
<1>3. ASSUME Recordable(r, made) PROVE Recordable(r, more) BY <1>3 DEF Recordable
<1> QED BY <1>1, <1>2, <1>3 DEF Running

(* What is recorded at the present was not there when any script read the file.     *)
LEMMA FileSpared ==
  ASSUME NEW config, NEW t \in Nat, NEW made, NEW kept, FileAt(config, t, made, kept),
         NEW q, q.written \in Nat, q.written > t
  PROVE  FileAt(config, t, made, kept \cup {q})
<1>1. \A r \in kept : Replaced(r, kept) => Replaced(r, kept \cup {q}) BY DEF Replaced
<1>2. Holds(config, t, kept \cup {q})
  BY <1>1 DEF FileAt, Holds
<1> QED BY <1>2 DEF FileAt

LEMMA RunSpared ==
  ASSUME NEW r, NEW made, NEW kept, NEW present \in Nat, Running(r, made, kept, present),
         NEW q, q.written = present
  PROVE  Running(r, made, kept \cup {q}, present + 1)
<1>1. CASE r = Idle BY <1>1 DEF Running
<1>2. ASSUME Loaded(r, made, kept, present)
      PROVE  Loaded(r, made, kept \cup {q}, present + 1)
  BY <1>2, FileSpared DEF Loaded
<1> QED BY <1>1, <1>2 DEF Running

------------------------------------------------------------------------------------
(* The steps. *)

LEMMA LoadKeeps ==
  ASSUME DeploymentInv, NEW o \in Operators, NEW s \in DeployScripts, getConfig(o, s)
  PROVE  DeploymentInv'
<1> DEFINE r == [phase |-> "loaded", script |-> s, config |-> file, since |-> now]
<1>1. /\ now' = now + 1 /\ file' = file /\ created' = created /\ recorded' = recorded
      /\ run' = [run EXCEPT ![o] = r]
  BY DEF getConfig
<1>2. /\ now \in Nat /\ FileAt(file, now, created, recorded) /\ Past(recorded, now)
      /\ run = [p \in Operators |-> run[p]] /\ WiredIn(created)
      /\ \A p \in Operators : Running(run[p], created, recorded, now)
  BY DEF DeploymentInv
<1>3. FileAt(file, now + 1, created, recorded)
  BY <1>2 DEF FileAt, Holds, Past
<1>4. Past(recorded, now + 1) BY <1>2 DEF Past
<1>5. Running(r, created, recorded, now + 1) BY <1>2 DEF Running, Loaded
<1> HIDE DEF r
<1>6. \A p \in Operators : Running(run'[p], created, recorded, now + 1)
  BY <1>1, <1>2, <1>5, RunStays
<1>7. run' = [p \in Operators |-> run'[p]] BY <1>1, <1>2
<1> QED BY <1>1, <1>2, <1>3, <1>4, <1>6, <1>7 DEF DeploymentInv

(* What a script passes on is what it read, or another party. *)
LEMMA ArgumentFits ==
  ASSUME NEW config, NamesKinds(config), NEW key, NEW wanted, Serves(key, wanted),
         Argument(config, key) # Unset
  PROVE  Fits(Argument(config, key).kind, wanted)
<1>1. CASE key \in Written BY <1>1 DEF Argument, NamesKinds, Serves
<1>2. CASE key \notin Written
  <2>1. key \in OuterKeys \cup Literals /\ Argument(config, key) = At(key, 0)
    BY <1>2 DEF Argument
  <2>2. Argument(config, key).kind = key BY <2>1 DEF At
  <2> QED BY <2>1, <2>2 DEF Serves
<1> QED BY <1>1, <1>2

LEMMA DeployKeeps ==
  ASSUME DeploymentInv, NEW o \in Operators, Deploy(o)
  PROVE  DeploymentInv'
<1> DEFINE r == run[o]
           arguments == Arguments(r.config, r.script)
           address == At(r.script.contract.name, Cardinality(created) + 1)
           d == [at |-> address, takes |-> r.script.contract.takes, with |-> arguments]
           after == IF r.script.key = "none" THEN Idle
                    ELSE [phase |-> "deployed", script |-> r.script, config |-> r.config,
                          since |-> r.since, at |-> address]
<1>1. /\ r.phase = "loaded" /\ \A i \in DOMAIN arguments : arguments[i] # Unset
      /\ Accepts(r.script.contract, Kinds(arguments))
      /\ created' = created \cup {d} /\ run' = [run EXCEPT ![o] = after]
      /\ now' = now /\ file' = file /\ recorded' = recorded
  BY DEF Deploy
<1>2. /\ now \in Nat /\ FileAt(file, now, created, recorded) /\ Past(recorded, now)
      /\ run = [p \in Operators |-> run[p]] /\ WiredIn(created)
      /\ \A p \in Operators : Running(run[p], created, recorded, now)
  BY DEF DeploymentInv
<1>3. Loaded(r, created, recorded, now) BY <1>1, <1>2 DEF Running, Idle
<1>4. ASSUME NEW i \in DOMAIN arguments
      PROVE  Fits(arguments[i].kind, r.script.contract.takes[i].kind)
  <2>1. DOMAIN arguments = DOMAIN r.script.args BY DEF Arguments
  <2>2. arguments[i] = Argument(r.config, r.script.args[i]) BY <2>1 DEF Arguments
  <2>3. Len(r.script.args) = Len(r.script.contract.takes)
    <3> DEFINE n == Len(r.script.args)
    <3>2. n \in Nat /\ DOMAIN r.script.args = 1 .. n
      BY <1>3, ArgumentsListed DEF Loaded, Listed
    <3>3. Kinds(arguments) = [j \in 1 .. n |-> arguments[j].kind]
      BY <2>1, <3>2 DEF Kinds
    <3>4. Len(Kinds(arguments)) = n BY <3>2, <3>3
    <3> QED BY <1>1, <3>4 DEF Accepts
  <2>4. Serves(r.script.args[i], r.script.contract.takes[i].kind)
    BY <1>3, <2>1, <2>3, ScriptsFit DEF Loaded, Fitting
  <2>5. NamesKinds(r.config) BY <1>3 DEF Loaded, FileAt
  <2> QED BY <1>1, <2>2, <2>4, <2>5, ArgumentFits
<1>5. WiredIn(created')
  <2>1. d.with = arguments /\ d.takes = r.script.contract.takes OBVIOUS
  <2> HIDE DEF d
  <2> QED BY <1>1, <1>2, <1>4, <2>1 DEF WiredIn
<1>6. Running(after, created', recorded, now)
  <2>1. d \in created' /\ d.at = address BY <1>1
  <2>2. address.kind = r.script.contract.name BY DEF At
  <2>3. FileAt(r.config, r.since, created', recorded)
    BY <1>1, <1>3, FileStays DEF Loaded
  <2> HIDE DEF d, address
  <2> QED BY <1>3, <2>1, <2>2, <2>3 DEF Running, Loaded, Recordable
<1>7. FileAt(file, now, created', recorded) BY <1>1, <1>2, FileStays
<1>8. \A p \in Operators : Running(run[p], created', recorded, now)
  BY <1>1, <1>2, RunStays
<1> HIDE DEF after
<1>9. /\ run' = [p \in Operators |-> run'[p]]
      /\ \A p \in Operators : Running(run'[p], created', recorded, now)
  BY <1>1, <1>2, <1>6, <1>8
<1> QED BY <1>1, <1>2, <1>5, <1>7, <1>9 DEF DeploymentInv

LEMMA WriteKeeps ==
  ASSUME DeploymentInv, NEW o \in Operators, writeConfigFile(o)
  PROVE  DeploymentInv'
<1> DEFINE r == run[o]
           k == r.script.key
           q == [key |-> k, at |-> r.at, loaded |-> r.since, written |-> now]
<1>1. /\ r.phase = "deployed" /\ file' = [r.config EXCEPT ![k] = r.at]
      /\ recorded' = recorded \cup {q} /\ now' = now + 1
      /\ run' = [run EXCEPT ![o] = Idle] /\ created' = created
  BY DEF writeConfigFile
<1>2. /\ now \in Nat /\ FileAt(file, now, created, recorded) /\ Past(recorded, now)
      /\ run = [p \in Operators |-> run[p]] /\ WiredIn(created)
      /\ \A p \in Operators : Running(run[p], created, recorded, now)
  BY DEF DeploymentInv
<1>3. Loaded(r, created, recorded, now) /\ Recordable(r, created)
  BY <1>1, <1>2 DEF Running, Idle
<1>4. k \in Written /\ <<k, r.at.kind>> \in Names
  BY <1>3, NamesRight DEF Loaded, Recordable, Written
<1>5. q.key = k /\ q.at = r.at /\ q.loaded = r.since /\ q.written = now OBVIOUS
<1> HIDE DEF q
<1>6. /\ file' = [key \in Written |-> file'[key]] /\ file'[k] = r.at
      /\ \A key \in Written \ {k} : file'[key] = r.config[key]
  BY <1>1, <1>3, <1>4 DEF Loaded, FileAt
<1>7. NamesDeployed(file', created)
  BY <1>3, <1>6 DEF Loaded, Recordable, FileAt, NamesDeployed
<1>8. NamesKinds(file')
  BY <1>3, <1>4, <1>6 DEF Loaded, FileAt, NamesKinds
<1>9. Holds(file', now + 1, recorded')
  <2>1. ASSUME NEW p \in recorded, file'[p.key] # p.at PROVE Replaced(p, recorded')
    <3>1. p.key \in Written /\ p.written \in Nat /\ p.written < now
      BY <1>2 DEF Past
    <3>2. CASE p.key = k BY <1>1, <1>5, <3>1, <3>2 DEF Replaced
    <3>3. CASE r.since < p.written BY <1>1, <1>5, <3>1, <3>3 DEF Replaced
    <3>4. CASE p.key # k /\ ~(r.since < p.written)
      <4>1. r.config[p.key] # p.at BY <1>6, <2>1, <3>1, <3>4
      <4>2. p.written <= r.since BY <1>3, <3>1, <3>4 DEF Loaded
      <4>3. Replaced(p, recorded) BY <1>3, <4>1, <4>2 DEF Loaded, FileAt, Holds
      <4> QED BY <1>1, <4>3 DEF Replaced
    <3> QED BY <3>2, <3>3, <3>4
  <2>2. file'[q.key] = q.at BY <1>5, <1>6
  <2> QED BY <1>1, <2>1, <2>2 DEF Holds
<1>10. Past(recorded', now + 1) BY <1>1, <1>2, <1>4, <1>5 DEF Past
<1>11. \A p \in Operators : Running(run[p], created, recorded', now + 1)
  BY <1>1, <1>2, <1>5, RunSpared
<1>12. /\ run' = [p \in Operators |-> run'[p]]
       /\ \A p \in Operators : Running(run'[p], created, recorded', now + 1)
  BY <1>1, <1>2, <1>11 DEF Running
<1> QED BY <1>1, <1>2, <1>6, <1>7, <1>8, <1>9, <1>10, <1>12 DEF DeploymentInv, FileAt

LEMMA StopKeeps ==
  ASSUME DeploymentInv, NEW o \in Operators, Stop(o)
  PROVE  DeploymentInv'
<1>1. /\ run' = [run EXCEPT ![o] = Idle] /\ created' = created /\ file' = file
      /\ recorded' = recorded /\ now' = now
  BY DEF Stop
<1>2. /\ run' = [p \in Operators |-> run'[p]]
      /\ \A p \in Operators : Running(run'[p], created, recorded, now)
  BY <1>1 DEF DeploymentInv, Running
<1> QED BY <1>1, <1>2 DEF DeploymentInv

(* The invariant holds throughout, however the operators' scripts overlap and die. *)
THEOREM DeploymentInvariance == Spec => []DeploymentInv
<1>1. DeploymentInv /\ [Next]_vars => DeploymentInv'
  <2> SUFFICES ASSUME DeploymentInv, [Next]_vars PROVE DeploymentInv'
    OBVIOUS
  <2>1. CASE UNCHANGED vars BY <2>1 DEF vars, DeploymentInv
  <2>2. CASE Next BY <2>2, LoadKeeps, DeployKeeps, WriteKeeps, StopKeeps DEF Next
  <2> QED BY <2>1, <2>2
<1> QED BY <1>1, InitInv, PTL DEF Spec

(* Every contract that any sequence of runs creates is wired to contracts of the *)
(* kinds its initializer declares.                                               *)
THEOREM DeployedWired == Spec => []Wired
<1>1. DeploymentInv => Wired BY DEF DeploymentInv, Wired, WiredIn
<1> QED BY <1>1, DeploymentInvariance, PTL

(* No key of the file ever names a contract that was not deployed.               *)
THEOREM NoDanglingName == Spec => []FileNamesDeployed
<1>1. DeploymentInv => FileNamesDeployed
  BY DEF DeploymentInv, FileAt, NamesDeployed, FileNamesDeployed
<1> QED BY <1>1, DeploymentInvariance, PTL

(* Only a run that overlapped another, or recorded the same key, can make the    *)
(* file forget what the other recorded.                                          *)
THEOREM RecordsKept == Spec => []KeptUnlessOverlapped
<1>1. DeploymentInv => KeptUnlessOverlapped
  BY DEF DeploymentInv, FileAt, Holds, Past, Replaced, KeptUnlessOverlapped
<1> QED BY <1>1, DeploymentInvariance, PTL
====================================================================================
