-------------------------------- MODULE Contracts --------------------------------
\* The contracts the deployment scripts create: what the initializer (or the
\* constructor) of each one takes, in the order of its parameters, which getters
\* it calls on an argument before it accepts it ("sanity check" in the source),
\* and which of those getters the contract itself answers.  An address counts
\* for what lives there: the name of the contract, or, for a contract of
\* somebody else, the key of the config file that names it.

EXTENDS Sequences

Contract(name, answers, takes) == [name |-> name, answers |-> answers, takes |-> takes]

\* A parameter stored as it comes, and one the initializer first calls.
Of(kind) == [kind |-> kind, asks |-> {}]
Asked(kind, getters) == [kind |-> kind, asks |-> getters]

AdaptiveFeeCalculator ==
  Contract("AdaptiveFeeCalculator", {},
           <<Of("value"), Of("value")>>)

BotHandler ==
  Contract("BotHandler", {},
           <<Asked("TradeService", {"configStorage"}),
             Asked("LiquidationService", {"perpStorage"}), Of("CrossMarginService"),
             Asked("IEcoPyth", {"getAssetIds"})>>)

BulkSendErc20 == Contract("BulkSendErc20", {}, <<>>)

CIXPriceAdapter == Contract("CIXPriceAdapter", {}, <<>>)

CalcPriceLens == Contract("CalcPriceLens", {}, <<>>)

Calculator ==
  Contract("Calculator", {"configStorage", "perpStorage", "oracle", "vaultStorage"},
           <<Of("OracleMiddleware"), Asked("VaultStorage", {"hlpLiquidityDebtUSDE30"}),
             Asked("PerpStorage", {"getGlobalState"}),
             Asked("ConfigStorage", {"getLiquidityConfig"})>>)

ChronicleOraclePriceAdapter ==
  Contract("ChronicleOraclePriceAdapter", {},
           <<Of("account")>>)

CollateralReader ==
  Contract("CollateralReader", {"configStorage", "vaultStorage"},
           <<Of("VaultStorage"), Of("ConfigStorage")>>)

ConfigStorage ==
  Contract("ConfigStorage", {"getLiquidityConfig", "calculator", "oracle", "sglp"},
           <<>>)

ConvertedGlpStrategy ==
  Contract("ConvertedGlpStrategy", {"sglp", "vaultStorage"},
           <<Of("tokens.sglp"), Of("vendors.gmx.rewardRouterV2"), Of("VaultStorage")>>)

CrossMarginHandler ==
  Contract("CrossMarginHandler", {},
           <<Asked("CrossMarginService", {"vaultStorage"}),
             Asked("IEcoPyth", {"getAssetIds"}), Of("value"), Of("value")>>)

CrossMarginService ==
  Contract("CrossMarginService", {"configStorage", "perpStorage", "calculator", "vaultStorage"},
           <<Asked("ConfigStorage", {"calculator"}), Asked("VaultStorage", {"devFees"}),
             Asked("PerpStorage", {"getGlobalState"}), Asked("Calculator", {"oracle"}),
             Asked("ConvertedGlpStrategy", {"sglp"})>>)

CurveDexter == Contract("CurveDexter", {}, <<Of("tokens.weth")>>)

DLP == Contract("DLP", {}, <<Of("token")>>)

DistributeSTIPARBStrategy ==
  Contract("DistributeSTIPARBStrategy", {"vaultStorage"},
           <<Of("VaultStorage"), Of("account"), Of("tokens.arb"), Of("value"),
             Of("account"), Of("ERC20ApproveStrategy")>>)

ERC20ApproveStrategy ==
  Contract("ERC20ApproveStrategy", {"vaultStorage"},
           <<Of("VaultStorage")>>)

EcoPyth == Contract("EcoPyth", {"getAssetIds"}, <<>>)

EcoPyth2 == Contract("EcoPyth2", {"getAssetIds"}, <<>>)

EcoPythCalldataBuilder ==
  Contract("EcoPythCalldataBuilder", {},
           <<Of("IEcoPyth"), Of("vendors.gmx.glpManager"), Of("tokens.sglp")>>)

EcoPythCalldataBuilder2 ==
  Contract("EcoPythCalldataBuilder2", {},
           <<Of("IEcoPyth"), Of("OnChainPriceLens"), Of("value")>>)

EcoPythCalldataBuilder3 ==
  Contract("EcoPythCalldataBuilder3", {},
           <<Of("IEcoPyth"), Of("OnChainPriceLens"), Of("CalcPriceLens"), Of("value")>>)

Ext01Handler ==
  Contract("Ext01Handler", {},
           <<Asked("CrossMarginService", {"vaultStorage"}),
             Asked("LiquidationService", {"vaultStorage"}),
             Asked("LiquidityService", {"vaultStorage"}),
             Asked("TradeService", {"vaultStorage"}), Asked("IEcoPyth", {"getAssetIds"})>>)

ExternalRebalancer ==
  Contract("ExternalRebalancer", {"calculator", "vaultStorage"},
           <<Of("VaultStorage"), Of("Calculator"), Of("value")>>)

GasService ==
  Contract("GasService", {"configStorage", "vaultStorage"},
           <<Of("VaultStorage"), Of("ConfigStorage"), Of("value"), Of("account"),
             Of("value")>>)

GlpDexter ==
  Contract("GlpDexter", {},
           <<Of("tokens.weth"), Of("tokens.sglp"), Of("vendors.gmx.glpManager"),
             Of("vendors.gmx.gmxVault"), Of("vendors.gmx.rewardRouterV2")>>)

GlpPriceAdapter ==
  Contract("GlpPriceAdapter", {},
           <<Of("tokens.sglp"), Of("vendors.gmx.glpManager")>>)

GmPriceAdapter ==
  Contract("GmPriceAdapter", {},
           <<Of("vendors.gmxV2.reader"), Of("vendors.gmxV2.dataStore"), Of("token"),
             Of("token"), Of("value"), Of("token"), Of("value"), Of("token"), Of("value"),
             Of("value"), Of("value"), Of("value")>>)

HLP == Contract("HLP", {}, <<>>)

HlpPriceAdapter ==
  Contract("HlpPriceAdapter", {"calculator"},
           <<Of("HLP"), Of("Calculator")>>)

IntentHandler ==
  Contract("IntentHandler", {"configStorage"},
           <<Of("IEcoPyth"), Of("ConfigStorage"), Of("TradeOrderHelper"), Of("GasService")>>)

LimitTradeHandler ==
  Contract("LimitTradeHandler", {},
           <<Of("tokens.weth"), Asked("TradeService", {"perpStorage"}),
             Asked("IEcoPyth", {"getAssetIds"}), Of("value"), Of("value")>>)

LimitTradeHelper ==
  Contract("LimitTradeHelper", {"configStorage", "perpStorage"},
           <<Of("ConfigStorage"), Of("PerpStorage")>>)

LiquidationReader ==
  Contract("LiquidationReader", {},
           <<Of("PerpStorage"), Of("Calculator")>>)

LiquidationService ==
  Contract("LiquidationService", {"configStorage", "perpStorage", "calculator", "vaultStorage"},
           <<Asked("PerpStorage", {"getGlobalState"}),
             Asked("VaultStorage", {"hlpLiquidityDebtUSDE30"}),
             Asked("ConfigStorage", {"getLiquidityConfig", "calculator"}),
             Asked("TradeHelper", {"perpStorage"})>>)

LiquidityHandler ==
  Contract("LiquidityHandler", {},
           <<Asked("LiquidityService", {"perpStorage"}),
             Asked("IEcoPyth", {"getAssetIds"}), Of("value"), Of("value")>>)

LiquidityService ==
  Contract("LiquidityService", {"configStorage", "perpStorage", "vaultStorage"},
           <<Asked("PerpStorage", {"getGlobalState"}),
             Asked("VaultStorage", {"hlpLiquidityDebtUSDE30"}),
             Asked("ConfigStorage", {"getLiquidityConfig"})>>)

OnChainPriceLens == Contract("OnChainPriceLens", {}, <<>>)

OracleMiddleware == Contract("OracleMiddleware", {}, <<Of("value")>>)

OrderReader ==
  Contract("OrderReader", {},
           <<Of("ConfigStorage"), Of("PerpStorage"), Of("OracleMiddleware"),
             Of("LimitTradeHandler")>>)

OrderbookOracle == Contract("OrderbookOracle", {}, <<>>)

PerpStorage == Contract("PerpStorage", {"getGlobalState"}, <<>>)

PositionReader ==
  Contract("PositionReader", {},
           <<Of("ConfigStorage"), Of("PerpStorage"), Of("OracleMiddleware"),
             Of("Calculator")>>)

PythAdapter == Contract("PythAdapter", {}, <<Of("IEcoPyth")>>)

RebalanceHLPHandler ==
  Contract("RebalanceHLPHandler", {"sglp", "vaultStorage"},
           <<Asked("RebalanceHLPService", {"vaultStorage", "sglp"}), Of("IEcoPyth")>>)

RebalanceHLPService ==
  Contract("RebalanceHLPService", {"configStorage", "calculator", "sglp", "vaultStorage"},
           <<Of("tokens.sglp"), Of("vendors.gmx.rewardRouterV2"),
             Of("vendors.gmx.glpManager"), Of("VaultStorage"), Of("ConfigStorage"),
             Of("Calculator"), Of("SwitchCollateralRouter"), Of("value")>>)

RebalanceHLPv2Handler ==
  Contract("RebalanceHLPv2Handler", {},
           <<Of("RebalanceHLPv2Service"), Asked("tokens.weth", {"safeApprove"}),
             Of("value")>>)

RebalanceHLPv2Service ==
  Contract("RebalanceHLPv2Service", {"configStorage", "vaultStorage"},
           <<Of("tokens.weth"), Of("VaultStorage"), Of("ConfigStorage"),
             Of("vendors.gmxV2.exchangeRouter"), Of("vendors.gmxV2.depositVault"),
             Of("vendors.gmxV2.depositHandler"), Of("vendors.gmxV2.withdrawalVault"),
             Of("vendors.gmxV2.withdrawalHandler")>>)

StakedGlpOracleAdapter ==
  Contract("StakedGlpOracleAdapter", {},
           <<Of("tokens.sglp"), Asked("vendors.gmx.glpManager", {"getAum"}), Of("value")>>)

StakedGlpStrategy ==
  Contract("StakedGlpStrategy", {"sglp", "vaultStorage"},
           <<Of("tokens.sglp"), Of("vendors.gmx.rewardRouterV2"),
             Asked("vendors.gmx.rewardTracker", {"rewardToken"}),
             Of("vendors.gmx.glpManager"), Of("OracleMiddleware"), Of("VaultStorage"),
             Of("account"), Of("value")>>)

SwitchCollateralRouter == Contract("SwitchCollateralRouter", {}, <<>>)

TLCHook ==
  Contract("TLCHook", {},
           <<Asked("TradeService", {"configStorage"}),
             Asked("tokens.traderLoyaltyCredit", {"symbol"}), Of("staking.tlc")>>)

Timelock == Contract("Timelock", {}, <<Of("account"), Of("value")>>)

TradeHelper ==
  Contract("TradeHelper", {"configStorage", "perpStorage", "calculator", "vaultStorage"},
           <<Asked("PerpStorage", {"getGlobalState"}), Asked("VaultStorage", {"devFees"}),
             Asked("ConfigStorage", {"calculator"})>>)

TradeOrderHelper ==
  Contract("TradeOrderHelper", {"configStorage", "perpStorage", "oracle"},
           <<Of("ConfigStorage"), Of("PerpStorage"), Of("OracleMiddleware"),
             Of("TradeService")>>)

TradeService ==
  Contract("TradeService", {"configStorage", "perpStorage", "calculator", "vaultStorage"},
           <<Asked("PerpStorage", {"getGlobalState"}),
             Asked("VaultStorage", {"hlpLiquidityDebtUSDE30"}),
             Asked("ConfigStorage", {"getLiquidityConfig", "calculator"}),
             Of("TradeHelper")>>)

TradingStakingHook ==
  Contract("TradingStakingHook", {},
           <<Asked("staking.trading", {"isRewarder"}),
             Asked("TradeService", {"configStorage"})>>)

UniswapDexter ==
  Contract("UniswapDexter", {},
           <<Of("vendors.uniswap.permit2"), Of("vendors.uniswap.universalRouter")>>)

UnsafeEcoPythCalldataBuilder ==
  Contract("UnsafeEcoPythCalldataBuilder", {},
           <<Of("IEcoPyth"), Of("vendors.gmx.glpManager"), Of("tokens.sglp")>>)

UnsafeEcoPythCalldataBuilder2 ==
  Contract("UnsafeEcoPythCalldataBuilder2", {},
           <<Of("IEcoPyth"), Of("OnChainPriceLens"), Of("value")>>)

UnsafeEcoPythCalldataBuilder3 ==
  Contract("UnsafeEcoPythCalldataBuilder3", {},
           <<Of("IEcoPyth"), Of("OnChainPriceLens"), Of("CalcPriceLens"), Of("value")>>)

VaultStorage == Contract("VaultStorage", {"hlpLiquidityDebtUSDE30", "devFees"}, <<>>)

WstEthUsdPriceAdapter ==
  Contract("WstEthUsdPriceAdapter", {},
           <<Asked("vendors.chainlink.wstEthEthPriceFeed", {"decimals"}),
             Asked("vendors.chainlink.ethUsdPriceFeed", {"decimals"})>>)

\* The account factory is not in the repository; its constructor takes the
\* entry point.
HmxAccountFactory ==
  Contract("HmxAccountFactory", {}, <<Of("accountAbstraction.entryPoint")>>)

Contracts == {
  AdaptiveFeeCalculator, BotHandler, BulkSendErc20, CIXPriceAdapter, CalcPriceLens,
  Calculator, ChronicleOraclePriceAdapter, CollateralReader, ConfigStorage,
  ConvertedGlpStrategy, CrossMarginHandler, CrossMarginService, CurveDexter, DLP,
  DistributeSTIPARBStrategy, ERC20ApproveStrategy, EcoPyth, EcoPyth2,
  EcoPythCalldataBuilder, EcoPythCalldataBuilder2, EcoPythCalldataBuilder3, Ext01Handler,
  ExternalRebalancer, GasService, GlpDexter, GlpPriceAdapter, GmPriceAdapter, HLP,
  HlpPriceAdapter, IntentHandler, LimitTradeHandler, LimitTradeHelper, LiquidationReader,
  LiquidationService, LiquidityHandler, LiquidityService, OnChainPriceLens,
  OracleMiddleware, OrderReader, OrderbookOracle, PerpStorage, PositionReader,
  PythAdapter, RebalanceHLPHandler, RebalanceHLPService, RebalanceHLPv2Handler,
  RebalanceHLPv2Service, StakedGlpOracleAdapter, StakedGlpStrategy,
  SwitchCollateralRouter, TLCHook, Timelock, TradeHelper, TradeOrderHelper, TradeService,
  TradingStakingHook, UniswapDexter, UnsafeEcoPythCalldataBuilder,
  UnsafeEcoPythCalldataBuilder2, UnsafeEcoPythCalldataBuilder3, VaultStorage,
  WstEthUsdPriceAdapter, HmxAccountFactory}

\* Contracts of others, known by the key that names them, and the calls the
\* initializers make on them.
OuterAnswers(key) ==
  CASE key = "tokens.traderLoyaltyCredit" -> {"symbol"}
    [] key = "staking.trading" -> {"isRewarder"}
    [] key = "tokens.weth" -> {"safeApprove"}
    [] key = "vendors.gmx.glpManager" -> {"getAum"}
    [] key = "vendors.gmx.rewardTracker" -> {"rewardToken"}
    [] key \in {"vendors.chainlink.wstEthEthPriceFeed", "vendors.chainlink.ethUsdPriceFeed"}
         -> {"decimals"}
    [] OTHER -> {}

\* What answers at an address that holds kind.
Answers(kind) ==
  IF \E c \in Contracts : c.name = kind
  THEN UNION {c.answers : c \in {d \in Contracts : d.name = kind}}
  ELSE OuterAnswers(kind)

Tokens == {"tokens.weth", "tokens.wbtc", "tokens.usdcNative", "tokens.gmBTCUSD",
           "tokens.gmETHUSD", "tokens.sglp", "tokens.arb", "HLP", "account"}

\* An argument of kind may stand where a parameter of kind wanted is declared:
\* IEcoPyth is the interface of both price feeds, any token is an IERC20.
Fits(kind, wanted) ==
  CASE wanted = "IEcoPyth" -> kind \in {"EcoPyth", "EcoPyth2"}
    [] wanted = "token" -> kind \in Tokens
    [] OTHER -> kind = wanted

\* The initializer accepts the arguments: as many as it has parameters, and
\* every getter it calls is there.
Accepts(c, kinds) ==
  /\ Len(kinds) = Len(c.takes)
  /\ \A i \in DOMAIN kinds : c.takes[i].asks \subseteq Answers(kinds[i])
==================================================================================
