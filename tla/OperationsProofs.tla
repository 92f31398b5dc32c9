---------------------------- MODULE OperationsProofs ----------------------------
(* Theorems about Operations, for any operators, shifts, delays and margins: what  *)
(* the scripts are, the invariant in its three parts (Sound, Orderly, Fed), one    *)
(* lemma for each action and part, and the properties.                             *)
EXTENDS Operations, FiniteSetTheorems, SequenceTheorems, WellFoundedInduction, TLAPS

(* What every step of every script is: the setters whose effect other properties   *)
(* need are where they should be; what the wrappers route goes to the one Safe.    *)
StepFields ==
  {"via", "to", "fn", "safe", "nonce", "waits", "grantee", "holder", "takes", "fills",
   "ifFull", "proxy", "code"}
GoodStep(step) ==
  /\ DOMAIN step = StepFields
  /\ step.safe \in Safes /\ step.nonce \in Nat
  /\ step.fn \notin {"queueTransaction", "none"}
  /\ step.fn = "setPyth" => step.to \in Feeds
  /\ step.fn = "transferOwnership" => step.to \notin Feeds
  /\ step.via \in {"auth", "checked", "upgrade", "admin"} => step.safe = "safe"
  /\ step.via = "admin" => step.fn = "executeTransaction"
  /\ step.via = "upgrade" => step.to = "proxyAdmin" /\ step.fn = "upgrade"
  /\ step.via = "burst" => step.nonce = 0 /\ ~step.ifFull /\ step.holder = "none"
  /\ step.fn = "upgrade" =>
       \E s \in Deployed!DeployScripts : s.key = step.proxy /\ s.contract.name = step.code

(* A script is a burst as a whole, or no step of it is sent in a burst.            *)
Bursting(s) == \A i \in DOMAIN s : s[i].via = "burst"
GoodScript(s) ==
  /\ Len(s) \in Nat /\ DOMAIN s = 1 .. Len(s) /\ (Len(s) > 0 \/ s = <<>>)
  /\ \A i \in DOMAIN s : GoodStep(s[i])
  /\ Bursting(s) \/ \A i \in DOMAIN s : s[i].via # "burst"

(* Steps stay good with another grantee, condition or balance; so do those of the  *)
(* other Safe, if no wrapper routes them.                                          *)
Unsent(step, via) == GoodStep(step) /\ step.via = via /\ via # "burst"
LEMMA VariantsGood ==
  /\ \A step, via, x : Unsent(step, via) => Unsent(For(x, step), via)
  /\ \A step, via, x : Unsent(step, via) => Unsent(UnlessHeldBy(x, step), via)
  /\ \A step, via, x, y : Unsent(step, via) => Unsent(Moving(x, y, step), via)
  /\ \A step, via : Unsent(step, via) => Unsent(IfAny(step), via)
  /\ \A step, via : \A x \in Nat : Unsent(step, via) => Unsent(ProposeAt(x, step), via)
  /\ \A step : Unsent(step, "propose") => Unsent(OfTreasury(step), "propose")
<1> SUFFICES ASSUME NEW step, NEW via, Unsent(step, via), NEW x, NEW y
             PROVE  /\ Unsent(For(x, step), via)
                    /\ Unsent(UnlessHeldBy(x, step), via)
                    /\ Unsent(Moving(x, y, step), via)
                    /\ Unsent(IfAny(step), via)
                    /\ x \in Nat => Unsent(ProposeAt(x, step), via)
                    /\ via = "propose" => Unsent(OfTreasury(step), via)
  OBVIOUS
<1>1. Unsent(For(x, step), via) BY DEF Unsent, GoodStep, StepFields, For
<1>2. Unsent(UnlessHeldBy(x, step), via) BY DEF Unsent, GoodStep, StepFields, UnlessHeldBy
<1>3. Unsent(Moving(x, y, step), via) BY DEF Unsent, GoodStep, StepFields, Moving
<1>4. Unsent(IfAny(step), via) BY DEF Unsent, GoodStep, StepFields, IfAny
<1>5. x \in Nat => Unsent(ProposeAt(x, step), via)
  BY DEF Unsent, GoodStep, StepFields, ProposeAt
<1>6. via = "propose" => Unsent(OfTreasury(step), via)
  BY DEF Unsent, GoodStep, StepFields, OfTreasury, Safes
<1> QED BY <1>1, <1>2, <1>3, <1>4, <1>5, <1>6

LEMMA ConfigScriptsGood == \A s \in ConfigScripts : GoodScript(s)
<1>1. GoodScript(BotHandlerSetPositionManager)
  <2>1. Unsent(Propose("handlers.bot", "setPositionManagers"), "propose")
    BY DEF Unsent, GoodStep, StepFields, Safes, Step, Propose
  <2> QED BY <2>1, VariantsGood
        DEF GoodScript, Unsent, BotHandlerSetPositionManager
<1>2. GoodScript(CIXPriceAdapterSetConfig)
  BY DEF GoodScript, Bursting, GoodStep, StepFields, Safes, Step, Checked,
      CIXPriceAdapterSetConfig
<1>3. GoodScript(CalcPriceLensSetPriceAdapters)
  BY DEF GoodScript, Bursting, GoodStep, StepFields, Safes, Step, CheckedSent,
      CalcPriceLensSetPriceAdapters
<1>4. GoodScript(CalculatorSetTradeHelper)
  BY DEF GoodScript, Bursting, GoodStep, StepFields, Safes, Step, Checked,
      CalculatorSetTradeHelper
<1>5. GoodScript(ConfigStorageAddAssetClass)
  BY DEF GoodScript, Bursting, GoodStep, StepFields, Safes, Step, Direct,
      ConfigStorageAddAssetClass
<1>6. GoodScript(ConfigStorageAddMarketConfig)
  BY DEF GoodScript, Bursting, GoodStep, StepFields, Safes, Step, Propose, ForEach,
      ConfigStorageAddMarketConfig
<1>7. GoodScript(ConfigStorageAddOrUpdateAcceptedToken)
  BY DEF GoodScript, Bursting, GoodStep, StepFields, Safes, Step, Propose,
      ConfigStorageAddOrUpdateAcceptedToken
<1>8. GoodScript(ConfigStorageAddStepMinProfitDuration)
  BY DEF GoodScript, Bursting, GoodStep, StepFields, Safes, Step, Auth,
      ConfigStorageAddStepMinProfitDuration
<1>9. GoodScript(ConfigStorageRemoveLastStepMinProfitDuration)
  BY DEF GoodScript, Bursting, GoodStep, StepFields, Safes, Step, Auth,
      ConfigStorageRemoveLastStepMinProfitDuration
<1>10. GoodScript(ConfigStorageSetAssetClassConfigByIndex)
  BY DEF GoodScript, Bursting, GoodStep, StepFields, Safes, Step, Propose, ForEach,
      ConfigStorageSetAssetClassConfigByIndex
<1>11. GoodScript(ConfigStorageSetAssetConfigs)
  BY DEF GoodScript, Bursting, GoodStep, StepFields, Safes, Step, Propose,
      ConfigStorageSetAssetConfigs
<1>12. GoodScript(ConfigStorageSetCalculator)
  BY DEF GoodScript, Bursting, GoodStep, StepFields, Safes, Step, Direct,
      ConfigStorageSetCalculator
<1>13. GoodScript(ConfigStorageSetCollateralConfigs)
  BY DEF GoodScript, Bursting, GoodStep, StepFields, Safes, Step, Propose,
      ConfigStorageSetCollateralConfigs
<1>14. GoodScript(ConfigStorageSetConfigExecutor)
  <2>1. Unsent(Auth("storages.config", "setConfigExecutor"), "auth")
    BY DEF Unsent, GoodStep, StepFields, Safes, Step, Auth
  <2> QED BY <2>1, VariantsGood
        DEF GoodScript, Unsent, ForEach, ConfigStorageSetConfigExecutor
<1>15. GoodScript(ConfigStorageSetHlp)
  BY DEF GoodScript, Bursting, GoodStep, StepFields, Safes, Step, Direct,
      ConfigStorageSetHlp
<1>16. GoodScript(ConfigStorageSetIsStepMinProfitEnabledByMarketIndex)
  BY DEF GoodScript, Bursting, GoodStep, StepFields, Safes, Step, Auth,
      ConfigStorageSetIsStepMinProfitEnabledByMarketIndex
<1>17. GoodScript(ConfigStorageSetLiquidationConfig)
  BY DEF GoodScript, Bursting, GoodStep, StepFields, Safes, Step, Direct,
      ConfigStorageSetLiquidationConfig
<1>18. GoodScript(ConfigStorageSetLiquidityConfig)
  BY DEF GoodScript, Bursting, GoodStep, StepFields, Safes, Step, Auth,
      ConfigStorageSetLiquidityConfig
<1>19. GoodScript(ConfigStorageSetMakerTakerFeeByMarketIndexes)
  BY DEF GoodScript, Bursting, GoodStep, StepFields, Safes, Step, Auth,
      ConfigStorageSetMakerTakerFeeByMarketIndexes
<1>20. GoodScript(ConfigStorageSetMarketConfig)
  BY DEF GoodScript, Bursting, GoodStep, StepFields, Safes, Step, Auth, ForEach,
      ConfigStorageSetMarketConfig
<1>21. GoodScript(ConfigStorageSetMarketImfAndMaxProfit)
  BY DEF GoodScript, Bursting, GoodStep, StepFields, Safes, Step, Direct,
      ConfigStorageSetMarketImfAndMaxProfit
<1>22. GoodScript(ConfigStorageSetMarketMaxOi)
  BY DEF GoodScript, Bursting, GoodStep, StepFields, Safes, Step, Direct,
      ConfigStorageSetMarketMaxOi
<1>23. GoodScript(ConfigStorageSetMinProfitDurations)
  BY DEF GoodScript, Bursting, GoodStep, StepFields, Safes, Step, Checked,
      ConfigStorageSetMinProfitDurations
<1>24. GoodScript(ConfigStorageSetMinimumPositionSize)
  BY DEF GoodScript, Bursting, GoodStep, StepFields, Safes, Step, Direct,
      ConfigStorageSetMinimumPositionSize
<1>25. GoodScript(ConfigStorageSetOracle)
  BY DEF GoodScript, Bursting, GoodStep, StepFields, Safes, Step, Direct,
      ConfigStorageSetOracle
<1>26. GoodScript(ConfigStorageSetPnlFactor)
  BY DEF GoodScript, Bursting, GoodStep, StepFields, Safes, Step, Direct,
      ConfigStorageSetPnlFactor
<1>27. GoodScript(ConfigStorageSetServiceExecutors)
  <2>1. Unsent(Auth("storages.config", "setServiceExecutors"), "auth")
    BY DEF Unsent, GoodStep, StepFields, Safes, Step, Auth
  <2> QED BY <2>1, VariantsGood
        DEF GoodScript, Unsent, ConfigStorageSetServiceExecutors
<1>28. GoodScript(ConfigStorageSetStepMinProfitDuration)
  BY DEF GoodScript, Bursting, GoodStep, StepFields, Safes, Step, Auth,
      ConfigStorageSetStepMinProfitDuration
<1>29. GoodScript(ConfigStorageSetSwitchCollateralRouter)
  BY DEF GoodScript, Bursting, GoodStep, StepFields, Safes, Step, Checked,
      ConfigStorageSetSwitchCollateralRouter
<1>30. GoodScript(ConfigStorageSetTradeServiceHooks)
  BY DEF GoodScript, Bursting, GoodStep, StepFields, Safes, Step, Propose,
      ConfigStorageSetTradeServiceHooks
<1>31. GoodScript(ConfigStorageSetTradingConfig)
  BY DEF GoodScript, Bursting, GoodStep, StepFields, Safes, Step, Auth,
      ConfigStorageSetTradingConfig
<1>32. GoodScript(ConfigStorageSetWeth)
  BY DEF GoodScript, Bursting, GoodStep, StepFields, Safes, Step, Direct,
      ConfigStorageSetWeth
<1>33. GoodScript(CrossMarginHandlerSetBanlist)
  BY DEF GoodScript, Bursting, GoodStep, StepFields, Safes, Step, Auth,
      CrossMarginHandlerSetBanlist
<1>34. GoodScript(CrossMarginHandlerSetDeskVault)
  BY DEF GoodScript, Bursting, GoodStep, StepFields, Safes, Step, Auth,
      CrossMarginHandlerSetDeskVault
<1>35. GoodScript(CrossMarginHandlerSetOrderExecutor)
  <2>1. Unsent(Auth("handlers.crossMargin", "setOrderExecutor"), "auth")
    BY DEF Unsent, GoodStep, StepFields, Safes, Step, Auth
  <2> QED BY <2>1, VariantsGood
        DEF GoodScript, Unsent, CrossMarginHandlerSetOrderExecutor
<1>36. GoodScript(CurveDexterSetPoolConfigs)
  BY DEF GoodScript, Bursting, GoodStep, StepFields, Safes, Step, Direct, ForEach,
      CurveDexterSetPoolConfigs
<1>37. GoodScript(DistributeSTIPARBStrategySetWhitelistedExecutor)
  <2>1. Unsent(Checked("strategies.distributeSTIPARB", "setWhitelistedExecutor"), "checked")
    BY DEF Unsent, GoodStep, StepFields, Safes, Step, Checked
  <2> QED BY <2>1, VariantsGood
        DEF GoodScript, Unsent, DistributeSTIPARBStrategySetWhitelistedExecutor
<1>38. GoodScript(ERC20ApproveStrategySetWhitelistedExecutor)
  <2>1. Unsent(Checked("strategies.erc20Approve", "setWhitelistedExecutor"), "checked")
    BY DEF Unsent, GoodStep, StepFields, Safes, Step, Checked
  <2> QED BY <2>1, VariantsGood
        DEF GoodScript, Unsent, ERC20ApproveStrategySetWhitelistedExecutor
<1>39. GoodScript(EcoPythInsertAssetIds)
  BY DEF GoodScript, Bursting, GoodStep, StepFields, Safes, Step, Auth,
      EcoPythInsertAssetIds
<1>40. GoodScript(EcoPythSetUpdaters)
  <2>1. Unsent(Checked("oracles.ecoPyth2", "setUpdaters"), "checked")
    BY DEF Unsent, GoodStep, StepFields, Safes, Step, Checked
  <2> QED BY <2>1, VariantsGood
        DEF GoodScript, Unsent, EcoPythSetUpdaters
<1>41. GoodScript(Ext01HandlerSetMinExecutionFee)
  BY DEF GoodScript, Bursting, GoodStep, StepFields, Safes, Step, Auth, ForEach,
      Ext01HandlerSetMinExecutionFee
<1>42. GoodScript(Ext01HandlerSetOrderExecutor)
  <2>1. Unsent(Checked("handlers.ext01", "setOrderExecutor"), "checked")
    BY DEF Unsent, GoodStep, StepFields, Safes, Step, Checked
  <2> QED BY <2>1, VariantsGood
        DEF GoodScript, Unsent, Ext01HandlerSetOrderExecutor
<1>43. GoodScript(ExternalRebalancerSetWhitelistedExecutor)
  <2>1. Unsent(Auth("handlers.externalRebalancer", "addWhitelistedExecutor"), "auth")
    BY DEF Unsent, GoodStep, StepFields, Safes, Step, Auth
  <2> QED BY <2>1, VariantsGood
        DEF GoodScript, Unsent, ExternalRebalancerSetWhitelistedExecutor
<1>44. GoodScript(GasServiceSetGasPremiumBps)
  BY DEF GoodScript, Bursting, GoodStep, StepFields, Safes, Step, Auth,
      GasServiceSetGasPremiumBps
<1>45. GoodScript(GasServiceSetGasTokenAssetId)
  BY DEF GoodScript, Bursting, GoodStep, StepFields, Safes, Step, Auth,
      GasServiceSetGasTokenAssetId
<1>46. GoodScript(GasServiceSetParams)
  BY DEF GoodScript, Bursting, GoodStep, StepFields, Safes, Step, Auth, GasServiceSetParams
<1>47. GoodScript(GasServiceSetWaviedExecutionFeeMinTradeSize)
  BY DEF GoodScript, Bursting, GoodStep, StepFields, Safes, Step, Auth,
      GasServiceSetWaviedExecutionFeeMinTradeSize
<1>48. GoodScript(GenericHandlerSetMinExecutionFee)
  BY DEF GoodScript, Bursting, GoodStep, StepFields, Safes, Step, Auth,
      GenericHandlerSetMinExecutionFee
<1>49. GoodScript(HLPSetMinter)
  <2>1. Unsent(Direct("tokens.hlp", "setMinter"), "direct")
    BY DEF Unsent, GoodStep, StepFields, Safes, Step, Direct
  <2> QED BY <2>1, VariantsGood
        DEF GoodScript, Unsent, HLPSetMinter
<1>50. GoodScript(IntentHandlerSetIntentExecutor)
  <2>1. Unsent(Auth("handlers.intent", "setIntentExecutor"), "auth")
    BY DEF Unsent, GoodStep, StepFields, Safes, Step, Auth
  <2> QED BY <2>1, VariantsGood
        DEF GoodScript, Unsent, IntentHandlerSetIntentExecutor
<1>51. GoodScript(LimitTradeHandlerSetLimitTradeHelper)
  BY DEF GoodScript, Bursting, GoodStep, StepFields, Safes, Step, Propose,
      LimitTradeHandlerSetLimitTradeHelper
<1>52. GoodScript(LimitTradeHandlerSetMinExecutionFee)
  BY DEF GoodScript, Bursting, GoodStep, StepFields, Safes, Step, Auth,
      LimitTradeHandlerSetMinExecutionFee
<1>53. GoodScript(LimitTradeHandlerSetMinExecutionTimestamp)
  BY DEF GoodScript, Bursting, GoodStep, StepFields, Safes, Step, Propose,
      LimitTradeHandlerSetMinExecutionTimestamp
<1>54. GoodScript(LimitTradeHandlerSetOrderExecutor)
  <2>1. Unsent(Auth("handlers.limitTrade", "setOrderExecutor"), "auth")
    BY DEF Unsent, GoodStep, StepFields, Safes, Step, Auth
  <2> QED BY <2>1, VariantsGood
        DEF GoodScript, Unsent, LimitTradeHandlerSetOrderExecutor
<1>55. GoodScript(LimitTradeHandlerSetPositionSizeLimit)
  BY DEF GoodScript, Bursting, GoodStep, StepFields, Safes, Step, Direct,
      LimitTradeHandlerSetPositionSizeLimit
<1>56. GoodScript(LimitTradeHelperSetLimit)
  BY DEF GoodScript, Bursting, GoodStep, StepFields, Safes, Step, Auth,
      LimitTradeHelperSetLimit
<1>57. GoodScript(LiquidityHandlerPause)
  BY DEF GoodScript, Bursting, GoodStep, StepFields, Safes, Step, Auth,
      LiquidityHandlerPause
<1>58. GoodScript(LiquidityHandlerSetDlp)
  BY DEF GoodScript, Bursting, GoodStep, StepFields, Safes, Step, Auth,
      LiquidityHandlerSetDlp
<1>59. GoodScript(LiquidityHandlerSetHlpStaking)
  BY DEF GoodScript, Bursting, GoodStep, StepFields, Safes, Step, Direct,
      LiquidityHandlerSetHlpStaking
<1>60. GoodScript(LiquidityHandlerSetOrderExecutor)
  <2>1. Unsent(Auth("handlers.liquidity", "setOrderExecutor"), "auth")
    BY DEF Unsent, GoodStep, StepFields, Safes, Step, Auth
  <2> QED BY <2>1, VariantsGood
        DEF GoodScript, Unsent, LiquidityHandlerSetOrderExecutor
<1>61. GoodScript(LiquidityHandlerUnpause)
  BY DEF GoodScript, Bursting, GoodStep, StepFields, Safes, Step, Auth,
      LiquidityHandlerUnpause
<1>62. GoodScript(MultiSetPyth)
  BY DEF GoodScript, Bursting, GoodStep, StepFields, Safes, Step, Burst, MultiSetPyth, Feeds
<1>63. GoodScript(OnChainPriceLensSetPriceAdapters)
  BY DEF GoodScript, Bursting, GoodStep, StepFields, Safes, Step, CheckedSent,
      OnChainPriceLensSetPriceAdapters
<1>64. GoodScript(OracleMiddlewareSetAssetPriceConfigs)
  BY DEF GoodScript, Bursting, GoodStep, StepFields, Safes, Step, Propose,
      OracleMiddlewareSetAssetPriceConfigs
<1>65. GoodScript(OracleMiddlewareSetMultipleMarketStatus)
  BY DEF GoodScript, Bursting, GoodStep, StepFields, Safes, Step, Direct,
      OracleMiddlewareSetMultipleMarketStatus
<1>66. GoodScript(OracleMiddlewareSetUpdater)
  <2>1. Unsent(Auth("oracles.middleware", "setUpdater"), "auth")
    BY DEF Unsent, GoodStep, StepFields, Safes, Step, Auth
  <2> QED BY <2>1, VariantsGood
        DEF GoodScript, Unsent, OracleMiddlewareSetUpdater
<1>67. GoodScript(OrderbookOracleInsertMarketIndexes)
  BY DEF GoodScript, Bursting, GoodStep, StepFields, Safes, Step, Auth,
      OrderbookOracleInsertMarketIndexes
<1>68. GoodScript(OrderbookOracleSetMarketIndexes)
  BY DEF GoodScript, Bursting, GoodStep, StepFields, Safes, Step, Checked,
      OrderbookOracleSetMarketIndexes
<1>69. GoodScript(OrderbookOracleSetUpdater)
  <2>1. Unsent(Auth("oracles.orderbook", "setUpdaters"), "auth")
    BY DEF Unsent, GoodStep, StepFields, Safes, Step, Auth
  <2> QED BY <2>1, VariantsGood
        DEF GoodScript, Unsent, OrderbookOracleSetUpdater
<1>70. GoodScript(OwnableTransferOwnership)
  BY DEF GoodScript, Bursting, GoodStep, StepFields, Safes, Step, Burst,
      OwnableTransferOwnership, Feeds
<1>71. GoodScript(PerpStorageSetFundingRate)
  BY DEF GoodScript, Bursting, GoodStep, StepFields, Safes, Step, Auth,
      PerpStorageSetFundingRate
<1>72. GoodScript(PerpStorageSetMovingWindowConfig)
  BY DEF GoodScript, Bursting, GoodStep, StepFields, Safes, Step, Auth,
      PerpStorageSetMovingWindowConfig
<1>73. GoodScript(PerpStorageSetServiceExecutorBatch)
  <2>1. Unsent(Direct("storages.perp", "setServiceExecutorBatch"), "direct")
    BY DEF Unsent, GoodStep, StepFields, Safes, Step, Direct
  <2> QED BY <2>1, VariantsGood
        DEF GoodScript, Unsent, PerpStorageSetServiceExecutorBatch
<1>74. GoodScript(PythAdapterSetConfigs)
  BY DEF GoodScript, Bursting, GoodStep, StepFields, Safes, Step, Propose,
      PythAdapterSetConfigs
<1>75. GoodScript(PythAdapterSetPyth)
  BY DEF GoodScript, Bursting, GoodStep, StepFields, Safes, Step, Direct,
      PythAdapterSetPyth, Feeds
<1>76. GoodScript(RebalanceHLPHandlerSetWhitelistExecutor)
  <2>1. Unsent(Propose("handlers.rebalanceHLP", "setWhitelistExecutor"), "propose")
    BY DEF Unsent, GoodStep, StepFields, Safes, Step, Propose
  <2> QED BY <2>1, VariantsGood
        DEF GoodScript, Unsent, RebalanceHLPHandlerSetWhitelistExecutor
<1>77. GoodScript(RebalanceHLPServiceSetOneInchRouter)
  <2>1. Unsent(Propose("services.rebalanceHLP", "setOneInchRouter"), "propose")
    BY DEF Unsent, GoodStep, StepFields, Safes, Step, Propose
  <2> QED BY <2>1, VariantsGood
        DEF GoodScript, Unsent, RebalanceHLPServiceSetOneInchRouter
<1>78. GoodScript(RebalanceHLPToGMXV2HandlerSetWhitelistExecutor)
  <2>1. Unsent(Propose("handlers.rebalanceHLPv2", "setWhitelistExecutor"), "propose")
    BY DEF Unsent, GoodStep, StepFields, Safes, Step, Propose
  <2> QED BY <2>1, VariantsGood
        DEF GoodScript, Unsent, RebalanceHLPToGMXV2HandlerSetWhitelistExecutor
<1>79. GoodScript(RebalanceHLPv2HandlerSetWhitelistExecutor)
  <2>1. Unsent(Checked("handlers.rebalanceHLPv2", "setWhitelistExecutor"), "checked")
    BY DEF Unsent, GoodStep, StepFields, Safes, Step, Checked
  <2> QED BY <2>1, VariantsGood
        DEF GoodScript, Unsent, RebalanceHLPv2HandlerSetWhitelistExecutor
<1>80. GoodScript(RebalanceHLPv2ServiceSetGmxV2DepositHandler)
  BY DEF GoodScript, Bursting, GoodStep, StepFields, Safes, Step, Auth,
      RebalanceHLPv2ServiceSetGmxV2DepositHandler
<1>81. GoodScript(RebalanceHLPv2ServiceSetGmxV2DepositVault)
  BY DEF GoodScript, Bursting, GoodStep, StepFields, Safes, Step, Auth,
      RebalanceHLPv2ServiceSetGmxV2DepositVault
<1>82. GoodScript(RebalanceHLPv2ServiceSetGmxV2ExchangeRouter)
  BY DEF GoodScript, Bursting, GoodStep, StepFields, Safes, Step, Auth,
      RebalanceHLPv2ServiceSetGmxV2ExchangeRouter
<1>83. GoodScript(RebalanceHLPv2ServiceSetGmxV2WithdrawalHandler)
  BY DEF GoodScript, Bursting, GoodStep, StepFields, Safes, Step, Auth,
      RebalanceHLPv2ServiceSetGmxV2WithdrawalHandler
<1>84. GoodScript(RebalanceHLPv2ServiceSetGmxV2WithdrawalVault)
  BY DEF GoodScript, Bursting, GoodStep, StepFields, Safes, Step, Auth,
      RebalanceHLPv2ServiceSetGmxV2WithdrawalVault
<1>85. GoodScript(SwitchCollateralRouterSetDexter)
  BY DEF GoodScript, Bursting, GoodStep, StepFields, Safes, Step, Direct, ForEach,
      SwitchCollateralRouterSetDexter
<1>86. GoodScript(TLCHookSetMarketWeight)
  BY DEF GoodScript, Bursting, GoodStep, StepFields, Safes, Step, Propose, ForEach,
      TLCHookSetMarketWeight
<1>87. GoodScript(TLCHookSetWhitelistedCallers)
  BY DEF GoodScript, Bursting, GoodStep, StepFields, Safes, Step, Checked,
      TLCHookSetWhitelistedCallers
<1>88. GoodScript(TradeHelperSetAdaptiveFeeCalculator)
  BY DEF GoodScript, Bursting, GoodStep, StepFields, Safes, Step, Auth,
      TradeHelperSetAdaptiveFeeCalculator
<1>89. GoodScript(TradeHelperSetMaxAdaptiveFeeBps)
  BY DEF GoodScript, Bursting, GoodStep, StepFields, Safes, Step, Auth,
      TradeHelperSetMaxAdaptiveFeeBps
<1>90. GoodScript(TradeHelperSetOrderbookOracle)
  BY DEF GoodScript, Bursting, GoodStep, StepFields, Safes, Step, Auth,
      TradeHelperSetOrderbookOracle
<1>91. GoodScript(TradeOrderHelperSetLimit)
  BY DEF GoodScript, Bursting, GoodStep, StepFields, Safes, Step, Auth,
      TradeOrderHelperSetLimit
<1>92. GoodScript(TradeOrderHelperSetWhitelistedCallers)
  <2>1. Unsent(Auth("helpers.tradeOrder", "setWhitelistedCaller"), "auth")
    BY DEF Unsent, GoodStep, StepFields, Safes, Step, Auth
  <2> QED BY <2>1, VariantsGood
        DEF GoodScript, Unsent, TradeOrderHelperSetWhitelistedCallers
<1>93. GoodScript(TradingStakingHookSetWhitelistedCallers)
  BY DEF GoodScript, Bursting, GoodStep, StepFields, Safes, Step, Checked,
      TradingStakingHookSetWhitelistedCallers
<1>94. GoodScript(UniswapDexterSetPath)
  BY DEF GoodScript, Bursting, GoodStep, StepFields, Safes, Step, Direct, ForEach,
      UniswapDexterSetPath
<1>95. GoodScript(VaultStorageSetServiceExecutorBatch)
  <2>1. Unsent(Auth("storages.vault", "setServiceExecutorBatch"), "auth")
    BY DEF Unsent, GoodStep, StepFields, Safes, Step, Auth
  <2> QED BY <2>1, VariantsGood
        DEF GoodScript, Unsent, VaultStorageSetServiceExecutorBatch
<1>96. GoodScript(VaultStorageSetStrategyAllowance)
  <2>1. Unsent(Auth("storages.vault", "setStrategyAllowance"), "auth")
    BY DEF Unsent, GoodStep, StepFields, Safes, Step, Auth
  <2> QED BY <2>1, VariantsGood
        DEF GoodScript, Unsent, VaultStorageSetStrategyAllowance
<1>97. GoodScript(VaultStorageSetStrategyFunctionSigAllowance)
  <2>1. Unsent(Auth("storages.vault", "setStrategyFunctionSigAllowance"), "auth")
    BY DEF Unsent, GoodStep, StepFields, Safes, Step, Auth
  <2> QED BY <2>1, VariantsGood
        DEF GoodScript, Unsent, VaultStorageSetStrategyFunctionSigAllowance
<1> QED BY <1>1, <1>2, <1>3, <1>4, <1>5, <1>6, <1>7, <1>8, <1>9, <1>10, <1>11, <1>12,
    <1>13, <1>14, <1>15, <1>16, <1>17, <1>18, <1>19, <1>20, <1>21, <1>22, <1>23, <1>24,
    <1>25, <1>26, <1>27, <1>28, <1>29, <1>30, <1>31, <1>32, <1>33, <1>34, <1>35, <1>36,
    <1>37, <1>38, <1>39, <1>40, <1>41, <1>42, <1>43, <1>44, <1>45, <1>46, <1>47, <1>48,
    <1>49, <1>50, <1>51, <1>52, <1>53, <1>54, <1>55, <1>56, <1>57, <1>58, <1>59, <1>60,
    <1>61, <1>62, <1>63, <1>64, <1>65, <1>66, <1>67, <1>68, <1>69, <1>70, <1>71, <1>72,
    <1>73, <1>74, <1>75, <1>76, <1>77, <1>78, <1>79, <1>80, <1>81, <1>82, <1>83, <1>84,
    <1>85, <1>86, <1>87, <1>88, <1>89, <1>90, <1>91, <1>92, <1>93, <1>94, <1>95, <1>96,
    <1>97 DEF ConfigScripts

LEMMA CommandScriptsGood == \A s \in CommandScripts : GoodScript(s)
<1>1. GoodScript(AccountGetSubAccount) BY DEF GoodScript, Bursting, AccountGetSubAccount
<1>2. GoodScript(BotHandlerCloseDelistedMarketPositions)
  BY DEF GoodScript, Bursting, GoodStep, StepFields, Safes, Step, Direct, ForEach,
      BotHandlerCloseDelistedMarketPositions
<1>3. GoodScript(BotHandlerInjectLiquidity)
  <2>1. Unsent(Propose("token", "approve"), "propose")
    BY DEF Unsent, GoodStep, StepFields, Safes, Step, Propose
  <2>2. Unsent(Auth("handlers.bot", "injectTokenToHlpLiquidity"), "auth")
    BY DEF Unsent, GoodStep, StepFields, Safes, Step, Auth
  <2> QED BY <2>1, <2>2, VariantsGood
        DEF GoodScript, Unsent, BotHandlerInjectLiquidity
<1>4. GoodScript(BulkSendErc20MultisigLeggo)
  <2>1. Unsent(Propose("token", "approve"), "propose")
    BY DEF Unsent, GoodStep, StepFields, Safes, Step, Propose
  <2>2. Unsent(Propose("bulkSendErc20", "leggo"), "propose")
    BY DEF Unsent, GoodStep, StepFields, Safes, Step, Propose
  <2> QED BY <2>1, <2>2, VariantsGood
        DEF GoodScript, Unsent, BulkSendErc20MultisigLeggo
<1>5. GoodScript(CrossMarginHandlerCreateWithdrawCollateralOnBehalf)
  BY DEF GoodScript, Bursting, GoodStep, StepFields, Safes, Step, Auth,
      CrossMarginHandlerCreateWithdrawCollateralOnBehalf
<1>6. GoodScript(CrossMarginHandlerDepositCollateral)
  <2>1. Unsent(Sent("tokens.usdc", "approve"), "direct")
    BY DEF Unsent, GoodStep, StepFields, Safes, Step, Sent
  <2>2. Unsent(Direct("handlers.crossMargin", "depositCollateral"), "direct")
    BY DEF Unsent, GoodStep, StepFields, Safes, Step, Direct
  <2> QED BY <2>1, <2>2, VariantsGood
        DEF GoodScript, Unsent, CrossMarginHandlerDepositCollateral
<1>7. GoodScript(DistributeSTIPARBStrategyExecute)
  BY DEF GoodScript, Bursting, GoodStep, StepFields, Safes, Step, Propose,
      DistributeSTIPARBStrategyExecute
<1>8. GoodScript(EcoPythFeedPriceEcoPyth)
  BY DEF GoodScript, Bursting, GoodStep, StepFields, Safes, Step, Direct,
      EcoPythFeedPriceEcoPyth
<1>9. GoodScript(Erc20MultisigMassTransfer)
  <2>1. Unsent(Propose("token", "transfer"), "propose")
    BY DEF Unsent, GoodStep, StepFields, Safes, Step, Propose
  <2> QED BY <2>1, VariantsGood
        DEF GoodScript, Unsent, ForEach, Erc20MultisigMassTransfer
<1>10. GoodScript(Ext01HandlerCreateExtOrder)
  BY DEF GoodScript, Bursting, GoodStep, StepFields, Safes, Step, Direct,
      Ext01HandlerCreateExtOrder
<1>11. GoodScript(Ext01HandlerExecuteOrder)
  BY DEF GoodScript, Bursting, GoodStep, StepFields, Safes, Step, Direct,
      Ext01HandlerExecuteOrder
<1>12. GoodScript(ExternalRebalancerCompleteRebalance)
  <2>1. Unsent(Auth("handlers.externalRebalancer", "addWhitelistedExecutor"), "auth")
    BY DEF Unsent, GoodStep, StepFields, Safes, Step, Auth
  <2>2. Unsent(Direct("tokens.usdcNative", "approve"), "direct")
    BY DEF Unsent, GoodStep, StepFields, Safes, Step, Direct
  <2>3. Unsent(Auth("handlers.externalRebalancer", "completeRebalance"), "auth")
    BY DEF Unsent, GoodStep, StepFields, Safes, Step, Auth
  <2> QED BY <2>1, <2>2, <2>3, VariantsGood
        DEF GoodScript, Unsent, WhitelistDeployer, ExternalRebalancerCompleteRebalance
<1>13. GoodScript(ExternalRebalancerStartRebalance)
  <2>1. Unsent(Auth("handlers.externalRebalancer", "addWhitelistedExecutor"), "auth")
    BY DEF Unsent, GoodStep, StepFields, Safes, Step, Auth
  <2>2. Unsent(Auth("handlers.externalRebalancer", "startRebalance"), "auth")
    BY DEF Unsent, GoodStep, StepFields, Safes, Step, Auth
  <2> QED BY <2>1, <2>2, VariantsGood
        DEF GoodScript, Unsent, WhitelistDeployer, ExternalRebalancerStartRebalance
<1>14. GoodScript(GasServiceAdjustSubsidizedExecutionFeeValue)
  BY DEF GoodScript, Bursting, GoodStep, StepFields, Safes, Step, Auth,
      GasServiceAdjustSubsidizedExecutionFeeValue
<1>15. GoodScript(LimitTradeHandlerBatch)
  BY DEF GoodScript, Bursting, GoodStep, StepFields, Safes, Step, Direct,
      LimitTradeHandlerBatch
<1>16. GoodScript(LimitTradeHandlerCreateLimitOrder)
  BY DEF GoodScript, Bursting, GoodStep, StepFields, Safes, Step, Direct,
      LimitTradeHandlerCreateLimitOrder
<1>17. GoodScript(LimitTradeHandlerExecuteLimitOrder)
  BY DEF GoodScript, Bursting, GoodStep, StepFields, Safes, Step, Direct,
      LimitTradeHandlerExecuteLimitOrder
<1>18. GoodScript(LiquidityHandlerCreateAddLiquidityOrder)
  <2>1. Unsent(Sent("tokens.usdc", "approve"), "direct")
    BY DEF Unsent, GoodStep, StepFields, Safes, Step, Sent
  <2>2. Unsent(Direct("handlers.liquidity", "createAddLiquidityOrder"), "direct")
    BY DEF Unsent, GoodStep, StepFields, Safes, Step, Direct
  <2> QED BY <2>1, <2>2, VariantsGood
        DEF GoodScript, Unsent, LiquidityHandlerCreateAddLiquidityOrder
<1>19. GoodScript(LiquidityHandlerExecuteOrder)
  BY DEF GoodScript, Bursting, GoodStep, StepFields, Safes, Step, Direct,
      LiquidityHandlerExecuteOrder
<1>20. GoodScript(OrderbookOracleFeedOrderbookOracle) BY DEF GoodScript, Bursting,
    OrderbookOracleFeedOrderbookOracle
<1>21. GoodScript(RebalanceHLPHandlerAddGlp)
  BY DEF GoodScript, Bursting, GoodStep, StepFields, Safes, Step, Propose,
      RebalanceHLPHandlerAddGlp
<1>22. GoodScript(RebalanceHLPHandlerExecuteWithdraw)
  BY DEF GoodScript, Bursting, GoodStep, StepFields, Safes, Step, Direct,
      RebalanceHLPHandlerExecuteWithdraw
<1>23. GoodScript(RebalanceHLPHandlerSwapOneInch)
  BY DEF GoodScript, Bursting, GoodStep, StepFields, Safes, Step, Sent,
      RebalanceHLPHandlerSwapOneInch
<1>24. GoodScript(RebalanceHLPHandlerSwap)
  BY DEF GoodScript, Bursting, GoodStep, StepFields, Safes, Step, Sent, ForEach,
      RebalanceHLPHandlerSwap
<1>25. GoodScript(RebalanceHLPv2HandlerCreateDepositOrders)
  BY DEF GoodScript, Bursting, GoodStep, StepFields, Safes, Step, Direct,
      RebalanceHLPv2HandlerCreateDepositOrders
<1>26. GoodScript(RebalanceHLPv2HandlerCreateWithdrawalOrders)
  BY DEF GoodScript, Bursting, GoodStep, StepFields, Safes, Step, Direct,
      RebalanceHLPv2HandlerCreateWithdrawalOrders
<1>27. GoodScript(SafeExecuteTxs)
  BY DEF GoodScript, Bursting, GoodStep, StepFields, Safes, Step, ExecutePending,
      SafeExecuteTxs
<1>28. GoodScript(SafeSignTxs) BY DEF GoodScript, Bursting, SafeSignTxs
<1>29. GoodScript(StakedGlpStrategyReinvest)
  BY DEF GoodScript, Bursting, GoodStep, StepFields, Safes, Step, Direct,
      StakedGlpStrategyReinvest
<1>30. GoodScript(TenderlyVerify) BY DEF GoodScript, Bursting, TenderlyVerify
<1>31. GoodScript(VaultStorageClearOnHold) BY DEF GoodScript, Bursting,
    VaultStorageClearOnHold
<1>32. GoodScript(VaultStorageRemoveHlpLiquidityOnHold) BY DEF GoodScript, Bursting,
    VaultStorageRemoveHlpLiquidityOnHold
<1>33. GoodScript(VaultStorageWithdrawDevFee(0))
  <2>1. Unsent(Propose("storages.vault", "withdrawDevFee"), "propose")
    BY DEF Unsent, GoodStep, StepFields, Safes, Step, Propose
  <2> QED BY <2>1, VariantsGood
        DEF GoodScript, Unsent, VaultStorageWithdrawDevFee
<1>34. GoodScript(VaultStorageWithdrawDevFee(381))
  <2>1. Unsent(Propose("storages.vault", "withdrawDevFee"), "propose")
    BY DEF Unsent, GoodStep, StepFields, Safes, Step, Propose
  <2> QED BY <2>1, VariantsGood
        DEF GoodScript, Unsent, VaultStorageWithdrawDevFee
<1> QED BY <1>1, <1>2, <1>3, <1>4, <1>5, <1>6, <1>7, <1>8, <1>9, <1>10, <1>11, <1>12,
    <1>13, <1>14, <1>15, <1>16, <1>17, <1>18, <1>19, <1>20, <1>21, <1>22, <1>23, <1>24,
    <1>25, <1>26, <1>27, <1>28, <1>29, <1>30, <1>31, <1>32, <1>33, <1>34 DEF
    CommandScripts

(* An upgrade script is good if a deployment script puts that contract at that key. *)
LEMMA UpgradeGood ==
  ASSUME NEW key, NEW name,
         \E s \in Deployed!DeployScripts : s.key = key /\ s.contract.name = name
  PROVE  GoodScript(Upgrade(key, name)) /\ GoodScript(UpgradeProxy(key, name))
<1> DEFINE u == [Step("upgrade", "proxyAdmin", "upgrade") EXCEPT !.proxy = key, !.code = name]
           w == [Direct("proxyAdmin", "upgrade") EXCEPT !.proxy = key, !.code = name]
<1>1. GoodStep(u) /\ u.via = "upgrade" BY DEF GoodStep, StepFields, Step, Safes
<1>2. LET d == Direct("proxyAdmin", "upgrade")
      IN  /\ DOMAIN d = StepFields /\ d.via = "direct" /\ d.fn = "upgrade"
          /\ d.to = "proxyAdmin" /\ d.safe = "safe" /\ d.nonce = 0
  BY DEF Direct, Step, StepFields
<1>3. GoodStep(w) /\ w.via = "direct" BY <1>2 DEF GoodStep, StepFields, Safes
<1> HIDE DEF u, w
<1>4. Len(<<u>>) = 1 /\ DOMAIN <<u>> = {1} /\ <<u>>[1] = u OBVIOUS
<1>5. Len(<<w>>) = 1 /\ DOMAIN <<w>> = {1} /\ <<w>>[1] = w OBVIOUS
<1>6. GoodScript(<<u>>) BY <1>1, <1>4 DEF GoodScript
<1>7. GoodScript(<<w>>) BY <1>3, <1>5 DEF GoodScript
<1> QED BY <1>6, <1>7 DEF Upgrade, UpgradeProxy, u, w

LEMMA UpgradeScriptsGood == \A s \in UpgradeScripts : GoodScript(s)
<1>1. GoodScript(UpgradeBotHandler)
  <2>1. Deployed!DeployBotHandler \in Deployed!DeployScripts BY DEF Deployed!DeployScripts
  <2>2. /\ Deployed!DeployBotHandler.key = "handlers.bot"
        /\ Deployed!DeployBotHandler.contract.name = "BotHandler"
    BY DEF Deployed!DeployBotHandler, Deployed!Script, Deployed!BotHandler,
        Deployed!Contract
  <2> QED BY <2>1, <2>2, UpgradeGood DEF UpgradeBotHandler
<1>2. GoodScript(UpgradeCalculator)
  <2>1. Deployed!DeployCalculator \in Deployed!DeployScripts BY DEF Deployed!DeployScripts
  <2>2. /\ Deployed!DeployCalculator.key = "calculator"
        /\ Deployed!DeployCalculator.contract.name = "Calculator"
    BY DEF Deployed!DeployCalculator, Deployed!Script, Deployed!Calculator,
        Deployed!Contract
  <2> QED BY <2>1, <2>2, UpgradeGood DEF UpgradeCalculator
<1>3. GoodScript(UpgradeConfigStorage)
  <2>1. Deployed!DeployConfigStorage \in Deployed!DeployScripts BY DEF
      Deployed!DeployScripts
  <2>2. /\ Deployed!DeployConfigStorage.key = "storages.config"
        /\ Deployed!DeployConfigStorage.contract.name = "ConfigStorage"
    BY DEF Deployed!DeployConfigStorage, Deployed!Script, Deployed!ConfigStorage,
        Deployed!Contract
  <2> QED BY <2>1, <2>2, UpgradeGood DEF UpgradeConfigStorage
<1>4. GoodScript(UpgradeCrossMarginHandler)
  <2>1. Deployed!DeployCrossMarginHandler \in Deployed!DeployScripts BY DEF
      Deployed!DeployScripts
  <2>2. /\ Deployed!DeployCrossMarginHandler.key = "handlers.crossMargin"
        /\ Deployed!DeployCrossMarginHandler.contract.name = "CrossMarginHandler"
    BY DEF Deployed!DeployCrossMarginHandler, Deployed!Script,
        Deployed!CrossMarginHandler, Deployed!Contract
  <2> QED BY <2>1, <2>2, UpgradeGood DEF UpgradeCrossMarginHandler
<1>5. GoodScript(UpgradeCrossMarginService)
  <2>1. Deployed!DeployCrossMarginService \in Deployed!DeployScripts BY DEF
      Deployed!DeployScripts
  <2>2. /\ Deployed!DeployCrossMarginService.key = "services.crossMargin"
        /\ Deployed!DeployCrossMarginService.contract.name = "CrossMarginService"
    BY DEF Deployed!DeployCrossMarginService, Deployed!Script,
        Deployed!CrossMarginService, Deployed!Contract
  <2> QED BY <2>1, <2>2, UpgradeGood DEF UpgradeCrossMarginService
<1>6. GoodScript(UpgradeEcoPyth)
  <2>1. Deployed!DeployEcoPyth \in Deployed!DeployScripts BY DEF Deployed!DeployScripts
  <2>2. /\ Deployed!DeployEcoPyth.key = "oracles.ecoPyth"
        /\ Deployed!DeployEcoPyth.contract.name = "EcoPyth"
    BY DEF Deployed!DeployEcoPyth, Deployed!Script, Deployed!EcoPyth, Deployed!Contract
  <2> QED BY <2>1, <2>2, UpgradeGood DEF UpgradeEcoPyth
<1>7. GoodScript(UpgradeExt01Handler)
  <2>1. Deployed!DeployExt01Handler \in Deployed!DeployScripts BY DEF Deployed!DeployScripts
  <2>2. /\ Deployed!DeployExt01Handler.key = "handlers.ext01"
        /\ Deployed!DeployExt01Handler.contract.name = "Ext01Handler"
    BY DEF Deployed!DeployExt01Handler, Deployed!Script, Deployed!Ext01Handler,
        Deployed!Contract
  <2> QED BY <2>1, <2>2, UpgradeGood DEF UpgradeExt01Handler
<1>8. GoodScript(UpgradeExternalRebalancer)
  <2>1. Deployed!DeployExternalRebalancer \in Deployed!DeployScripts BY DEF
      Deployed!DeployScripts
  <2>2. /\ Deployed!DeployExternalRebalancer.key = "handlers.externalRebalancer"
        /\ Deployed!DeployExternalRebalancer.contract.name = "ExternalRebalancer"
    BY DEF Deployed!DeployExternalRebalancer, Deployed!Script,
        Deployed!ExternalRebalancer, Deployed!Contract
  <2> QED BY <2>1, <2>2, UpgradeGood DEF UpgradeExternalRebalancer
<1>9. GoodScript(UpgradeGasService)
  <2>1. Deployed!DeployGasService \in Deployed!DeployScripts BY DEF Deployed!DeployScripts
  <2>2. /\ Deployed!DeployGasService.key = "services.gas"
        /\ Deployed!DeployGasService.contract.name = "GasService"
    BY DEF Deployed!DeployGasService, Deployed!Script, Deployed!GasService,
        Deployed!Contract
  <2> QED BY <2>1, <2>2, UpgradeGood DEF UpgradeGasService
<1>10. GoodScript(UpgradeHLP)
  <2>1. Deployed!DeployHLP \in Deployed!DeployScripts BY DEF Deployed!DeployScripts
  <2>2. /\ Deployed!DeployHLP.key = "tokens.hlp"
        /\ Deployed!DeployHLP.contract.name = "HLP"
    BY DEF Deployed!DeployHLP, Deployed!Script, Deployed!HLP, Deployed!Contract
  <2> QED BY <2>1, <2>2, UpgradeGood DEF UpgradeHLP
<1>11. GoodScript(UpgradeIntentHandler)
  <2>1. Deployed!DeployIntentHandler \in Deployed!DeployScripts BY DEF
      Deployed!DeployScripts
  <2>2. /\ Deployed!DeployIntentHandler.key = "handlers.intent"
        /\ Deployed!DeployIntentHandler.contract.name = "IntentHandler"
    BY DEF Deployed!DeployIntentHandler, Deployed!Script, Deployed!IntentHandler,
        Deployed!Contract
  <2> QED BY <2>1, <2>2, UpgradeGood DEF UpgradeIntentHandler
<1>12. GoodScript(UpgradeLimitTradeHandler)
  <2>1. Deployed!DeployLimitTradeHandler \in Deployed!DeployScripts BY DEF
      Deployed!DeployScripts
  <2>2. /\ Deployed!DeployLimitTradeHandler.key = "handlers.limitTrade"
        /\ Deployed!DeployLimitTradeHandler.contract.name = "LimitTradeHandler"
    BY DEF Deployed!DeployLimitTradeHandler, Deployed!Script,
        Deployed!LimitTradeHandler, Deployed!Contract
  <2> QED BY <2>1, <2>2, UpgradeGood DEF UpgradeLimitTradeHandler
<1>13. GoodScript(UpgradeLiquidationService)
  <2>1. Deployed!DeployLiquidationService \in Deployed!DeployScripts BY DEF
      Deployed!DeployScripts
  <2>2. /\ Deployed!DeployLiquidationService.key = "services.liquidation"
        /\ Deployed!DeployLiquidationService.contract.name = "LiquidationService"
    BY DEF Deployed!DeployLiquidationService, Deployed!Script,
        Deployed!LiquidationService, Deployed!Contract
  <2> QED BY <2>1, <2>2, UpgradeGood DEF UpgradeLiquidationService
<1>14. GoodScript(UpgradeLiquidityHandler)
  <2>1. Deployed!DeployLiquidityHandler \in Deployed!DeployScripts BY DEF
      Deployed!DeployScripts
  <2>2. /\ Deployed!DeployLiquidityHandler.key = "handlers.liquidity"
        /\ Deployed!DeployLiquidityHandler.contract.name = "LiquidityHandler"
    BY DEF Deployed!DeployLiquidityHandler, Deployed!Script, Deployed!LiquidityHandler,
        Deployed!Contract
  <2> QED BY <2>1, <2>2, UpgradeGood DEF UpgradeLiquidityHandler
<1>15. GoodScript(UpgradeLiquidityService)
  <2>1. Deployed!DeployLiquidityService \in Deployed!DeployScripts BY DEF
      Deployed!DeployScripts
  <2>2. /\ Deployed!DeployLiquidityService.key = "services.liquidity"
        /\ Deployed!DeployLiquidityService.contract.name = "LiquidityService"
    BY DEF Deployed!DeployLiquidityService, Deployed!Script, Deployed!LiquidityService,
        Deployed!Contract
  <2> QED BY <2>1, <2>2, UpgradeGood DEF UpgradeLiquidityService
<1>16. GoodScript(UpgradeOracleMiddleware)
  <2>1. Deployed!DeployOracleMiddleware \in Deployed!DeployScripts BY DEF
      Deployed!DeployScripts
  <2>2. /\ Deployed!DeployOracleMiddleware.key = "oracles.middleware"
        /\ Deployed!DeployOracleMiddleware.contract.name = "OracleMiddleware"
    BY DEF Deployed!DeployOracleMiddleware, Deployed!Script, Deployed!OracleMiddleware,
        Deployed!Contract
  <2> QED BY <2>1, <2>2, UpgradeGood DEF UpgradeOracleMiddleware
<1>17. GoodScript(UpgradePerpStorage)
  <2>1. Deployed!DeployPerpStorage \in Deployed!DeployScripts BY DEF Deployed!DeployScripts
  <2>2. /\ Deployed!DeployPerpStorage.key = "storages.perp"
        /\ Deployed!DeployPerpStorage.contract.name = "PerpStorage"
    BY DEF Deployed!DeployPerpStorage, Deployed!Script, Deployed!PerpStorage,
        Deployed!Contract
  <2> QED BY <2>1, <2>2, UpgradeGood DEF UpgradePerpStorage
<1>18. GoodScript(UpgradePythAdapter)
  <2>1. Deployed!DeployPythAdapter \in Deployed!DeployScripts BY DEF Deployed!DeployScripts
  <2>2. /\ Deployed!DeployPythAdapter.key = "oracles.pythAdapter"
        /\ Deployed!DeployPythAdapter.contract.name = "PythAdapter"
    BY DEF Deployed!DeployPythAdapter, Deployed!Script, Deployed!PythAdapter,
        Deployed!Contract
  <2> QED BY <2>1, <2>2, UpgradeGood DEF UpgradePythAdapter
<1>19. GoodScript(UpgradeRebalanceHLPHandler)
  <2>1. Deployed!DeployRebalanceHLPHandler \in Deployed!DeployScripts BY DEF
      Deployed!DeployScripts
  <2>2. /\ Deployed!DeployRebalanceHLPHandler.key = "handlers.rebalanceHLP"
        /\ Deployed!DeployRebalanceHLPHandler.contract.name = "RebalanceHLPHandler"
    BY DEF Deployed!DeployRebalanceHLPHandler, Deployed!Script,
        Deployed!RebalanceHLPHandler, Deployed!Contract
  <2> QED BY <2>1, <2>2, UpgradeGood DEF UpgradeRebalanceHLPHandler
<1>20. GoodScript(UpgradeRebalanceHLPService)
  <2>1. Deployed!DeployRebalanceHLPService \in Deployed!DeployScripts BY DEF
      Deployed!DeployScripts
  <2>2. /\ Deployed!DeployRebalanceHLPService.key = "services.rebalanceHLP"
        /\ Deployed!DeployRebalanceHLPService.contract.name = "RebalanceHLPService"
    BY DEF Deployed!DeployRebalanceHLPService, Deployed!Script,
        Deployed!RebalanceHLPService, Deployed!Contract
  <2> QED BY <2>1, <2>2, UpgradeGood DEF UpgradeRebalanceHLPService
<1>21. GoodScript(UpgradeRebalanceHLPv2Service)
  <2>1. Deployed!DeployRebalanceHLPv2Service \in Deployed!DeployScripts BY DEF
      Deployed!DeployScripts
  <2>2. /\ Deployed!DeployRebalanceHLPv2Service.key = "services.rebalanceHLPv2"
        /\ Deployed!DeployRebalanceHLPv2Service.contract.name = "RebalanceHLPv2Service"
    BY DEF Deployed!DeployRebalanceHLPv2Service, Deployed!Script,
        Deployed!RebalanceHLPv2Service, Deployed!Contract
  <2> QED BY <2>1, <2>2, UpgradeGood DEF UpgradeRebalanceHLPv2Service
<1>22. GoodScript(UpgradeTLCHook)
  <2>1. Deployed!DeployTLCHook \in Deployed!DeployScripts BY DEF Deployed!DeployScripts
  <2>2. /\ Deployed!DeployTLCHook.key = "hooks.tlc"
        /\ Deployed!DeployTLCHook.contract.name = "TLCHook"
    BY DEF Deployed!DeployTLCHook, Deployed!Script, Deployed!TLCHook, Deployed!Contract
  <2> QED BY <2>1, <2>2, UpgradeGood DEF UpgradeTLCHook
<1>23. GoodScript(UpgradeTradeHelper)
  <2>1. Deployed!DeployTradeHelper \in Deployed!DeployScripts BY DEF Deployed!DeployScripts
  <2>2. /\ Deployed!DeployTradeHelper.key = "helpers.trade"
        /\ Deployed!DeployTradeHelper.contract.name = "TradeHelper"
    BY DEF Deployed!DeployTradeHelper, Deployed!Script, Deployed!TradeHelper,
        Deployed!Contract
  <2> QED BY <2>1, <2>2, UpgradeGood DEF UpgradeTradeHelper
<1>24. GoodScript(UpgradeTradeService)
  <2>1. Deployed!DeployTradeService \in Deployed!DeployScripts BY DEF Deployed!DeployScripts
  <2>2. /\ Deployed!DeployTradeService.key = "services.trade"
        /\ Deployed!DeployTradeService.contract.name = "TradeService"
    BY DEF Deployed!DeployTradeService, Deployed!Script, Deployed!TradeService,
        Deployed!Contract
  <2> QED BY <2>1, <2>2, UpgradeGood DEF UpgradeTradeService
<1>25. GoodScript(UpgradeTradingStakingHook)
  <2>1. Deployed!DeployTradingStakingHook \in Deployed!DeployScripts BY DEF
      Deployed!DeployScripts
  <2>2. /\ Deployed!DeployTradingStakingHook.key = "hooks.tradingStaking"
        /\ Deployed!DeployTradingStakingHook.contract.name = "TradingStakingHook"
    BY DEF Deployed!DeployTradingStakingHook, Deployed!Script,
        Deployed!TradingStakingHook, Deployed!Contract
  <2> QED BY <2>1, <2>2, UpgradeGood DEF UpgradeTradingStakingHook
<1>26. GoodScript(UpgradeVaultStorage)
  <2>1. Deployed!DeployVaultStorage \in Deployed!DeployScripts BY DEF Deployed!DeployScripts
  <2>2. /\ Deployed!DeployVaultStorage.key = "storages.vault"
        /\ Deployed!DeployVaultStorage.contract.name = "VaultStorage"
    BY DEF Deployed!DeployVaultStorage, Deployed!Script, Deployed!VaultStorage,
        Deployed!Contract
  <2> QED BY <2>1, <2>2, UpgradeGood DEF UpgradeVaultStorage
<1> QED BY <1>1, <1>2, <1>3, <1>4, <1>5, <1>6, <1>7, <1>8, <1>9, <1>10, <1>11, <1>12,
    <1>13, <1>14, <1>15, <1>16, <1>17, <1>18, <1>19, <1>20, <1>21, <1>22, <1>23, <1>24,
    <1>25, <1>26 DEF UpgradeScripts

LEMMA ScriptsGood == \A s \in Scripts \cup {ByHand} : GoodScript(s)
<1>1. GoodScript(ByHand)
  BY DEF GoodScript, Bursting, GoodStep, StepFields, ByHand, ExecuteQueued, Step, Safes
<1> QED BY <1>1, ConfigScriptsGood, CommandScriptsGood, UpgradeScriptsGood DEF Scripts

-----------------------------------------------------------------------------------
(* A sequence, of whatever: what is posted, and what landed.                       *)
IsSeq(s) == Len(s) \in Nat /\ DOMAIN s = 1 .. Len(s) /\ s = [i \in 1 .. Len(s) |-> s[i]]
Extends(list, longer) ==
  /\ IsSeq(longer) /\ Len(list) <= Len(longer)
  /\ \A i \in 1 .. Len(list) : longer[i] = list[i]

(* The settings are what the first k transactions that landed made of them: this   *)
(* is SettingsKept, said of every snapshot that a script or a waiting call has     *)
(* read as well, since set-market-config writes back what it read.                 *)
Explained(settings, landed, k) ==
  \A i \in 1 .. k : \A f \in Sets(landed[i].step) :
    \/ settings[f] = landed[i].by
    \/ \E j \in i + 1 .. k : \/ f \in Sets(landed[j].step)
                             \/ f \in Rewrites(landed[j].step) /\ landed[j].read < i
ReadOK(x, landed) ==
  /\ DOMAIN x = {"at", "settings", "balances", "time"}
  /\ x.at \in 0 .. Len(landed) /\ x.time \in Nat
  /\ Explained(x.settings, landed, x.at)

(* A call is a step of a script, or carries to the Timelock one that is.           *)
PlainCall(call, landed) ==
  call.inner = <<>> /\ GoodStep(call.step) /\ ReadOK(call.read, landed)
Carries(inner, landed) == inner = <<inner[1]>> /\ PlainCall(inner[1], landed)
CallOK(call, landed) ==
  /\ call.by \in Operators /\ call.no \in Nat /\ call.eta \in Nat
  /\ \/ PlainCall(call, landed)
     \/ /\ Carries(call.inner, landed)
        /\ call.step.fn \in {"queueTransaction", "executeTransaction"}

LandedOK(e) == GoodStep(e.step) /\ (e.sender = "timelock" => e.at >= e.since + Delay)
QueuedOK(q, landed) ==
  /\ PlainCall(q.call, landed)
  /\ q.eta \in Nat /\ q.since \in Nat /\ q.eta >= q.since + Delay
ChainFields ==
  {"home", "proxyAdminOwner", "timelockAdmin", "moved", "grants", "settings", "balances",
   "made", "durations", "queued", "time", "landed", "nonce", "safeNonces"}
ChainOK(c) ==
  /\ DOMAIN c = ChainFields
  /\ c.timelockAdmin \in {"deployer", "safe"}
  /\ c.time \in Nat /\ c.nonce \in Nat /\ c.safeNonces \in [Safes -> Nat]
  /\ DOMAIN c.settings = Settings
  /\ IsSeq(c.landed) /\ Explained(c.settings, c.landed, Len(c.landed))
  /\ \A i \in 1 .. Len(c.landed) : LandedOK(c.landed[i])
  /\ \A q \in c.queued : QueuedOK(q, c.landed)
  /\ c.moved \cap Feeds = {} /\ \A g \in c.grants : g[2] # "none"

(* A running script: what it has found out about the step it is at, and the call   *)
(* it carries.                                                                     *)
Active(r) == r.phase \in {"ready", "waiting", "numbered"}
RunFields ==
  {"phase", "menu", "script", "next", "route", "ticket", "eta", "inner", "read", "nonce",
   "list", "failed"}
RoutedOK(r, c) ==
  LET step == r.script[r.next]
  IN /\ r.route \in {"none", "send", "propose", "timelock"}
     /\ r.route # "none" => step.via \in {"auth", "checked", "upgrade", "admin"}
     /\ r.route = "timelock" => step.via = "upgrade" /\ r.inner # <<>>
     /\ r.inner # <<>> =>
          /\ r.route # "none" /\ step.via \in {"upgrade", "admin"}
          /\ Carries(r.inner, c.landed)
          /\ step.via = "upgrade" => r.eta = r.read.time + Delay + Margin
          /\ r.route = "propose" => c.timelockAdmin = "safe"
     /\ r.route = "propose" /\ r.inner = <<>> => OwnerOf(c, step.to) = "safe"
     /\ r.phase = "numbered" => step.via = "propose" \/ r.route = "propose"
RunOK(r, c) ==
  /\ DOMAIN r = RunFields
  /\ r.phase \in {"new", "ready", "waiting", "numbered", "done", "stopped"}
  /\ r.menu \subseteq Scripts \cup {ByHand} /\ GoodScript(r.script)
  /\ r.phase = "new" => r.script = <<>>
  /\ r.ticket \in Nat /\ r.nonce \in Nat /\ r.eta \in Nat /\ r.failed \in BOOLEAN
  /\ Active(r) =>
       r.next \in 1 .. Len(r.script) /\ ReadOK(r.read, c.landed) /\ RoutedOK(r, c)

SentOK(t, c) == t.nonce \in Nat /\ CallOK(t.call, c.landed)
PendingOK(p, c) ==
  /\ p.nonce \in Nat /\ p.safe \in Safes /\ CallOK(p.call, c.landed)
  /\ p.call.step.via \in {"auth", "checked", "upgrade"} =>
       p.call.inner = <<>> /\ p.safe = "safe" /\ OwnerOf(c, p.call.step.to) = "safe"
  /\ p.call.step.fn = "queueTransaction" =>
       /\ p.call.inner # <<>> /\ p.safe = c.timelockAdmin /\ p.call.read.time \in Nat
       /\ p.call.eta = p.call.read.time + Delay + Margin

RunsOK(runs, c) == runs = [o \in Operators |-> runs[o]] /\ \A o \in Operators : RunOK(runs[o], c)
Sound ==
  /\ ChainOK(chain) /\ RunsOK(run, chain)
  /\ \A t \in sent : SentOK(t, chain)
  /\ \A p \in pending : PendingOK(p, chain)

-----------------------------------------------------------------------------------
(* Who has sent or proposed what: a step of a run once, and by now.                *)
Passed(id) ==
  LET r == run[id.by]
  IN /\ id.by \in Operators /\ id.no \in Nat /\ r.phase # "new"
     /\ Active(r) => id.no < r.next \/ (id.no = r.next /\ r.phase = "waiting")
IdsPassed ==
  /\ \A id \in Waiting \cup settled : Passed(id)
  /\ IsSeq(posted) /\ \A i \in DOMAIN posted : Passed(posted[i])
SameCall(c, d) == c.by = d.by /\ c.no = d.no
IdsUnique ==
  /\ \A t, u \in sent : SameCall(t.call, u.call) => t = u
  /\ \A p, q \in pending : SameCall(p.call, q.call) => p = q
OverlapsMet == \A o, p \in Busy : o # p => {o, p} \in met

(* Nonces.                                                                         *)
SentNonces ==
  /\ IsFiniteSet(sent)
  /\ \A t, u \in sent : t.nonce = u.nonce => t = u
  /\ \A t \in sent : t.nonce >= chain.nonce
PendingNonces ==
  /\ IsFiniteSet(pending)
  /\ \A p \in pending : p.nonce >= chain.safeNonces[p.safe]
  /\ \A p, q \in pending :
       p.safe = q.safe /\ p.nonce = q.nonce /\ p # q => ~Undisturbed(p.call.by)
NumberedAbove ==
  \A o \in Operators : run[o].phase = "numbered" /\ ~(\E p \in Operators : Explicit(p)) =>
    \A q \in pending : q.safe = At(o).safe =>
      q.nonce < run[o].ticket \/ (q.call.by # o /\ {o, q.call.by} \in met)
BurstAbove ==
  \A o \in Operators : Active(run[o]) /\ Bursting(run[o].script) =>
    /\ run[o].phase = "ready" => \A t \in sent : t.call.by = o => t.nonce < run[o].nonce
    /\ run[o].phase = "waiting" =>
         /\ run[o].next = Len(run[o].script) /\ ~run[o].failed
         /\ \A t \in sent : t.call.by = o => t.nonce <= run[o].ticket
NoGap ==
  \A o \in Operators :
    Undisturbed(o) /\ ~Bursting(run[o].script) /\ (\A t \in sent : t.call.by = o) =>
      \A t \in sent : \A n \in chain.nonce .. t.nonce : \E u \in sent : u.nonce = n

Undisturbing(i, j) ==
  posted[i].from = posted[j].from /\ Undisturbed(posted[i].by) /\ Undisturbed(posted[j].by)
WaitInOrder ==
  \A j \in DOMAIN posted : \A i \in 1 .. j - 1 : Undisturbing(i, j) =>
    /\ \A t, u \in sent :
         Id(t.call, "deployer") = posted[i] /\ Id(u.call, "deployer") = posted[j] =>
           t.nonce < u.nonce
    /\ \A p, q \in pending :
         Id(p.call, p.safe) = posted[i] /\ Id(q.call, q.safe) = posted[j] =>
           p.nonce < q.nonce
Orderly ==
  /\ IdsPassed /\ IdsUnique /\ OverlapsMet
  /\ SentNonces /\ PendingNonces /\ NumberedAbove /\ BurstAbove /\ NoGap
  /\ WaitInOrder /\ NoneLost /\ TakeEffectInOrder

-----------------------------------------------------------------------------------
(* multi-set-pyth: what it has sent will land, as nobody can take the feeds' owner *)
(* away meanwhile; and until it fails it has posted all its steps so far.          *)
SentWell(t) ==
  LET s == run[t.call.by].script
  IN /\ Bursting(s) => t.call.no \in DOMAIN s /\ t.call.step = s[t.call.no]
     /\ t.call.step.fn = "setPyth" => chain.home = "deployer"
SentByBurst == \A t \in sent : SentWell(t)
FeedLanded(o, f) ==
  \E i \in DOMAIN chain.landed : chain.landed[i].by = o /\ chain.landed[i].step.to = f
SettledLanded ==
  \A id \in settled : id.from = "deployer" /\ run[id.by].script = MultiSetPyth =>
    FeedLanded(id.by, MultiSetPyth[id.no].to)
PostedSoFar(o) ==
  run[o].script = MultiSetPyth /\ Active(run[o]) /\ ~run[o].failed =>
    \A n \in 1 .. Len(MultiSetPyth) :
      n < run[o].next \/ (n = run[o].next /\ run[o].phase = "waiting") =>
        \E i \in DOMAIN posted : posted[i] = [by |-> o, no |-> n, from |-> "deployer"]
AllPosted == \A o \in Operators : PostedSoFar(o)
Fed == SentByBurst /\ SettledLanded /\ AllPosted /\ OneFeed

OperationsInv == Sound /\ Orderly /\ Fed

-----------------------------------------------------------------------------------
LEMMA AppendIs ==
  ASSUME NEW s, IsSeq(s), NEW e
  PROVE  /\ IsSeq(Append(s, e)) /\ Len(Append(s, e)) = Len(s) + 1
         /\ \A i \in 1 .. Len(s) : Append(s, e)[i] = s[i]
         /\ Append(s, e)[Len(s) + 1] = e
         /\ Extends(s, Append(s, e))
<1> DEFINE S == {s[i] : i \in 1 .. Len(s)} \cup {e}
           l == Append(s, e)
<1>1. Len(s) \in Nat /\ s \in [1 .. Len(s) -> S] BY DEF IsSeq
<1>2. s \in Seq(S) /\ e \in S BY <1>1, SeqDef
<1> HIDE DEF S
<1>3. /\ l \in Seq(S) /\ Len(l) = Len(s) + 1
      /\ \A i \in 1 .. Len(s) : l[i] = s[i]
      /\ l[Len(s) + 1] = e
  BY <1>2, AppendProperties
<1> HIDE DEF l
<1>4. IsSeq(l) BY <1>3, LenProperties DEF IsSeq
<1> QED BY <1>1, <1>3, <1>4 DEF Extends, l

LEMMA ExtendsItself == \A s : IsSeq(s) => Extends(s, s)
BY DEF IsSeq, Extends

(* What was read, and what carries it, is as good on a longer chain.               *)
LEMMA ReadStays ==
  ASSUME NEW l, IsSeq(l), NEW m, Extends(l, m), NEW x, ReadOK(x, l)
  PROVE  ReadOK(x, m)
<1>1. /\ Len(l) \in Nat /\ Len(m) \in Nat /\ Len(l) <= Len(m)
      /\ x.at \in 0 .. Len(l) /\ \A i \in 1 .. Len(l) : m[i] = l[i]
  BY DEF IsSeq, Extends, ReadOK
<1>2. Explained(x.settings, m, x.at)
  <2> SUFFICES ASSUME NEW i \in 1 .. x.at, NEW f \in Sets(m[i].step)
               PROVE  \/ x.settings[f] = m[i].by
                      \/ \E j \in i + 1 .. x.at :
                           \/ f \in Sets(m[j].step)
                           \/ f \in Rewrites(m[j].step) /\ m[j].read < i
    BY DEF Explained
  <2>1. m[i] = l[i] BY <1>1
  <2>2. \A j \in i + 1 .. x.at : m[j] = l[j] BY <1>1
  <2>3. \/ x.settings[f] = l[i].by
        \/ \E j \in i + 1 .. x.at :
             \/ f \in Sets(l[j].step)
             \/ f \in Rewrites(l[j].step) /\ l[j].read < i
    BY <2>1 DEF ReadOK, Explained
  <2> QED BY <2>1, <2>2, <2>3
<1>3. x.at \in 0 .. Len(m) BY <1>1
<1> QED BY <1>2, <1>3 DEF ReadOK

LEMMA CallStays ==
  ASSUME NEW l, IsSeq(l), NEW m, Extends(l, m)
  PROVE  /\ \A call : PlainCall(call, l) => PlainCall(call, m)
         /\ \A inner : Carries(inner, l) => Carries(inner, m)
         /\ \A call : CallOK(call, l) => CallOK(call, m)
         /\ \A q : QueuedOK(q, l) => QueuedOK(q, m)
<1>1. \A call : PlainCall(call, l) => PlainCall(call, m) BY ReadStays DEF PlainCall
<1>2. \A inner : Carries(inner, l) => Carries(inner, m) BY <1>1 DEF Carries
<1>3. \A call : CallOK(call, l) => CallOK(call, m) BY <1>1, <1>2 DEF CallOK
<1>4. \A q : QueuedOK(q, l) => QueuedOK(q, m) BY <1>1 DEF QueuedOK
<1> QED BY <1>1, <1>2, <1>3, <1>4

-----------------------------------------------------------------------------------
(* The chain.  What a call sets is a setting; a call that rewrites the others      *)
(* leaves each explained as it was when the call's script read it.                 *)
LEMMA SetsFields ==
  ASSUME NEW step, GoodStep(step) PROVE Sets(step) \subseteq Settings
BY DEF GoodStep, Sets, Settings, MarketFields, Feeds

LEMMA WritingExplained ==
  ASSUME NEW c, ChainOK(c), NEW call, PlainCall(call, c.landed),
         NEW e, e.step = call.step, e.by = call.by, e.read = call.read.at
  PROVE  LET l == Append(c.landed, e)
         IN  Explained(AfterWriting(c.settings, call), l, Len(l))
<1> DEFINE l == Append(c.landed, e)
           n == Len(c.landed)
           w == AfterWriting(c.settings, call)
           k == call.read.at
<1>1. /\ n \in Nat /\ Len(l) = n + 1 /\ l[n + 1] = e /\ \A i \in 1 .. n : l[i] = c.landed[i]
  BY AppendIs DEF ChainOK, IsSeq
<1>2. /\ k \in 0 .. n /\ Explained(call.read.settings, c.landed, k)
      /\ Explained(c.settings, c.landed, n)
  BY DEF PlainCall, ReadOK, ChainOK
<1>3. GoodStep(e.step) /\ \A i \in 1 .. n : GoodStep(c.landed[i].step)
  BY DEF PlainCall, ChainOK, LandedOK
<1>4. \A f \in Settings :
        w[f] = IF f \in Sets(e.step) THEN e.by
               ELSE IF f \in Rewrites(e.step) THEN call.read.settings[f] ELSE c.settings[f]
  BY DEF AfterWriting, ChainOK
<1> HIDE DEF l, n, w, k
<1> SUFFICES ASSUME NEW i \in 1 .. n + 1, NEW f \in Sets(l[i].step)
             PROVE  \/ w[f] = l[i].by
                    \/ \E j \in i + 1 .. n + 1 :
                         \/ f \in Sets(l[j].step)
                         \/ f \in Rewrites(l[j].step) /\ l[j].read < i
  BY <1>1 DEF Explained, l, w
<1>5. f \in Settings
  <2>1. GoodStep(l[i].step) BY <1>1, <1>3
  <2> QED BY <2>1, SetsFields
<1>6. CASE i = n + 1 BY <1>1, <1>4, <1>5, <1>6
<1>7. CASE i \in 1 .. n
  <2>1. l[i] = c.landed[i] BY <1>1, <1>7
  <2>2. n + 1 \in i + 1 .. n + 1 BY <1>1, <1>7
  <2>3. CASE f \in Sets(e.step) BY <1>1, <2>2, <2>3
  <2>4. CASE f \in Rewrites(e.step) /\ k < i
    <3>1. l[n + 1].read < i BY <1>1, <2>4 DEF k
    <3> QED BY <1>1, <2>2, <2>4, <3>1
  <2>5. CASE f \notin Sets(e.step) /\ f \in Rewrites(e.step) /\ ~(k < i)
    <3>1. i \in 1 .. k BY <1>1, <1>2, <1>7, <2>5
    <3>2. \/ call.read.settings[f] = c.landed[i].by
          \/ \E j \in i + 1 .. k : \/ f \in Sets(c.landed[j].step)
                                   \/ f \in Rewrites(c.landed[j].step) /\ c.landed[j].read < i
      BY <1>2, <2>1, <3>1 DEF Explained
    <3>3. i + 1 .. k \subseteq i + 1 .. n + 1 /\ \A j \in i + 1 .. k : l[j] = c.landed[j]
      BY <1>1, <1>2, <1>7
    <3>4. w[f] = call.read.settings[f] BY <1>4, <1>5, <2>5
    <3> QED BY <2>1, <3>2, <3>3, <3>4
  <2>6. CASE f \notin Sets(e.step) /\ f \notin Rewrites(e.step)
    <3>1. \/ c.settings[f] = c.landed[i].by
          \/ \E j \in i + 1 .. n : \/ f \in Sets(c.landed[j].step)
                                   \/ f \in Rewrites(c.landed[j].step) /\ c.landed[j].read < i
      BY <1>2, <1>7, <2>1 DEF Explained
    <3>2. i + 1 .. n \subseteq i + 1 .. n + 1 /\ \A j \in i + 1 .. n : l[j] = c.landed[j]
      BY <1>1, <1>7
    <3>3. w[f] = c.settings[f] BY <1>4, <1>5, <2>6
    <3> QED BY <2>1, <3>1, <3>2, <3>3
  <2> QED BY <2>3, <2>4, <2>5, <2>6
<1> QED BY <1>1, <1>6, <1>7

(* What a transaction leaves of the chain: its owners, or the Safe where there was *)
(* another; and what has landed, with its own at the end.                          *)
Follows(c, d) ==
  /\ ChainOK(d) /\ Extends(c.landed, d.landed)
  /\ d.home = c.home /\ d.proxyAdminOwner = c.proxyAdminOwner
  /\ d.timelockAdmin = c.timelockAdmin /\ c.moved \subseteq d.moved
SameClocks(c, d) == d.time = c.time /\ d.nonce = c.nonce /\ d.safeNonces = c.safeNonces

LEMMA FollowsItself == \A c : ChainOK(c) => Follows(c, c)
BY ExtendsItself DEF Follows, ChainOK

LEMMA ApplyKeeps ==
  ASSUME NEW c, ChainOK(c), NEW sender, NEW call, PlainCall(call, c.landed),
         NEW since, sender = "timelock" => c.time >= since + Delay
  PROVE  LET d == Apply(c, sender, call, since)
         IN  /\ Follows(c, d) /\ SameClocks(c, d)
             /\ d.landed = Append(c.landed, Entry(c, sender, call, since))
<1> DEFINE d == Apply(c, sender, call, since)
           e == Entry(c, sender, call, since)
           step == call.step
<1>1. /\ DOMAIN d = ChainFields
      /\ d.home = c.home /\ d.proxyAdminOwner = c.proxyAdminOwner
      /\ d.timelockAdmin = c.timelockAdmin /\ d.queued = c.queued
  BY DEF Apply, ChainOK, ChainFields
<1>2. SameClocks(c, d) BY DEF Apply, ChainOK, ChainFields, SameClocks
<1>3. /\ d.moved = IF step.fn = "transferOwnership" THEN c.moved \cup {step.to} ELSE c.moved
      /\ d.settings = AfterWriting(c.settings, call) /\ d.landed = Append(c.landed, e)
  BY DEF Apply, ChainOK, ChainFields
<1>4. d.grants = (c.grants \ UsesUp(sender, step)) \cup
        (IF step.grantee = "none" THEN {} ELSE {GrantOf(sender, step)})
  BY DEF Apply, ChainOK, ChainFields
<1>5. /\ e.step = step /\ e.by = call.by /\ e.read = call.read.at
      /\ e.sender = sender /\ e.since = since /\ e.at = c.time
  BY DEF Entry
<1> HIDE DEF d, e
<1>6. /\ IsSeq(d.landed) /\ Extends(c.landed, d.landed)
      /\ Len(d.landed) = Len(c.landed) + 1 /\ d.landed[Len(c.landed) + 1] = e
      /\ \A i \in 1 .. Len(c.landed) : d.landed[i] = c.landed[i]
  BY <1>3, AppendIs DEF ChainOK
<1>7. Explained(d.settings, d.landed, Len(d.landed))
  BY <1>3, <1>5, WritingExplained
<1>8. \A i \in 1 .. Len(d.landed) : LandedOK(d.landed[i])
  <2>1. LandedOK(e) BY <1>5 DEF LandedOK, PlainCall
  <2>2. Len(c.landed) \in Nat BY DEF ChainOK, IsSeq
  <2> QED BY <1>6, <2>1, <2>2 DEF ChainOK
<1>9. \A q \in d.queued : QueuedOK(q, d.landed) BY <1>1, <1>6, CallStays DEF ChainOK
<1>10. d.moved \cap Feeds = {} /\ c.moved \subseteq d.moved
  BY <1>3 DEF ChainOK, PlainCall, GoodStep
<1>11. \A g \in d.grants : g[2] # "none"
  <2>1. GrantOf(sender, step)[2] # "none" BY DEF GrantOf, PlainCall, GoodStep
  <2> QED BY <1>4, <2>1 DEF ChainOK
<1>12. DOMAIN d.settings = Settings BY <1>3 DEF AfterWriting, ChainOK
<1>13. ChainOK(d)
  BY <1>1, <1>2, <1>6, <1>7, <1>8, <1>9, <1>10, <1>11, <1>12 DEF ChainOK, SameClocks
<1> QED BY <1>1, <1>2, <1>3, <1>6, <1>10, <1>13 DEF Follows, d, e

(* The Timelock's queue: what is taken from it was announced in time.              *)
LEMMA UnqueueKeeps ==
  ASSUME NEW c, ChainOK(c), NEW out
  PROVE  LET d == [c EXCEPT !.queued = @ \ out] IN Follows(c, d) /\ SameClocks(c, d)
<1> DEFINE d == [c EXCEPT !.queued = @ \ out]
<1>1. /\ DOMAIN d = ChainFields /\ d.queued = c.queued \ out
      /\ d.home = c.home /\ d.proxyAdminOwner = c.proxyAdminOwner
      /\ d.timelockAdmin = c.timelockAdmin /\ d.moved = c.moved /\ d.grants = c.grants
      /\ d.settings = c.settings /\ d.landed = c.landed
  BY DEF ChainOK, ChainFields
<1>2. SameClocks(c, d) BY DEF ChainOK, ChainFields, SameClocks
<1> HIDE DEF d
<1>3. ChainOK(d) BY <1>1, <1>2 DEF ChainOK, SameClocks
<1> QED BY <1>1, <1>2, <1>3, ExtendsItself DEF Follows, ChainOK, d

LEMMA QueueKeeps ==
  ASSUME NEW c, ChainOK(c), NEW call, CallOK(call, c.landed), call.inner # <<>>,
         AfterDelay(c, call)
  PROVE  LET d == queueTransaction(c, call)
         IN  Follows(c, d) /\ SameClocks(c, d) /\ d.landed = c.landed
<1> DEFINE d == queueTransaction(c, call)
           q == [call |-> call.inner[1], eta |-> call.eta, since |-> c.time]
<1>1. /\ DOMAIN d = ChainFields /\ d.queued = c.queued \cup {q}
      /\ d.home = c.home /\ d.proxyAdminOwner = c.proxyAdminOwner
      /\ d.timelockAdmin = c.timelockAdmin /\ d.moved = c.moved /\ d.grants = c.grants
      /\ d.settings = c.settings /\ d.landed = c.landed
  BY DEF ChainOK, ChainFields, queueTransaction
<1>2. SameClocks(c, d) BY DEF ChainOK, ChainFields, SameClocks, queueTransaction
<1>3. QueuedOK(q, c.landed)
  <2>1. Carries(call.inner, c.landed) BY DEF CallOK, PlainCall
  <2>2. q.call = call.inner[1] /\ q.eta = call.eta /\ q.since = c.time OBVIOUS
  <2>3. call.eta \in Nat /\ c.time \in Nat /\ call.eta >= c.time + Delay
    BY DEF CallOK, ChainOK, AfterDelay
  <2> QED BY <2>1, <2>2, <2>3 DEF Carries, QueuedOK
<1> HIDE DEF d, q
<1>4. ChainOK(d) BY <1>1, <1>2, <1>3 DEF ChainOK, SameClocks
<1> QED BY <1>1, <1>2, <1>4, ExtendsItself DEF Follows, ChainOK, d

LEMMA ExecuteKeeps ==
  ASSUME NEW c, ChainOK(c), NEW call, CallOK(call, c.landed), call.inner # <<>>,
         Queued(c, call) # {}, call.eta <= c.time
  PROVE  LET d == executeTransaction(c, call)
         IN  Follows(c, d) /\ SameClocks(c, d)
<1> DEFINE q == CHOOSE q \in Queued(c, call) : TRUE
           b == [c EXCEPT !.queued = @ \ Queued(c, call)]
           d == Apply(b, "timelock", call.inner[1], q.since)
<1>1. q \in c.queued /\ q.eta = call.eta BY DEF Queued
<1>2. QueuedOK(q, c.landed) /\ c.time \in Nat BY <1>1 DEF ChainOK
<1>3. Follows(c, b) /\ SameClocks(c, b) BY UnqueueKeeps
<1>4. PlainCall(call.inner[1], b.landed)
  <2>1. Carries(call.inner, c.landed) BY DEF CallOK, PlainCall
  <2>2. PlainCall(call.inner[1], c.landed) BY <2>1 DEF Carries
  <2> QED BY <1>3, <2>2, CallStays DEF Follows, ChainOK
<1>5. b.time >= q.since + Delay
  <2>1. call.eta \in Nat BY DEF CallOK
  <2> QED BY <1>1, <1>2, <1>3, <2>1, DelayAssumption DEF QueuedOK, SameClocks
<1> HIDE DEF b, q
<1>6. Follows(b, d) /\ SameClocks(b, d)
  <2>1. ChainOK(b) BY <1>3 DEF Follows
  <2> QED BY <1>4, <1>5, <2>1, ApplyKeeps
<1>7. Extends(c.landed, d.landed)
  <2>1. IsSeq(c.landed) /\ IsSeq(b.landed) /\ IsSeq(d.landed)
    BY <1>3, <1>6 DEF Follows, ChainOK
  <2> QED BY <1>3, <1>6, <2>1 DEF Follows, Extends, IsSeq
<1>8. executeTransaction(c, call) = d BY DEF executeTransaction, b, q
<1> HIDE DEF d
<1> QED BY <1>3, <1>6, <1>7, <1>8 DEF Follows, SameClocks

LEMMA LandKeeps ==
  ASSUME NEW c, ChainOK(c), NEW call, CallOK(call, c.landed),
         NEW sender \in {"deployer"} \cup Safes, Allowed(c, sender, call)
  PROVE  /\ Follows(c, Land(c, sender, call)) /\ SameClocks(c, Land(c, sender, call))
         /\ call.inner = <<>> => Land(c, sender, call).landed =
              Append(c.landed, Entry(c, sender, call, c.time))
<1>1. CASE call.inner = <<>>
  <2>1. PlainCall(call, c.landed)
    <3>1. <<>> # <<call.inner[1]>> OBVIOUS
    <3> QED BY <1>1, <3>1 DEF CallOK, Carries
  <2>2. Land(c, sender, call) = Apply(c, sender, call, c.time)
    BY <1>1 DEF Land, Plain
  <2>3. sender # "timelock" BY DEF Safes
  <2>4. /\ Follows(c, Apply(c, sender, call, c.time))
        /\ SameClocks(c, Apply(c, sender, call, c.time))
        /\ Apply(c, sender, call, c.time).landed =
             Append(c.landed, Entry(c, sender, call, c.time))
    BY <2>1, <2>3, ApplyKeeps
  <2> QED BY <2>2, <2>4
<1>2. CASE call.inner # <<>>
  <2>1. call.step.fn \in {"queueTransaction", "executeTransaction"}
    BY <1>2 DEF CallOK, PlainCall
  <2>2. CASE call.step.fn = "queueTransaction"
    <3>1. AfterDelay(c, call) BY <1>2, <2>2 DEF Allowed, Plain
    <3>2. Land(c, sender, call) = queueTransaction(c, call) BY <1>2, <2>2 DEF Land, Plain
    <3> QED BY <1>2, <3>1, <3>2, QueueKeeps
  <2>3. CASE call.step.fn = "executeTransaction"
    <3>1. Queued(c, call) # {} /\ call.eta <= c.time BY <1>2, <2>3 DEF Allowed, Plain
    <3>2. Land(c, sender, call) = executeTransaction(c, call) BY <1>2, <2>3 DEF Land, Plain
    <3> QED BY <1>2, <3>1, <3>2, ExecuteKeeps
  <2> QED BY <2>1, <2>2, <2>3
<1> QED BY <1>1, <1>2

(* The nonces and the clock move by themselves.                                    *)
LEMMA NoncesKeep ==
  ASSUME NEW c, ChainOK(c)
  PROVE  /\ LET d == [c EXCEPT !.nonce = @ + 1]
            IN  Follows(c, d) /\ d.landed = c.landed /\ d.nonce = c.nonce + 1
                /\ d.safeNonces = c.safeNonces
         /\ \A s \in Safes : LET d == [c EXCEPT !.safeNonces[s] = @ + 1]
            IN  Follows(c, d) /\ d.landed = c.landed /\ d.nonce = c.nonce
                /\ d.safeNonces = [c.safeNonces EXCEPT ![s] = @ + 1]
         /\ Follows(c, [c EXCEPT !.time = @ + 1])
<1>1. ASSUME NEW d, DOMAIN d = ChainFields, d.home = c.home,
             d.proxyAdminOwner = c.proxyAdminOwner, d.timelockAdmin = c.timelockAdmin,
             d.moved = c.moved, d.grants = c.grants, d.settings = c.settings,
             d.queued = c.queued, d.landed = c.landed,
             d.time \in Nat, d.nonce \in Nat, d.safeNonces \in [Safes -> Nat]
      PROVE  Follows(c, d)
  <2>1. ChainOK(d) BY <1>1 DEF ChainOK
  <2> QED BY <1>1, <2>1, ExtendsItself DEF Follows, ChainOK
<1>2. ASSUME NEW d, d = [c EXCEPT !.nonce = @ + 1]
      PROVE  /\ Follows(c, d) /\ d.landed = c.landed /\ d.nonce = c.nonce + 1
             /\ d.safeNonces = c.safeNonces
  <2>1. /\ d.nonce = c.nonce + 1 /\ d.safeNonces = c.safeNonces /\ d.time = c.time
        /\ DOMAIN d = ChainFields /\ d.home = c.home
        /\ d.proxyAdminOwner = c.proxyAdminOwner /\ d.timelockAdmin = c.timelockAdmin
    BY <1>2 DEF ChainOK, ChainFields
  <2>2. /\ d.moved = c.moved /\ d.grants = c.grants /\ d.settings = c.settings
        /\ d.queued = c.queued /\ d.landed = c.landed
    BY <1>2 DEF ChainOK, ChainFields
  <2>3. d.time \in Nat /\ d.nonce \in Nat /\ d.safeNonces \in [Safes -> Nat]
    BY <2>1 DEF ChainOK
  <2>4. Follows(c, d) BY <1>1, <2>1, <2>2, <2>3
  <2> QED BY <2>1, <2>2, <2>4
<1>3. ASSUME NEW s \in Safes, NEW d, d = [c EXCEPT !.safeNonces[s] = @ + 1]
      PROVE  /\ Follows(c, d) /\ d.landed = c.landed /\ d.nonce = c.nonce
             /\ d.safeNonces = [c.safeNonces EXCEPT ![s] = @ + 1]
  <2>1. /\ d.nonce = c.nonce /\ d.time = c.time
        /\ d.safeNonces = [c.safeNonces EXCEPT ![s] = @ + 1]
        /\ DOMAIN d = ChainFields /\ d.home = c.home
        /\ d.proxyAdminOwner = c.proxyAdminOwner /\ d.timelockAdmin = c.timelockAdmin
    BY <1>3 DEF ChainOK, ChainFields
  <2>2. /\ d.moved = c.moved /\ d.grants = c.grants /\ d.settings = c.settings
        /\ d.queued = c.queued /\ d.landed = c.landed
    BY <1>3 DEF ChainOK, ChainFields
  <2>3. d.time \in Nat /\ d.nonce \in Nat /\ d.safeNonces \in [Safes -> Nat]
    BY <2>1 DEF ChainOK
  <2>4. Follows(c, d) BY <1>1, <2>1, <2>2, <2>3
  <2> QED BY <2>1, <2>2, <2>4
<1>4. ASSUME NEW d, d = [c EXCEPT !.time = @ + 1] PROVE Follows(c, d)
  <2>1. /\ d.nonce = c.nonce /\ d.safeNonces = c.safeNonces /\ d.time = c.time + 1
        /\ DOMAIN d = ChainFields /\ d.home = c.home
        /\ d.proxyAdminOwner = c.proxyAdminOwner /\ d.timelockAdmin = c.timelockAdmin
    BY <1>4 DEF ChainOK, ChainFields
  <2>2. /\ d.moved = c.moved /\ d.grants = c.grants /\ d.settings = c.settings
        /\ d.queued = c.queued /\ d.landed = c.landed
    BY <1>4 DEF ChainOK, ChainFields
  <2>3. d.time \in Nat /\ d.nonce \in Nat /\ d.safeNonces \in [Safes -> Nat]
    BY <2>1 DEF ChainOK
  <2> QED BY <1>1, <2>1, <2>2, <2>3
<1> QED BY <1>2, <1>3, <1>4

LEMMA FollowsOn ==
  ASSUME NEW b, NEW c, NEW d, ChainOK(b), Follows(b, c), Follows(c, d) PROVE Follows(b, d)
<1>1. IsSeq(b.landed) /\ IsSeq(c.landed) /\ IsSeq(d.landed) BY DEF Follows, ChainOK
<1>2. Extends(b.landed, d.landed) BY <1>1 DEF Follows, Extends, IsSeq
<1> QED BY <1>2 DEF Follows

-----------------------------------------------------------------------------------
(* The runs and what waits, while transactions of others land.                     *)
LEMMA OthersStay ==
  ASSUME NEW c, ChainOK(c), NEW d, Follows(c, d)
  PROVE  /\ \A to : OwnerOf(c, to) = "safe" => OwnerOf(d, to) = "safe"
         /\ \A r : RunOK(r, c) => RunOK(r, d)
         /\ \A t : SentOK(t, c) => SentOK(t, d)
         /\ \A p : PendingOK(p, c) => PendingOK(p, d)
<1>1. \A to : OwnerOf(c, to) = "safe" => OwnerOf(d, to) = "safe" BY DEF OwnerOf, Follows
<1>2. /\ \A x : ReadOK(x, c.landed) => ReadOK(x, d.landed)
      /\ \A inner : Carries(inner, c.landed) => Carries(inner, d.landed)
      /\ \A call : CallOK(call, c.landed) => CallOK(call, d.landed)
  BY ReadStays, CallStays DEF ChainOK, Follows
<1>3. d.timelockAdmin = c.timelockAdmin BY DEF Follows
<1>4. ASSUME NEW r, RunOK(r, c) PROVE RunOK(r, d)
  <2>1. Active(r) => RoutedOK(r, d) BY <1>1, <1>2, <1>3, <1>4 DEF RunOK, RoutedOK
  <2> QED BY <1>2, <1>4, <2>1 DEF RunOK
<1>5. \A t : SentOK(t, c) => SentOK(t, d) BY <1>2 DEF SentOK
<1>6. \A p : PendingOK(p, c) => PendingOK(p, d) BY <1>1, <1>2, <1>3 DEF PendingOK
<1> QED BY <1>1, <1>4, <1>5, <1>6

(* A script that ends, one that goes on to its next step, and one that stays at    *)
(* its step with another ticket, nonce or list.                                    *)
LEMMA EndedIs ==
  ASSUME NEW r, NEW c, GoodScript(r.script), NEW phase \in {"done", "stopped"}
  PROVE  LET e == Ended(r, phase)
         IN  RunOK(e, c) /\ e.phase = phase /\ e.script = r.script /\ ~Active(e)
<1> DEFINE e == Ended(r, phase)
<1>1. /\ DOMAIN e = RunFields /\ e.phase = phase /\ e.script = r.script
      /\ e.menu = {} /\ e.ticket = 0 /\ e.nonce = 0 /\ e.eta = 0 /\ e.failed \in BOOLEAN
  BY DEF Ended, Idle, RunFields
<1> HIDE DEF e
<1>2. ~Active(e) /\ e.phase # "new" BY <1>1 DEF Active
<1>3. RunOK(e, c) BY <1>1, <1>2 DEF RunOK
<1> QED BY <1>1, <1>2, <1>3 DEF e

LEMMA AdvancedIs ==
  ASSUME NEW r, NEW c, RunOK(r, c), Active(r)
  PROVE  LET a == Advanced(r)
         IN  /\ RunOK(a, c) /\ a.script = r.script
             /\ r.next < Len(r.script) =>
                  /\ a.phase = "ready" /\ a.next = r.next + 1 /\ a.nonce = r.nonce
                  /\ a.failed = r.failed
             /\ ~(r.next < Len(r.script)) =>
                  /\ ~Active(a) /\ a.phase # "new"
                  /\ a.phase = IF r.failed THEN "stopped" ELSE "done"
<1> DEFINE a == Advanced(r)
<1>1. Len(r.script) \in Nat /\ r.next \in 1 .. Len(r.script) BY DEF RunOK, GoodScript
<1>2. CASE r.next < Len(r.script)
  <2>1. /\ DOMAIN a = RunFields /\ a.phase = "ready" /\ a.script = r.script
        /\ a.next = r.next + 1 /\ a.menu = r.menu /\ a.read = r.read
        /\ a.nonce = r.nonce /\ a.failed = r.failed
    BY <1>2 DEF Advanced, RunOK, RunFields
  <2>2. a.route = "none" /\ a.ticket = 0 /\ a.eta = 0 /\ a.inner = <<>>
    BY <1>2 DEF Advanced, RunOK, RunFields
  <2> HIDE DEF a
  <2>3. RoutedOK(a, c) BY <2>1, <2>2 DEF RoutedOK
  <2>4. a.next \in 1 .. Len(a.script) BY <1>1, <1>2, <2>1
  <2>5. RunOK(a, c) BY <2>1, <2>2, <2>3, <2>4 DEF RunOK, Active
  <2> QED BY <1>2, <2>1, <2>5 DEF a
<1>3. CASE ~(r.next < Len(r.script))
  <2> DEFINE phase == IF r.failed THEN "stopped" ELSE "done"
  <2>1. a = Ended(r, phase) BY <1>3 DEF Advanced
  <2>2. phase \in {"done", "stopped"} /\ GoodScript(r.script) BY DEF RunOK
  <2>3. phase # "new" OBVIOUS
  <2>4. phase = IF r.failed THEN "stopped" ELSE "done" OBVIOUS
  <2> HIDE DEF phase, a
  <2>5. RunOK(a, c) /\ a.phase = phase /\ a.script = r.script /\ ~Active(a)
    BY <2>1, <2>2, EndedIs
  <2> QED BY <1>3, <2>3, <2>4, <2>5 DEF a
<1> QED BY <1>2, <1>3

LEMMA TouchedIs ==
  ASSUME NEW r, NEW c, RunOK(r, c), Active(r), NEW s, DOMAIN s = RunFields, Active(s),
         s.menu = r.menu, s.script = r.script, s.next = r.next, s.route = r.route,
         s.eta = r.eta, s.inner = r.inner, s.read = r.read,
         s.ticket \in Nat, s.nonce \in Nat, s.failed \in BOOLEAN,
         s.phase = "numbered" =>
           r.script[r.next].via = "propose" \/ r.route = "propose"
  PROVE  RunOK(s, c)
<1>1. RoutedOK(s, c) BY DEF RunOK, RoutedOK
<1> QED BY <1>1 DEF RunOK, Active

(* The call of the step a run is at.                                               *)
LEMMA CallIs ==
  ASSUME NEW o \in Operators, NEW c, RunOK(run[o], c), Active(run[o])
  PROVE  LET call == Call(o)
         IN  /\ CallOK(call, c.landed) /\ GoodStep(At(o))
             /\ call.by = o /\ call.no = run[o].next /\ call.inner = run[o].inner
             /\ call.read = run[o].read /\ call.eta = run[o].eta
             /\ call.step = IF run[o].inner # <<>> /\ At(o).via = "upgrade"
                            THEN Direct("timelock", "queueTransaction") ELSE At(o)
             /\ run[o].inner = <<>> => PlainCall(call, c.landed)
<1> DEFINE call == Call(o)
           r == run[o]
<1>1. /\ call.by = o /\ call.no = r.next /\ call.inner = r.inner
      /\ call.read = r.read /\ call.eta = r.eta
      /\ call.step = IF r.inner # <<>> /\ At(o).via = "upgrade"
                     THEN Direct("timelock", "queueTransaction") ELSE At(o)
  BY DEF Call
<1> HIDE DEF call
<1>2. GoodStep(At(o)) /\ r.next \in Nat /\ r.eta \in Nat /\ ReadOK(r.read, c.landed)
  BY DEF At, RunOK, GoodScript
<1>3. r.inner = <<>> => PlainCall(call, c.landed) BY <1>1, <1>2 DEF PlainCall
<1>4. call.by \in Operators /\ call.no \in Nat /\ call.eta \in Nat BY <1>1, <1>2
<1>5. r.inner = <<>> => CallOK(call, c.landed) BY <1>3, <1>4 DEF CallOK
<1>6. ASSUME r.inner # <<>> PROVE CallOK(call, c.landed)
  <2>1. Carries(r.inner, c.landed) /\ At(o).via \in {"upgrade", "admin"}
    BY <1>6 DEF RunOK, RoutedOK, At
  <2>2. call.step.fn \in {"queueTransaction", "executeTransaction"}
    <3>1. Direct("timelock", "queueTransaction").fn = "queueTransaction" BY DEF Direct, Step
    <3>2. At(o).via = "admin" => At(o).fn = "executeTransaction" BY <1>2 DEF GoodStep
    <3> QED BY <1>1, <1>6, <2>1, <3>1, <3>2
  <2>3. Carries(call.inner, c.landed) BY <1>1, <2>1
  <2> QED BY <1>4, <2>2, <2>3 DEF CallOK
<1> QED BY <1>1, <1>2, <1>3, <1>5, <1>6 DEF call

(* A step of one script, and a step of the chain.                                  *)
LEMMA OneMoves ==
  ASSUME Sound, NEW o \in Operators, NEW r, RunOK(r, chain), run' = [run EXCEPT ![o] = r],
         UNCHANGED chain,
         \A t \in sent' : t \in sent \/ SentOK(t, chain),
         \A p \in pending' : p \in pending \/ PendingOK(p, chain)
  PROVE  Sound'
<1>1. RunsOK(run', chain) BY DEF Sound, RunsOK
<1> QED BY <1>1 DEF Sound

LEMMA ChainMoves ==
  ASSUME Sound, Follows(chain, chain'), UNCHANGED run,
         sent' \subseteq sent, pending' \subseteq pending
  PROVE  Sound'
<1>1. RunsOK(run', chain') BY OthersStay DEF Sound, RunsOK
<1>2. \A t \in sent' : SentOK(t, chain') BY OthersStay DEF Sound
<1>3. \A p \in pending' : PendingOK(p, chain') BY OthersStay DEF Sound
<1> QED BY <1>1, <1>2, <1>3 DEF Sound, Follows

-----------------------------------------------------------------------------------
(* Sound is kept, action by action.                                                *)
LEMMA Typed ==
  ASSUME Sound, NEW o \in Operators
  PROVE  /\ ChainOK(chain) /\ RunOK(run[o], chain) /\ run = [p \in Operators |-> run[p]]
         /\ DOMAIN run[o] = RunFields /\ GoodScript(run[o].script)
BY DEF Sound, RunsOK, RunOK

LEMMA StartSound ==
  ASSUME Sound, NEW o \in Operators, NEW s \in run[o].menu, Start(o, s)
  PROVE  Sound'
<1> DEFINE r == [Idle EXCEPT !.phase = "ready", !.script = s,
                   !.read = [at |-> Len(chain.landed), settings |-> chain.settings,
                             balances |-> chain.balances, time |-> 0],
                   !.nonce = chain.nonce, !.list = pending]
           x == [at |-> Len(chain.landed), settings |-> chain.settings,
                 balances |-> chain.balances, time |-> 0]
           n == IF s = <<>> THEN Ended(r, "done") ELSE r
<1>1. ChainOK(chain) /\ RunOK(run[o], chain) BY Typed
<1>2. GoodScript(s) BY <1>1, ScriptsGood DEF RunOK
<1>3. /\ DOMAIN r = RunFields /\ r.phase = "ready" /\ r.script = s /\ r.menu = {}
      /\ r.next = 1 /\ r.route = "none" /\ r.ticket = 0 /\ r.eta = 0 /\ r.inner = <<>>
      /\ r.read = x /\ r.nonce = chain.nonce /\ r.failed \in BOOLEAN
  BY DEF Idle, RunFields
<1>4. run' = [run EXCEPT ![o] = n]
  <2> HIDE DEF Ended
  <2> QED BY DEF Start
<1> HIDE DEF r
<1>5. ReadOK(x, chain.landed) BY <1>1 DEF ReadOK, ChainOK, IsSeq
<1>6. RunOK(n, chain)
  <2>1. CASE s = <<>> BY <1>2, <1>3, <2>1, EndedIs
  <2>2. CASE s # <<>>
    <3>1. 1 \in 1 .. Len(s) BY <1>2, <2>2 DEF GoodScript
    <3>2. RoutedOK(r, chain) BY <1>3 DEF RoutedOK
    <3>3. r.nonce \in Nat BY <1>1, <1>3 DEF ChainOK
    <3>4. RunOK(r, chain) BY <1>2, <1>3, <1>5, <3>1, <3>2, <3>3 DEF RunOK
    <3> QED BY <2>2, <3>4
  <2> QED BY <2>1, <2>2
<1> HIDE DEF n
<1>7. chain' = chain /\ sent' = sent /\ pending' = pending BY DEF Start
<1> QED BY <1>4, <1>6, <1>7, OneMoves

LEMMA SkipSound ==
  ASSUME Sound, NEW o \in Operators, Skip(o) PROVE Sound'
<1>1. RunOK(Advanced(run[o]), chain) BY Typed, AdvancedIs DEF Skip, IsAt, Active
<1>2. /\ run' = [run EXCEPT ![o] = Advanced(run[o])]
      /\ chain' = chain /\ sent' = sent /\ pending' = pending
  BY DEF Skip
<1> HIDE DEF Advanced
<1> QED BY <1>1, <1>2, OneMoves

LEMMA StopSound ==
  ASSUME Sound, NEW o \in Operators, Stop(o) PROVE Sound'
<1>1. RunOK(Ended(run[o], "stopped"), chain) BY Typed, EndedIs
<1>2. /\ run' = [run EXCEPT ![o] = Ended(run[o], "stopped")]
      /\ chain' = chain /\ sent' = sent /\ pending' = pending
  BY DEF Stop
<1> QED BY <1>1, <1>2, OneMoves

LEMMA authExecSound ==
  ASSUME Sound, NEW o \in Operators, authExec(o) PROVE Sound'
<1> DEFINE r == run[o]
           route == RouteOf(o, OwnerOf(chain, At(o).to))
           s == [r EXCEPT !.route = route]
<1>1. RunOK(r, chain) /\ DOMAIN r = RunFields /\ r.phase = "ready" /\ Active(r)
  BY Typed DEF authExec, IsAt, Active
<1>2. /\ At(o).via \in {"auth", "checked"} /\ r.route = "none" /\ r.inner = <<>>
      /\ At(o) = r.script[r.next]
  BY <1>1 DEF authExec, RunOK, RoutedOK, At
<1>3. /\ run' = [run EXCEPT ![o] = IF route = "throw" THEN Ended(r, "stopped") ELSE s]
      /\ chain' = chain /\ sent' = sent /\ pending' = pending
  BY DEF authExec
<1>4. /\ route \in {"propose", "send", "throw"}
      /\ route = "propose" => OwnerOf(chain, At(o).to) = "safe"
  BY DEF RouteOf
<1> HIDE DEF route
<1>5. CASE route = "throw"
  <2>1. RunOK(Ended(r, "stopped"), chain) BY Typed, EndedIs
  <2> QED BY <1>3, <1>5, <2>1, OneMoves
<1>6. CASE route # "throw"
  <2>1. /\ DOMAIN s = RunFields /\ s.phase = "ready" /\ s.menu = r.menu
        /\ s.script = r.script /\ s.next = r.next /\ s.route = route /\ s.ticket = r.ticket
        /\ s.eta = r.eta /\ s.inner = <<>> /\ s.read = r.read
    BY <1>1, <1>2 DEF RunFields
  <2>2. s.nonce = r.nonce /\ s.failed = r.failed BY <1>1 DEF RunFields
  <2> HIDE DEF s
  <2>3. RoutedOK(s, chain) BY <1>2, <1>4, <1>6, <2>1 DEF RoutedOK
  <2>4. RunOK(s, chain) BY <1>1, <2>1, <2>2, <2>3 DEF RunOK
  <2>5. run' = [run EXCEPT ![o] = s] BY <1>3, <1>6
  <2> QED BY <1>3, <2>4, <2>5, OneMoves
<1> QED BY <1>5, <1>6

LEMMA upgradeSound ==
  ASSUME Sound, NEW o \in Operators, upgrade(o) PROVE Sound'
<1> DEFINE r == run[o]
           owner == chain.proxyAdminOwner
           q == [r EXCEPT !.route = "timelock", !.inner = <<Call(o)>>,
                          !.read.time = chain.time, !.eta = chain.time + Delay + Margin]
           s == CASE owner = "safe" -> [r EXCEPT !.route = "propose"]
                  [] owner = "deployer" -> [r EXCEPT !.route = "send"]
                  [] OTHER -> q
<1>1. RunOK(r, chain) /\ DOMAIN r = RunFields /\ r.phase = "ready" /\ Active(r)
  BY Typed DEF upgrade, IsAt, Active
<1>2. /\ At(o).via = "upgrade" /\ r.route = "none" /\ r.inner = <<>>
      /\ At(o) = r.script[r.next] /\ GoodStep(At(o))
  BY <1>1, CallIs DEF upgrade, RunOK, RoutedOK, At
<1>3. /\ run' = [run EXCEPT ![o] = s]
      /\ chain' = chain /\ sent' = sent /\ pending' = pending
  <2> HIDE DEF Call
  <2> QED BY DEF upgrade
<1>4. ASSUME NEW route \in {"propose", "send"}, route = "propose" => owner = "safe"
      PROVE  RunOK([r EXCEPT !.route = route], chain)
  <2> DEFINE t == [r EXCEPT !.route = route]
  <2>1. /\ DOMAIN t = RunFields /\ t.phase = "ready" /\ t.menu = r.menu
        /\ t.script = r.script /\ t.next = r.next /\ t.route = route /\ t.ticket = r.ticket
        /\ t.eta = r.eta /\ t.inner = <<>> /\ t.read = r.read
    BY <1>1, <1>2 DEF RunFields
  <2>2. t.nonce = r.nonce /\ t.failed = r.failed BY <1>1 DEF RunFields
  <2> HIDE DEF t
  <2>3. route = "propose" => OwnerOf(chain, At(o).to) = "safe"
    BY <1>2, <1>4 DEF GoodStep, OwnerOf
  <2>4. RoutedOK(t, chain) BY <1>2, <2>1, <2>3 DEF RoutedOK
  <2> QED BY <1>1, <2>1, <2>2, <2>4 DEF RunOK, t
<1>5. RunOK(q, chain)
  <2> DEFINE x == [r.read EXCEPT !.time = chain.time]
             inner == <<Call(o)>>
             eta == chain.time + Delay + Margin
  <2>1. /\ DOMAIN q = RunFields /\ q.phase = "ready" /\ q.menu = r.menu
        /\ q.script = r.script /\ q.next = r.next /\ q.route = "timelock"
        /\ q.ticket = r.ticket /\ q.eta = eta /\ q.inner = inner /\ q.read = x
    BY <1>1 DEF RunFields
  <2>2. q.nonce = r.nonce /\ q.failed = r.failed BY <1>1 DEF RunFields
  <2>3. ReadOK(r.read, chain.landed) /\ chain.time \in Nat
    BY <1>1, Typed DEF RunOK, ChainOK
  <2>4. ReadOK(x, chain.landed) /\ x.time = chain.time
    <3>1. /\ DOMAIN x = DOMAIN r.read /\ x.time = chain.time
          /\ x.at = r.read.at /\ x.settings = r.read.settings
      BY <2>3 DEF ReadOK
    <3> HIDE DEF x
    <3> QED BY <2>3, <3>1 DEF ReadOK
  <2>5. PlainCall(Call(o), chain.landed) BY <1>1, <1>2, CallIs
  <2>6. inner[1] = Call(o) /\ inner # <<>> OBVIOUS
  <2>7. Carries(inner, chain.landed) BY <2>5, <2>6 DEF Carries
  <2>8. eta \in Nat /\ eta = x.time + Delay + Margin
    BY <2>3, <2>4, DelayAssumption, MarginAssumption
  <2> HIDE DEF q, x, inner, eta
  <2>9. RoutedOK(q, chain) BY <1>2, <2>1, <2>4, <2>6, <2>7, <2>8 DEF RoutedOK
  <2> QED BY <1>1, <2>1, <2>2, <2>4, <2>8, <2>9 DEF RunOK
<1> HIDE DEF q
<1>6. RunOK(s, chain)
  <2>1. CASE owner = "safe" BY <1>4, <2>1
  <2>2. CASE owner = "deployer" BY <1>4, <2>2
  <2>3. CASE owner # "safe" /\ owner # "deployer" BY <1>5, <2>3
  <2> QED BY <2>1, <2>2, <2>3
<1> HIDE DEF s
<1> QED BY <1>3, <1>6, OneMoves

LEMMA throughTimelockSound ==
  ASSUME Sound, NEW o \in Operators, throughTimelock(o) PROVE Sound'
<1> DEFINE r == run[o]
           way == IF chain.timelockAdmin = "safe" THEN "propose" ELSE "send"
           s(eta, inner) == [r EXCEPT !.route = way, !.eta = eta, !.inner = inner]
<1>1. RunOK(r, chain) /\ DOMAIN r = RunFields /\ r.phase = "ready" /\ Active(r)
  BY Typed DEF throughTimelock, IsAt, Active
<1>2. chain' = chain /\ sent' = sent /\ pending' = pending BY DEF throughTimelock
<1>3. RoutedOK(r, chain) /\ At(o) = r.script[r.next] BY <1>1 DEF RunOK, At
<1>4. ASSUME NEW eta \in Nat, NEW inner, inner # <<>>, Carries(inner, chain.landed),
             At(o).via \in {"upgrade", "admin"},
             At(o).via = "upgrade" => eta = r.read.time + Delay + Margin,
             run' = [run EXCEPT ![o] = s(eta, inner)]
      PROVE  Sound'
  <2> DEFINE t == s(eta, inner)
  <2>1. /\ DOMAIN t = RunFields /\ t.phase = "ready" /\ t.menu = r.menu
        /\ t.script = r.script /\ t.next = r.next /\ t.route = way /\ t.ticket = r.ticket
        /\ t.eta = eta /\ t.inner = inner /\ t.read = r.read
    BY <1>1 DEF RunFields
  <2>2. t.nonce = r.nonce /\ t.failed = r.failed BY <1>1 DEF RunFields
  <2>3. way \in {"propose", "send"} /\ (way = "propose" => chain.timelockAdmin = "safe")
    OBVIOUS
  <2> HIDE DEF t, way
  <2>4. RoutedOK(t, chain) BY <1>3, <1>4, <2>1, <2>3 DEF RoutedOK
  <2>5. RunOK(t, chain) BY <1>1, <1>4, <2>1, <2>2, <2>4 DEF RunOK
  <2> QED BY <1>2, <1>4, <2>5, OneMoves DEF t
<1>5. CASE r.route = "timelock" /\ byAdmin(o, r.eta, r.inner)
  <2>1. /\ r.inner # <<>> /\ Carries(r.inner, chain.landed) /\ At(o).via = "upgrade"
        /\ r.eta = r.read.time + Delay + Margin /\ r.eta \in Nat
    BY <1>1, <1>3, <1>5 DEF RoutedOK, RunOK
  <2> QED BY <1>4, <1>5, <2>1 DEF byAdmin
<1>6. CASE At(o).via = "admin" /\ \E q \in chain.queued : byAdmin(o, q.eta, <<q.call>>)
  <2>1. PICK q \in chain.queued : byAdmin(o, q.eta, <<q.call>>) BY <1>6
  <2>2. QueuedOK(q, chain.landed) BY Typed DEF ChainOK
  <2> DEFINE inner == <<q.call>>
  <2>3. inner # <<>> /\ inner[1] = q.call /\ inner = <<inner[1]>> OBVIOUS
  <2>4. Carries(inner, chain.landed) BY <2>2, <2>3 DEF Carries, QueuedOK
  <2>5. q.eta \in Nat BY <2>2 DEF QueuedOK
  <2>6. run' = [run EXCEPT ![o] = s(q.eta, inner)] BY <2>1 DEF byAdmin
  <2> HIDE DEF inner
  <2> QED BY <1>4, <1>6, <2>3, <2>4, <2>5, <2>6
<1> QED BY <1>5, <1>6 DEF throughTimelock

-----------------------------------------------------------------------------------
(* The least of some naturals, and the greatest of finitely many.                  *)
LEMMA LeastNat ==
  ASSUME NEW B \in SUBSET Nat, B # {}
  PROVE  \E k \in B : \A j \in B : k <= j
<1>1. IsWellFoundedOn(OpToRel(<, Nat), Nat) BY NatLessThanWellFounded
<1>2. \E k \in B : \A j \in B : ~ (<<j, k>> \in OpToRel(<, Nat)) BY <1>1, WFMin
<1>3. PICK k \in B : \A j \in B : ~ (<<j, k>> \in OpToRel(<, Nat)) BY <1>2
<1>4. \A j \in B : ~(j < k) BY <1>3 DEF OpToRel
<1>5. \A j \in B : k <= j BY <1>4
<1> QED BY <1>5

LEMMA MinIs ==
  ASSUME NEW B \in SUBSET Nat, B # {}
  PROVE  Min(B) \in B /\ \A j \in B : Min(B) <= j
BY LeastNat DEF Min

LEMMA MaxIs ==
  ASSUME NEW B \in SUBSET Nat, B # {}, IsFiniteSet(B)
  PROVE  Max(B) \in B /\ \A j \in B : j <= Max(B)
<1> DEFINE Up(x) == {y \in B : y >= x}
           C == {Cardinality(Up(x)) : x \in B}
<1>1. \A x \in B : IsFiniteSet(Up(x)) BY FS_Subset
<1>2. C \in SUBSET Nat /\ C # {} BY <1>1, FS_CardinalityType
<1>3. PICK k \in C : \A j \in C : k <= j
  <2> HIDE DEF C
  <2> QED BY <1>2, LeastNat
<1>4. PICK x \in B : k = Cardinality(Up(x)) BY <1>3
<1>5. \A y \in B : Cardinality(Up(x)) <= Cardinality(Up(y)) BY <1>3, <1>4
<1>6. ASSUME NEW y \in B, y > x PROVE FALSE
  <2>1. Up(y) \subseteq Up(x) /\ x \in Up(x) /\ x \notin Up(y)
    <3>1. x \in Nat /\ y \in Nat /\ \A z \in B : z \in Nat OBVIOUS
    <3>2. x \in Up(x) /\ x \notin Up(y) BY <1>6, <3>1
    <3>3. \A z \in B : z >= y => z >= x BY <1>6, <3>1
    <3> QED BY <3>2, <3>3
  <2>2. IsFiniteSet(Up(x)) /\ Cardinality(Up(x)) <= Cardinality(Up(y)) BY <1>1, <1>5
  <2> HIDE DEF Up
  <2>3. /\ Cardinality(Up(x)) \in Nat /\ Cardinality(Up(y)) \in Nat
        /\ Cardinality(Up(y)) <= Cardinality(Up(x))
        /\ Cardinality(Up(x)) = Cardinality(Up(y)) => Up(x) = Up(y)
    BY <1>1, <2>1, FS_Subset, FS_CardinalityType
  <2> QED BY <2>1, <2>2, <2>3
<1>7. \A y \in B : x >= y BY <1>6
<1> HIDE DEF C, Up
<1> QED BY <1>4, <1>7 DEF Max

(* The nonce the deployer's account uses next is the first that is free.           *)
LEMMA NextNonceIs ==
  ASSUME Sound, IsFiniteSet(sent)
  PROVE  /\ NextNonce \in Nat /\ NextNonce >= chain.nonce
         /\ \A t \in sent : t.nonce # NextNonce
         /\ \A n \in chain.nonce .. NextNonce - 1 : \E t \in sent : t.nonce = n
<1> DEFINE a == chain.nonce
           b == a + Cardinality(sent)
           free == {n \in a .. b : \A t \in sent : t.nonce # n}
<1>1. a \in Nat /\ b \in Nat /\ Cardinality(sent) \in Nat
  BY FS_CardinalityType DEF Sound, ChainOK
<1>2. free # {}
  <2> SUFFICES ASSUME \A n \in a .. b : \E t \in sent : t.nonce = n PROVE FALSE
    OBVIOUS
  <2> DEFINE f == [n \in a .. b |-> CHOOSE t \in sent : t.nonce = n]
  <2>1. f \in [a .. b -> sent] /\ \A n \in a .. b : f[n].nonce = n OBVIOUS
  <2>2. IsFiniteSet(a .. b) /\ Cardinality(a .. b) = Cardinality(sent) + 1
    <3>1. a \in Int /\ b \in Int /\ ~(a > b) /\ b - a + 1 = Cardinality(sent) + 1 BY <1>1
    <3> HIDE DEF a, b
    <3> QED BY <3>1, FS_Interval
  <2>3. Cardinality(sent) < Cardinality(a .. b) BY <1>1, <2>2
  <2> HIDE DEF f, b
  <2>4. \E x, y \in a .. b : x # y /\ f[x] = f[y] BY <2>1, <2>2, <2>3, FS_PigeonHole
  <2> QED BY <2>1, <2>4
<1>3. NextNonce = Min(free) BY DEF NextNonce
<1>4. free \in SUBSET Nat BY <1>1
<1>5. Min(free) \in free /\ \A j \in free : Min(free) <= j
  <2> HIDE DEF free
  <2> QED BY <1>2, <1>4, MinIs
<1>6. ASSUME NEW n \in chain.nonce .. NextNonce - 1 PROVE \E t \in sent : t.nonce = n
  <2>1. n \in a .. b /\ n \notin free BY <1>1, <1>3, <1>5
  <2> QED BY <2>1
<1> QED BY <1>1, <1>3, <1>5, <1>6

(* SafeWrapper's is above all that are pending, or at hand.                        *)
LEMMA getNextNonceIs ==
  ASSUME Sound, IsFiniteSet(pending), NEW safe \in Safes
  PROVE  /\ getNextNonce(safe) \in Nat /\ getNextNonce(safe) >= chain.safeNonces[safe]
         /\ \A q \in pending : q.safe = safe => q.nonce < getNextNonce(safe)
<1> DEFINE own == {q \in pending : q.safe = safe}
           above == {p.nonce + 1 : p \in own}
           all == {chain.safeNonces[safe]} \cup above
<1>1. chain.safeNonces[safe] \in Nat /\ \A p \in pending : p.nonce \in Nat
  BY DEF Sound, ChainOK, PendingOK
<1>2. all \in SUBSET Nat /\ all # {} BY <1>1
<1>3. IsFiniteSet(own) BY FS_Subset
<1>4. IsFiniteSet(above)
  <2> DEFINE f == [p \in own |-> p.nonce + 1]
  <2>1. f \in Surjection(own, above) BY DEF Surjection
  <2> HIDE DEF f, own, above
  <2> QED BY <1>3, <2>1, FS_Surjection
<1>5. IsFiniteSet(all)
  <2> HIDE DEF above
  <2> QED BY <1>4, FS_Singleton, FS_Union
<1>6. getNextNonce(safe) = Max(all) BY DEF getNextNonce
<1>7. Max(all) \in all /\ \A j \in all : j <= Max(all)
  <2> HIDE DEF all
  <2> QED BY <1>2, <1>5, MaxIs
<1>8. Max(all) \in Nat BY <1>2, <1>7
<1>9. chain.safeNonces[safe] <= Max(all) BY <1>7
<1>10. ASSUME NEW q \in pending, q.safe = safe PROVE q.nonce < Max(all)
  <2>1. q.nonce + 1 \in all BY <1>10
  <2>2. q.nonce + 1 <= Max(all) BY <1>7, <2>1
  <2> HIDE DEF all
  <2> QED BY <1>1, <1>8, <2>2
<1> QED BY <1>6, <1>8, <1>9, <1>10

LEMMA sendTransactionSound ==
  ASSUME Sound, IsFiniteSet(sent), NEW o \in Operators, sendTransaction(o) PROVE Sound'
<1> DEFINE r == run[o]
           t == [nonce |-> NextNonce, call |-> Call(o)]
           w == [r EXCEPT !.phase = "waiting", !.ticket = NextNonce]
<1>1. /\ RunOK(r, chain) /\ DOMAIN r = RunFields /\ r.phase = "ready" /\ Active(r)
      /\ GoodScript(r.script)
  BY Typed DEF sendTransaction, IsAt, Active
<1>2. NextNonce \in Nat BY NextNonceIs
<1>3. SentOK(t, chain)
  <2> HIDE DEF Call, NextNonce
  <2> QED BY <1>1, <1>2, CallIs DEF SentOK
<1>4. RunOK(w, chain)
  <2>1. /\ DOMAIN w = RunFields /\ w.phase = "waiting" /\ w.menu = r.menu
        /\ w.script = r.script /\ w.next = r.next /\ w.route = r.route
        /\ w.eta = r.eta /\ w.inner = r.inner /\ w.read = r.read
    BY <1>1 DEF RunFields
  <2>2. w.nonce = r.nonce /\ w.failed = r.failed /\ w.ticket = NextNonce
    BY <1>1 DEF RunFields
  <2>3. w.nonce \in Nat /\ w.failed \in BOOLEAN /\ w.ticket \in Nat /\ Active(w)
    BY <1>1, <1>2, <2>1, <2>2 DEF RunOK, Active
  <2>4. w.phase # "numbered" BY <2>1
  <2> HIDE DEF w
  <2> QED BY <1>1, <2>1, <2>3, <2>4, TouchedIs
<1>5. RunOK(Advanced(r), chain) /\ RunOK(Ended(r, "stopped"), chain)
  BY <1>1, AdvancedIs, EndedIs
<1>6. chain' = chain /\ pending' = pending BY DEF sendTransaction
<1>7. CASE Allowed(chain, "deployer", Call(o))
  <2>1. sent' = sent \cup {t} BY <1>7 DEF sendTransaction
  <2>2. run' = [run EXCEPT ![o] = IF Waits(o) THEN w ELSE Advanced(r)]
    BY <1>7 DEF sendTransaction
  <2> DEFINE s == IF Waits(o) THEN w ELSE Advanced(r)
  <2>3. RunOK(s, chain) BY <1>4, <1>5
  <2> HIDE DEF s, t
  <2> QED BY <1>3, <1>6, <2>1, <2>2, <2>3, OneMoves DEF s
<1>8. CASE ~Allowed(chain, "deployer", Call(o))
  <2>1. sent' = sent /\ run' = [run EXCEPT ![o] = Ended(r, "stopped")]
    BY <1>8 DEF sendTransaction
  <2> QED BY <1>5, <1>6, <2>1, OneMoves
<1> QED BY <1>7, <1>8

(* A run stays sound whichever nonce it counts, or if it has failed.               *)
LEMMA NonceAside ==
  ASSUME NEW r, NEW c, RunOK(r, c), NEW n \in Nat, NEW b \in BOOLEAN
  PROVE  /\ RunOK([r EXCEPT !.nonce = n], c)
         /\ RunOK([r EXCEPT !.nonce = n, !.failed = b], c)
<1>1. ASSUME NEW s, DOMAIN s = RunFields, s.nonce \in Nat, s.failed \in BOOLEAN,
             s.phase = r.phase, s.menu = r.menu, s.script = r.script, s.next = r.next,
             s.route = r.route, s.ticket = r.ticket, s.eta = r.eta, s.inner = r.inner,
             s.read = r.read
      PROVE  RunOK(s, c)
  <2>1. RoutedOK(r, c) => RoutedOK(s, c) BY <1>1 DEF RoutedOK
  <2> QED BY <1>1, <2>1 DEF RunOK, Active
<1>2. ASSUME NEW s, s = [r EXCEPT !.nonce = n] PROVE RunOK(s, c)
  <2>1. /\ DOMAIN s = RunFields /\ s.nonce = n /\ s.failed = r.failed
        /\ s.phase = r.phase /\ s.menu = r.menu /\ s.script = r.script /\ s.next = r.next
    BY <1>2 DEF RunOK, RunFields
  <2>2. /\ s.route = r.route /\ s.ticket = r.ticket /\ s.eta = r.eta
        /\ s.inner = r.inner /\ s.read = r.read
    BY <1>2 DEF RunOK, RunFields
  <2>3. s.nonce \in Nat /\ s.failed \in BOOLEAN BY <2>1 DEF RunOK
  <2> QED BY <1>1, <2>1, <2>2, <2>3
<1>3. ASSUME NEW s, s = [r EXCEPT !.nonce = n, !.failed = b] PROVE RunOK(s, c)
  <2>1. /\ DOMAIN s = RunFields /\ s.nonce = n /\ s.failed = b
        /\ s.phase = r.phase /\ s.menu = r.menu /\ s.script = r.script /\ s.next = r.next
    BY <1>3 DEF RunOK, RunFields
  <2>2. /\ s.route = r.route /\ s.ticket = r.ticket /\ s.eta = r.eta
        /\ s.inner = r.inner /\ s.read = r.read
    BY <1>3 DEF RunOK, RunFields
  <2> QED BY <1>1, <2>1, <2>2
<1> QED BY <1>2, <1>3

LEMMA sendAtNonceSound ==
  ASSUME Sound, NEW o \in Operators, sendAtNonce(o) PROVE Sound'
<1> DEFINE r == run[o]
           n == r.nonce
           t == [nonce |-> n, call |-> Call(o)]
           others == {u \in sent : u.nonce # n}
           w == [r EXCEPT !.phase = "waiting", !.ticket = Awaited(o)]
           a == [Advanced(r) EXCEPT !.nonce = IF Last(o) THEN 0 ELSE n + 1]
           f == [Advanced(r) EXCEPT !.nonce = n + 1, !.failed = TRUE]
<1>1. /\ RunOK(r, chain) /\ DOMAIN r = RunFields /\ r.phase = "ready" /\ Active(r)
      /\ GoodScript(r.script) /\ n \in Nat
  BY Typed DEF sendAtNonce, IsAt, Active, RunOK
<1>2. SentOK(t, chain)
  <2> HIDE DEF Call
  <2> QED BY <1>1, CallIs DEF SentOK
<1>3. RunOK(w, chain)
  <2>1. /\ DOMAIN w = RunFields /\ w.phase = "waiting" /\ w.menu = r.menu
        /\ w.script = r.script /\ w.next = r.next /\ w.route = r.route
        /\ w.eta = r.eta /\ w.inner = r.inner /\ w.read = r.read
    BY <1>1 DEF RunFields
  <2>2. w.nonce = r.nonce /\ w.failed = r.failed /\ w.ticket = n
    BY <1>1 DEF RunFields, Awaited
  <2>3. w.nonce \in Nat /\ w.failed \in BOOLEAN /\ w.ticket \in Nat /\ Active(w)
    BY <1>1, <2>1, <2>2 DEF RunOK, Active
  <2>4. w.phase # "numbered" BY <2>1
  <2> HIDE DEF w
  <2> QED BY <1>1, <2>1, <2>3, <2>4, TouchedIs
<1>4. RunOK(Advanced(r), chain) /\ RunOK(Ended(r, "stopped"), chain)
  BY <1>1, AdvancedIs, EndedIs
<1>5. RunOK(a, chain)
  <2> DEFINE m == IF Last(o) THEN 0 ELSE n + 1
  <2>1. m \in Nat BY <1>1
  <2> HIDE DEF m, Advanced
  <2>2. RunOK([Advanced(r) EXCEPT !.nonce = m], chain) BY <1>4, <2>1, NonceAside
  <2> QED BY <2>2 DEF m
<1>6. RunOK(f, chain)
  <2>1. n + 1 \in Nat BY <1>1
  <2> HIDE DEF Advanced, n
  <2> QED BY <1>4, <2>1, NonceAside
<1>7. chain' = chain /\ pending' = pending BY DEF sendAtNonce
<1> DEFINE s == IF Last(o) /\ ~r.failed THEN w ELSE a
           e == IF Last(o) THEN Ended(r, "stopped") ELSE f
<1>8. RunOK(s, chain) /\ RunOK(e, chain) BY <1>3, <1>4, <1>5, <1>6
<1>9. \/ sent' = others \cup {t} /\ run' = [run EXCEPT ![o] = s]
      \/ sent' = sent /\ run' = [run EXCEPT ![o] = e]
  <2> HIDE DEF Advanced, Ended, Awaited
  <2> QED BY DEF sendAtNonce
<1>10. others \subseteq sent OBVIOUS
<1> HIDE DEF s, e, t, others
<1>11. CASE sent' = others \cup {t} /\ run' = [run EXCEPT ![o] = s]
  BY <1>2, <1>7, <1>8, <1>10, <1>11, OneMoves
<1>12. CASE sent' = sent /\ run' = [run EXCEPT ![o] = e]
  BY <1>7, <1>8, <1>12, OneMoves
<1> QED BY <1>9, <1>11, <1>12

LEMMA proposeTransactionSound ==
  ASSUME Sound, IsFiniteSet(pending), NEW o \in Operators, proposeTransaction(o)
  PROVE  Sound'
<1> DEFINE r == run[o]
           n == IF At(o).nonce # 0 THEN At(o).nonce ELSE getNextNonce(At(o).safe)
           s == [r EXCEPT !.phase = "numbered", !.ticket = n]
<1>1. /\ RunOK(r, chain) /\ DOMAIN r = RunFields /\ r.phase = "ready" /\ Active(r)
  BY Typed DEF proposeTransaction, IsAt, Active
<1>2. n \in Nat /\ (At(o).via = "propose" \/ r.route = "propose")
  <2>1. GoodStep(At(o)) BY <1>1, CallIs
  <2> QED BY <2>1, getNextNonceIs DEF GoodStep, proposeTransaction, Proposes
<1>3. run' = [run EXCEPT ![o] = s]
  <2> HIDE DEF n
  <2> QED BY Typed DEF proposeTransaction, n
<1>4. chain' = chain /\ sent' = sent /\ pending' = pending BY DEF proposeTransaction
<1> HIDE DEF n
<1>5. /\ DOMAIN s = RunFields /\ s.phase = "numbered" /\ s.menu = r.menu
      /\ s.script = r.script /\ s.next = r.next /\ s.route = r.route
      /\ s.eta = r.eta /\ s.inner = r.inner /\ s.read = r.read
  BY <1>1 DEF RunFields
<1>6. s.nonce = r.nonce /\ s.failed = r.failed /\ s.ticket = n
  BY <1>1 DEF RunFields
<1>7. /\ s.nonce \in Nat /\ s.failed \in BOOLEAN /\ s.ticket \in Nat /\ Active(s)
      /\ r.script[r.next].via = "propose" \/ r.route = "propose"
  BY <1>1, <1>2, <1>5, <1>6 DEF RunOK, Active, At
<1> HIDE DEF s
<1>8. RunOK(s, chain) BY <1>1, <1>5, <1>7, TouchedIs
<1> QED BY <1>3, <1>4, <1>8, OneMoves

LEMMA postTransactionSound ==
  ASSUME Sound, NEW o \in Operators, postTransaction(o) PROVE Sound'
<1> DEFINE r == run[o]
           p == [nonce |-> r.ticket, safe |-> At(o).safe, call |-> Call(o)]
<1>1. /\ RunOK(r, chain) /\ r.phase = "numbered" /\ Active(r)
      /\ GoodScript(r.script) /\ r.ticket \in Nat
  BY Typed DEF postTransaction, IsAt, Active, RunOK
<1>2. /\ CallOK(Call(o), chain.landed) /\ GoodStep(At(o)) /\ RoutedOK(r, chain)
      /\ At(o) = r.script[r.next]
  <2> HIDE DEF Call
  <2> QED BY <1>1, CallIs DEF RunOK, At
<1>3. /\ Call(o).inner = r.inner /\ Call(o).read = r.read /\ Call(o).eta = r.eta
      /\ Call(o).step = IF r.inner # <<>> /\ At(o).via = "upgrade"
                        THEN Direct("timelock", "queueTransaction") ELSE At(o)
  BY <1>1, CallIs
<1>4. PendingOK(p, chain)
  <2> DEFINE q == Direct("timelock", "queueTransaction")
             call == Call(o)
  <2>1. q.via = "direct" /\ q.fn = "queueTransaction" BY DEF Direct, Step
  <2>2. p.nonce = r.ticket /\ p.safe = At(o).safe /\ p.call = call OBVIOUS
  <2> HIDE DEF p, q, call, Call
  <2>3. ASSUME call.step.via \in {"auth", "checked", "upgrade"}
        PROVE  call.inner = <<>> /\ p.safe = "safe" /\ OwnerOf(chain, call.step.to) = "safe"
    <3>1. call.step = At(o) /\ At(o).via \in {"auth", "checked", "upgrade"}
      BY <1>3, <2>1, <2>3 DEF q, call
    <3>2. r.inner = <<>> BY <1>2, <1>3, <2>1, <2>3, <3>1 DEF RoutedOK, q, call
    <3>3. At(o).safe = "safe" BY <1>2, <3>1 DEF GoodStep
    <3>4. r.route = "propose" BY <1>1, <1>2, <3>1 DEF RoutedOK
    <3> QED BY <1>2, <1>3, <2>2, <3>1, <3>2, <3>3, <3>4 DEF RoutedOK, call
  <2>4. ASSUME call.step.fn = "queueTransaction"
        PROVE  /\ call.inner # <<>> /\ p.safe = chain.timelockAdmin
               /\ call.read.time \in Nat
               /\ call.eta = call.read.time + Delay + Margin
    <3>1. r.inner # <<>> /\ At(o).via = "upgrade" BY <1>2, <1>3, <2>4 DEF GoodStep, call
    <3>2. r.route = "propose" BY <1>1, <1>2, <3>1 DEF RoutedOK
    <3>3. chain.timelockAdmin = "safe" /\ r.eta = r.read.time + Delay + Margin
      BY <1>2, <3>1, <3>2 DEF RoutedOK
    <3>4. At(o).safe = "safe" BY <1>2, <3>1 DEF GoodStep
    <3>5. r.read.time \in Nat BY <1>1 DEF RunOK, ReadOK
    <3> QED BY <1>3, <2>2, <3>1, <3>3, <3>4, <3>5 DEF call
  <2>5. p.nonce \in Nat /\ p.safe \in Safes /\ CallOK(call, chain.landed)
    BY <1>1, <1>2, <2>2 DEF GoodStep, call
  <2> QED BY <2>2, <2>3, <2>4, <2>5 DEF PendingOK
<1>5. RunOK(Advanced(r), chain) /\ RunOK(Ended(r, "stopped"), chain)
  BY <1>1, AdvancedIs, EndedIs
<1>6. chain' = chain /\ sent' = sent BY DEF postTransaction
<1>7. \/ pending' = pending \cup {p} /\ run' = [run EXCEPT ![o] = Advanced(r)]
      \/ pending' = pending /\ run' = [run EXCEPT ![o] = Ended(r, "stopped")]
  <2> HIDE DEF Advanced, Ended
  <2> QED BY DEF postTransaction
<1> HIDE DEF p
<1>8. CASE pending' = pending \cup {p} /\ run' = [run EXCEPT ![o] = Advanced(r)]
  BY <1>4, <1>5, <1>6, <1>8, OneMoves
<1>9. CASE pending' = pending /\ run' = [run EXCEPT ![o] = Ended(r, "stopped")]
  BY <1>5, <1>6, <1>9, OneMoves
<1> QED BY <1>7, <1>8, <1>9

-----------------------------------------------------------------------------------
(* What a transaction that is mined or executed does to the chain and the nonces.  *)
LEMMA MinedIs ==
  ASSUME Sound, NEW t \in sent,
         chain' = [(IF Allowed(chain, "deployer", t.call)
                    THEN Land(chain, "deployer", t.call) ELSE chain) EXCEPT !.nonce = @ + 1]
  PROVE  /\ Follows(chain, chain') /\ chain'.nonce = chain.nonce + 1
         /\ chain'.safeNonces = chain.safeNonces
         /\ Allowed(chain, "deployer", t.call) /\ t.call.inner = <<>> =>
              chain'.landed = Append(chain.landed,
                                     Entry(chain, "deployer", t.call, chain.time))
<1> DEFINE lands == Allowed(chain, "deployer", t.call)
           d == IF lands THEN Land(chain, "deployer", t.call) ELSE chain
<1>1. ChainOK(chain) /\ CallOK(t.call, chain.landed) BY DEF Sound, SentOK
<1>2. /\ Follows(chain, d) /\ d.nonce = chain.nonce /\ d.safeNonces = chain.safeNonces
      /\ lands /\ t.call.inner = <<>> =>
           d.landed = Append(chain.landed, Entry(chain, "deployer", t.call, chain.time))
  <2>1. CASE lands
    <3>1. /\ Follows(chain, Land(chain, "deployer", t.call))
          /\ SameClocks(chain, Land(chain, "deployer", t.call))
          /\ t.call.inner = <<>> => Land(chain, "deployer", t.call).landed =
               Append(chain.landed, Entry(chain, "deployer", t.call, chain.time))
      BY <1>1, <2>1, LandKeeps
    <3> HIDE DEF lands
    <3> QED BY <2>1, <3>1 DEF SameClocks
  <2>2. CASE ~lands BY <1>1, <2>2, FollowsItself
  <2> QED BY <2>1, <2>2
<1>3. chain' = [d EXCEPT !.nonce = @ + 1] OBVIOUS
<1> HIDE DEF d, lands
<1>4. ChainOK(d) BY <1>2 DEF Follows
<1>5. /\ Follows(d, chain') /\ chain'.landed = d.landed /\ chain'.nonce = d.nonce + 1
      /\ chain'.safeNonces = d.safeNonces
  BY <1>3, <1>4, NoncesKeep
<1>6. Follows(chain, chain') BY <1>1, <1>2, <1>5, FollowsOn
<1> QED BY <1>2, <1>5, <1>6 DEF lands

LEMMA ExecutedIs ==
  ASSUME Sound, NEW p \in pending, execTransaction(p)
  PROVE  /\ Follows(chain, chain') /\ chain'.nonce = chain.nonce
         /\ chain'.safeNonces = [chain.safeNonces EXCEPT ![p.safe] = @ + 1]
<1> DEFINE d == Land(chain, p.safe, p.call)
<1>1. ChainOK(chain) /\ CallOK(p.call, chain.landed) /\ p.safe \in Safes
  BY DEF Sound, PendingOK
<1>2. Allowed(chain, p.safe, p.call) BY DEF execTransaction, Executable
<1>3. Follows(chain, d) /\ SameClocks(chain, d) BY <1>1, <1>2, LandKeeps
<1>4. chain' = [d EXCEPT !.safeNonces[p.safe] = @ + 1] BY DEF execTransaction
<1> HIDE DEF d
<1>5. ChainOK(d) BY <1>3 DEF Follows
<1>6. /\ Follows(d, chain') /\ chain'.nonce = d.nonce
      /\ chain'.safeNonces = [d.safeNonces EXCEPT ![p.safe] = @ + 1]
  BY <1>1, <1>4, <1>5, NoncesKeep
<1>7. Follows(chain, chain') BY <1>1, <1>3, <1>6, FollowsOn
<1> QED BY <1>3, <1>6, <1>7 DEF SameClocks

(* A step of one script and of the chain at once.                                  *)
LEMMA BothMove ==
  ASSUME Sound, Follows(chain, chain'), NEW o \in Operators, NEW r, RunOK(r, chain),
         run' = [run EXCEPT ![o] = r], sent' \subseteq sent, pending' \subseteq pending
  PROVE  Sound'
<1>1. RunsOK(run', chain)  BY DEF Sound, RunsOK
<1>2. RunsOK(run', chain') BY <1>1, OthersStay DEF Sound, RunsOK
<1>3. \A t \in sent' : SentOK(t, chain') BY OthersStay DEF Sound
<1>4. \A p \in pending' : PendingOK(p, chain') BY OthersStay DEF Sound
<1> QED BY <1>2, <1>3, <1>4 DEF Sound, Follows

LEMMA MineSound ==
  ASSUME Sound, Mine PROVE Sound'
<1> USE DEF Mine
<1>1. PICK t \in sent :
        LET o == t.call.by
            lands == Allowed(chain, "deployer", t.call)
        IN /\ chain' = [(IF lands THEN Land(chain, "deployer", t.call) ELSE chain)
                         EXCEPT !.nonce = @ + 1]
           /\ sent' = sent \ {t}
           /\ run' = IF IsAt(o, "waiting") /\ run[o].ticket = t.nonce
                     THEN [run EXCEPT ![o] = IF lands THEN Advanced(@) ELSE Ended(@, "stopped")]
                     ELSE run
           /\ UNCHANGED pending
  <2> HIDE DEF Allowed, Land, Advanced, Ended, IsAt
  <2> QED OBVIOUS
<1> DEFINE o == t.call.by
           lands == Allowed(chain, "deployer", t.call)
           n == IF lands THEN Advanced(run[o]) ELSE Ended(run[o], "stopped")
<1>2. o \in Operators BY DEF Sound, SentOK, CallOK
<1>3. Follows(chain, chain') BY <1>1, MinedIs
<1>4. sent' \subseteq sent /\ pending' \subseteq pending BY <1>1
<1>5. CASE IsAt(o, "waiting") /\ run[o].ticket = t.nonce
  <2>1. RunOK(run[o], chain) /\ Active(run[o]) /\ GoodScript(run[o].script)
    BY <1>2, <1>5, Typed DEF IsAt, Active
  <2>2. RunOK(n, chain) BY <2>1, AdvancedIs, EndedIs
  <2>3. run' = [run EXCEPT ![o] = n]
    <3> HIDE DEF lands, Advanced, Ended
    <3> QED BY <1>1, <1>5 DEF lands
  <2> HIDE DEF n
  <2> QED BY <1>2, <1>3, <1>4, <2>2, <2>3, BothMove
<1>6. CASE ~(IsAt(o, "waiting") /\ run[o].ticket = t.nonce)
  <2>1. run' = run BY <1>1, <1>6
  <2> QED BY <1>3, <1>4, <2>1, ChainMoves
<1> QED BY <1>5, <1>6

LEMMA signersExecuteSound ==
  ASSUME Sound, signersExecute PROVE Sound'
<1>1. PICK p \in pending : execTransaction(p) BY DEF signersExecute
<1>2. Follows(chain, chain') BY <1>1, ExecutedIs
<1>3. sent' \subseteq sent /\ pending' \subseteq pending /\ run' = run
  BY <1>1 DEF signersExecute, execTransaction
<1> QED BY <1>2, <1>3, ChainMoves

LEMMA signersRejectSound ==
  ASSUME Sound, signersReject PROVE Sound'
<1>1. PICK p \in pending : /\ chain' = [chain EXCEPT !.safeNonces[p.safe] = @ + 1]
                           /\ pending' = pending \ SameNonce(p)
  BY DEF signersReject
<1>2. Follows(chain, chain') BY <1>1, NoncesKeep DEF Sound, PendingOK
<1>3. sent' \subseteq sent /\ pending' \subseteq pending /\ run' = run
  BY <1>1 DEF signersReject
<1> QED BY <1>2, <1>3, ChainMoves

LEMMA executePendingTransactionsSound ==
  ASSUME Sound, NEW o \in Operators, executePendingTransactions(o) PROVE Sound'
<1> DEFINE r == run[o]
           list == {p \in r.list : p.safe = "safe"}
           first == {p \in list : \A q \in list : p.nonce <= q.nonce}
           s(p) == [r EXCEPT !.list = @ \ {p}]
<1>1. /\ RunOK(r, chain) /\ DOMAIN r = RunFields /\ r.phase = "ready" /\ Active(r)
      /\ GoodScript(r.script) /\ run = [p \in Operators |-> run[p]]
  BY Typed DEF executePendingTransactions, IsAt, Active
<1>2. sent' = sent BY DEF executePendingTransactions
<1>3. RunOK(Advanced(r), chain) /\ RunOK(Ended(r, "stopped"), chain)
  BY <1>1, AdvancedIs, EndedIs
<1>4. \/ /\ run' = [run EXCEPT ![o] = Advanced(r)] \/ run' = [run EXCEPT ![o] = Ended(r, "stopped")]
         /\ chain' = chain /\ pending' = pending
      \/ \E p \in pending : execTransaction(p) /\ run' = [run EXCEPT ![o] = s(p)]
  <2>1. \/ /\ run' = [run EXCEPT ![o] = Advanced(r)]
           /\ UNCHANGED <<chain, pending, settled>>
        \/ \E p \in first :
             /\ p \in pending /\ execTransaction(p)
             /\ run' = [run EXCEPT ![o].list = @ \ {p}]
        \/ /\ run' = [run EXCEPT ![o] = Ended(r, "stopped")]
           /\ UNCHANGED <<chain, pending, settled>>
    <3> HIDE DEF Advanced, Ended, execTransaction
    <3> QED BY DEF executePendingTransactions
  <2>2. \A p : [run EXCEPT ![o].list = @ \ {p}] = [run EXCEPT ![o] = s(p)] OBVIOUS
  <2> QED BY <2>1, <2>2
<1>5. CASE /\ run' = [run EXCEPT ![o] = Advanced(r)] \/ run' = [run EXCEPT ![o] = Ended(r, "stopped")]
           /\ chain' = chain /\ pending' = pending
  BY <1>2, <1>3, <1>5, OneMoves
<1>6. CASE \E p \in pending : execTransaction(p) /\ run' = [run EXCEPT ![o] = s(p)]
  <2>1. PICK p \in pending : execTransaction(p) /\ run' = [run EXCEPT ![o] = s(p)] BY <1>6
  <2>2. Follows(chain, chain') BY <2>1, ExecutedIs
  <2>3. pending' \subseteq pending BY <2>1 DEF execTransaction
  <2> DEFINE w == s(p)
  <2>4. /\ DOMAIN w = RunFields /\ w.phase = "ready" /\ w.menu = r.menu
        /\ w.script = r.script /\ w.next = r.next /\ w.route = r.route
        /\ w.eta = r.eta /\ w.inner = r.inner /\ w.read = r.read
    BY <1>1 DEF RunFields
  <2>5. w.nonce = r.nonce /\ w.failed = r.failed /\ w.ticket = r.ticket
    BY <1>1 DEF RunFields
  <2>6. w.nonce \in Nat /\ w.failed \in BOOLEAN /\ w.ticket \in Nat /\ Active(w)
    BY <1>1, <2>4, <2>5 DEF RunOK, Active
  <2>7. w.phase # "numbered" BY <2>4
  <2> HIDE DEF w
  <2>8. RunOK(w, chain) BY <1>1, <2>4, <2>6, <2>7, TouchedIs
  <2>9. run' = [run EXCEPT ![o] = w] BY <2>1 DEF w
  <2> QED BY <1>2, <2>2, <2>3, <2>8, <2>9, BothMove
<1> QED BY <1>4, <1>5, <1>6

LEMMA ClockSound ==
  ASSUME Sound, cancelTransaction \/ Tick PROVE Sound'
<1>1. ChainOK(chain) BY DEF Sound
<1>2. Follows(chain, chain')
  <2>1. CASE cancelTransaction
    <3>1. PICK q : chain' = [chain EXCEPT !.queued = @ \ {q}]
      BY <2>1 DEF cancelTransaction
    <3>2. Follows(chain, [chain EXCEPT !.queued = @ \ {q}]) BY <1>1, UnqueueKeeps
    <3> QED BY <3>1, <3>2
  <2>2. CASE Tick BY <1>1, <2>2, NoncesKeep DEF Tick
  <2> QED BY <2>1, <2>2
<1>3. UNCHANGED <<run, sent, pending>> BY DEF cancelTransaction, Tick
<1> QED BY <1>2, <1>3, ChainMoves

(* The steps of a script, and those of the rest.                                   *)
OfScript(o) ==
  \/ \E s \in run[o].menu : Start(o, s)
  \/ Skip(o) \/ authExec(o) \/ upgrade(o) \/ throughTimelock(o)
  \/ sendTransaction(o) \/ sendAtNonce(o) \/ proposeTransaction(o) \/ postTransaction(o)
  \/ executePendingTransactions(o) \/ Stop(o)

LEMMA StepSound ==
  ASSUME Sound, IsFiniteSet(sent), IsFiniteSet(pending), [Next]_vars PROVE Sound'
<1>1. CASE UNCHANGED vars BY <1>1 DEF Sound, vars
<1>2. ASSUME NEW o \in Operators, OfScript(o) PROVE Sound'
  <2>1. CASE \E s \in run[o].menu : Start(o, s) BY <2>1, StartSound
  <2>2. CASE Skip(o) \/ Stop(o) \/ authExec(o) BY <2>2, SkipSound, StopSound, authExecSound
  <2>3. CASE upgrade(o) \/ throughTimelock(o) BY <2>3, upgradeSound, throughTimelockSound
  <2>4. CASE sendTransaction(o) \/ sendAtNonce(o)
    BY <2>4, sendTransactionSound, sendAtNonceSound
  <2>5. CASE proposeTransaction(o) \/ postTransaction(o)
    BY <2>5, proposeTransactionSound, postTransactionSound
  <2>6. CASE executePendingTransactions(o) BY <2>6, executePendingTransactionsSound
  <2> QED BY <1>2, <2>1, <2>2, <2>3, <2>4, <2>5, <2>6 DEF OfScript
<1>3. CASE Mine \/ signersExecute \/ signersReject
  BY <1>3, MineSound, signersExecuteSound, signersRejectSound
<1>4. CASE cancelTransaction \/ Tick BY <1>4, ClockSound
<1> QED BY <1>1, <1>2, <1>3, <1>4 DEF Next, OfScript

-----------------------------------------------------------------------------------
(* Scripts go on: none starts again, and a step that is behind stays behind.       *)
GoesOn(r, s) ==
  /\ s.phase # "new" /\ s.script = r.script
  /\ Active(s) => \/ s.next > r.next
                  \/ s.next = r.next /\ (r.phase = "waiting" => s.phase = "waiting")
On ==
  /\ met' = met
  /\ \A p \in Operators :
       run'[p] = run[p] \/ (Active(run[p]) /\ GoesOn(run[p], run'[p]))

LEMMA OnKeeps ==
  ASSUME Sound, Sound', On
  PROVE  /\ \A p \in Operators : run'[p].script = run[p].script
         /\ \A p \in Operators : Active(run'[p]) => Active(run[p])
         /\ (\E p \in Operators : Explicit(p))' <=> \E p \in Operators : Explicit(p)
         /\ \A p : Undisturbed(p)' <=> Undisturbed(p)
         /\ \A id : Passed(id) => Passed(id)'
<1>1. \A p \in Operators : run'[p].script = run[p].script BY DEF On, GoesOn
<1>2. \A p \in Operators : Active(run'[p]) => Active(run[p]) BY DEF On
<1>3. (\E p \in Operators : Explicit(p))' <=> \E p \in Operators : Explicit(p)
  BY <1>1 DEF Explicit
<1>4. \A p : Undisturbed(p)' <=> Undisturbed(p) BY <1>3 DEF Undisturbed, On
<1>5. \A p \in Operators : /\ Active(run[p]) => run[p].next \in Nat
                           /\ Active(run'[p]) => run'[p].next \in Nat
  BY DEF Sound, RunsOK, RunOK
<1>6. ASSUME NEW id, Passed(id) PROVE Passed(id)'
  <2> DEFINE r == run[id.by]
             s == run'[id.by]
  <2>1. id.by \in Operators /\ id.no \in Nat /\ r.phase # "new" BY <1>6 DEF Passed
  <2>2. s = r \/ (Active(r) /\ GoesOn(r, s)) BY <2>1 DEF On
  <2>3. s.phase # "new" BY <2>1, <2>2 DEF GoesOn
  <2>4. ASSUME Active(s) PROVE id.no < s.next \/ (id.no = s.next /\ s.phase = "waiting")
    <3>1. Active(r) /\ r.next \in Nat /\ s.next \in Nat BY <1>2, <1>5, <2>1, <2>4
    <3>2. id.no < r.next \/ (id.no = r.next /\ r.phase = "waiting") BY <1>6, <3>1 DEF Passed
    <3> HIDE DEF r, s
    <3> QED BY <2>1, <2>2, <2>4, <3>1, <3>2 DEF GoesOn
  <2> QED BY <2>1, <2>3, <2>4 DEF Passed
<1> QED BY <1>1, <1>2, <1>3, <1>4, <1>6

(* What is sent or proposed is known by who, by which step, and from where.        *)
LEMMA IdIs ==
  /\ \A c, f : Id(c, f).by = c.by /\ Id(c, f).no = c.no /\ Id(c, f).from = f
  /\ \A c, d, f, g : Id(c, f) = Id(d, g) <=> SameCall(c, d) /\ f = g
BY DEF Id, SameCall

LEMMA WaitingIs ==
  ASSUME Sound, IdsUnique
  PROVE  /\ \A t, u \in sent : Id(t.call, "deployer") = Id(u.call, "deployer") => t = u
         /\ \A p, q \in pending : Id(p.call, p.safe) = Id(q.call, q.safe) => p = q
         /\ \A t \in sent, p \in pending : Id(t.call, "deployer") # Id(p.call, p.safe)
         /\ \A t \in sent : Id(t.call, "deployer") \in Waiting
         /\ \A p \in pending : Id(p.call, p.safe) \in Waiting
         /\ \A id \in Waiting :
              \/ id.from = "deployer" /\ \E t \in sent : id = Id(t.call, "deployer")
              \/ id.from \in Safes /\ \E p \in pending : id = Id(p.call, p.safe)
<1>1. \A p \in pending : p.safe \in Safes BY DEF Sound, PendingOK
<1>2. "deployer" \notin Safes BY DEF Safes
<1> QED BY <1>1, <1>2, IdIs DEF IdsUnique, Waiting

(* Whoever has something sent is busy; two who are busy at once disturb each other. *)
LEMMA BusyDisturbed ==
  ASSUME Sound, OverlapsMet
  PROVE  /\ \A t \in sent : t.call.by \in Busy
         /\ \A o \in Operators : Active(run[o]) => o \in Busy
         /\ \A o \in Operators : o \in Busy => Active(run[o]) \/ \E t \in sent : t.call.by = o
         /\ \A o, p \in Busy : o # p => ~Undisturbed(o) /\ ~Undisturbed(p)
<1>1. \A t \in sent : t.call.by \in Operators BY DEF Sound, SentOK, CallOK
<1>2. Busy \subseteq Operators BY <1>1 DEF Busy
<1>3. \A o, p \in Busy : o # p => ~Undisturbed(o) /\ ~Undisturbed(p)
  BY <1>2 DEF OverlapsMet, Undisturbed
<1>4. \A o \in Operators : Active(run[o]) <=> run[o].phase \notin {"new", "done", "stopped"}
  BY DEF Sound, RunsOK, RunOK, Active
<1> QED BY <1>1, <1>3, <1>4 DEF Busy

(* A step with which nothing is posted: what it takes from the waiting was at the  *)
(* head, and is settled, or was disturbed.                                         *)
Settling ==
  /\ sent' \subseteq sent /\ pending' \subseteq pending /\ posted' = posted
  /\ settled \subseteq settled' /\ settled' \subseteq settled \cup Waiting
  /\ \A t \in sent : t \notin sent' <=> Id(t.call, "deployer") \in settled'
  /\ \A p \in pending : Id(p.call, p.safe) \in settled' => p \notin pending'
  /\ \A p \in pending :
       p \notin pending' => Id(p.call, p.safe) \in settled' \/ ~Undisturbed(p.call.by)
AtHeads ==
  /\ \A t \in sent : t \notin sent' => t.nonce = chain.nonce /\ t.nonce < chain'.nonce
  /\ \A p \in pending : p \notin pending' => p.nonce = chain.safeNonces[p.safe]
  /\ \A t \in sent' : t.nonce >= chain'.nonce
  /\ \A p \in pending' : p.nonce >= chain'.safeNonces[p.safe]
  /\ chain.nonce <= chain'.nonce
RunsAside ==
  \A p \in Operators :
    /\ run'[p].phase = "numbered" /\ run'[p] # run[p] /\ ~(\E q \in Operators : Explicit(q)) =>
         \A q \in pending : q.safe = At(p)'.safe => q.nonce < run'[p].ticket
    /\ Active(run'[p]) /\ Bursting(run'[p].script) /\ run'[p] # run[p] =>
         run[p].phase = "ready" /\ run'[p].phase = "ready" /\ run'[p].nonce >= run[p].nonce

LEMMA SettlingOrderly ==
  ASSUME Sound, Sound', Orderly, On, Settling, AtHeads, RunsAside
  PROVE  Orderly'
<1> USE DEF Orderly
<1>1. /\ \A p \in Operators : run'[p].script = run[p].script
      /\ \A p \in Operators : Active(run'[p]) => Active(run[p])
      /\ (\E p \in Operators : Explicit(p))' <=> \E p \in Operators : Explicit(p)
      /\ \A p : Undisturbed(p)' <=> Undisturbed(p)
      /\ \A id : Passed(id) => Passed(id)'
  BY OnKeeps
<1>2. Waiting' \subseteq Waiting BY DEF Settling, Waiting
<1>3. /\ \A t \in sent : t.nonce \in Nat /\ t.call.by \in Operators
      /\ \A p \in pending : p.nonce \in Nat /\ p.safe \in Safes
      /\ chain.nonce \in Nat /\ chain'.nonce \in Nat
  BY DEF Sound, ChainOK, SentOK, PendingOK, CallOK
<1>4. IdsPassed'
  BY <1>1, <1>2 DEF IdsPassed, Settling
<1>5. IdsUnique' BY DEF IdsUnique, Settling
<1>6. OverlapsMet'
  <2>1. Busy' \subseteq Busy
    <3>1. \A o \in Operators : o \in Busy' => Active(run'[o]) \/ \E t \in sent' : t.call.by = o
      BY DEF Sound, RunsOK, RunOK, Active, Busy
    <3>2. Busy' \subseteq Operators BY <1>3 DEF Busy, Settling
    <3> QED BY <1>1, <3>1, <3>2, BusyDisturbed DEF Settling
  <2> QED BY <2>1 DEF OverlapsMet, On
<1>7. SentNonces' BY FS_Subset DEF SentNonces, Settling, AtHeads
<1>8. PendingNonces'
  BY <1>1, FS_Subset DEF PendingNonces, Settling, AtHeads
<1>9. NumberedAbove'
  <2> SUFFICES ASSUME NEW o \in Operators, run'[o].phase = "numbered",
                      ~(\E p \in Operators : Explicit(p)),
                      NEW q \in pending', q.safe = At(o)'.safe
               PROVE  q.nonce < run'[o].ticket \/ (q.call.by # o /\ {o, q.call.by} \in met')
    BY <1>1 DEF NumberedAbove
  <2>1. q \in pending /\ met' = met BY DEF Settling, On
  <2>2. CASE run'[o] = run[o]
    <3>1. At(o)' = At(o) BY <2>2 DEF At
    <3> QED BY <2>1, <2>2, <3>1 DEF NumberedAbove
  <2>3. CASE run'[o] # run[o] BY <2>1, <2>3 DEF RunsAside
  <2> QED BY <2>2, <2>3
<1>10. BurstAbove'
  <2> SUFFICES ASSUME NEW o \in Operators, Active(run'[o]), Bursting(run'[o].script)
               PROVE  /\ run'[o].phase = "ready" =>
                           \A t \in sent' : t.call.by = o => t.nonce < run'[o].nonce
                      /\ run'[o].phase = "waiting" =>
                           /\ run'[o].next = Len(run'[o].script) /\ ~run'[o].failed
                           /\ \A t \in sent' : t.call.by = o => t.nonce <= run'[o].ticket
    BY DEF BurstAbove
  <2>1. CASE run'[o] = run[o] BY <2>1 DEF BurstAbove, Settling
  <2>2. CASE run'[o] # run[o]
    <3>1. run[o].phase = "ready" /\ run'[o].phase = "ready" /\ run'[o].nonce >= run[o].nonce
      BY <2>2 DEF RunsAside
    <3>2. \A t \in sent : t.call.by = o => t.nonce < run[o].nonce
      BY <1>1, <3>1 DEF BurstAbove
    <3>3. run[o].nonce \in Nat /\ run'[o].nonce \in Nat BY DEF Sound, RunsOK, RunOK
    <3> QED BY <1>3, <3>1, <3>2, <3>3 DEF Settling
  <2> QED BY <2>1, <2>2
<1>11. NoGap'
  <2> SUFFICES ASSUME NEW o \in Operators, Undisturbed(o), ~Bursting(run[o].script),
                      \A t \in sent' : t.call.by = o,
                      NEW t \in sent', NEW n \in chain'.nonce .. t.nonce
               PROVE  \E u \in sent' : u.nonce = n
    BY <1>1 DEF NoGap
  <2>1. \A u \in sent : u.call.by = o
    <3>1. t \in sent /\ t.call.by = o BY DEF Settling
    <3> QED BY <3>1, BusyDisturbed
  <2>2. n \in chain.nonce .. t.nonce BY <1>3 DEF Settling, AtHeads
  <2>3. PICK u \in sent : u.nonce = n BY <2>1, <2>2 DEF NoGap, Settling
  <2> QED BY <1>3, <2>3 DEF AtHeads
<1>12. WaitInOrder'
  BY <1>1 DEF WaitInOrder, Undisturbing, Settling
<1>13. NoneLost'
  <2>1. Waiting' \cap settled' = {}
    <3>1. /\ \A t \in sent' : Id(t.call, "deployer") \notin settled'
          /\ \A p \in pending' : Id(p.call, p.safe) \notin settled'
      BY DEF Settling
    <3> QED BY <3>1 DEF Waiting
  <2>2. \A id \in Waiting : id \in Waiting' \cup settled' \/ ~Undisturbed(id.by)
    <3>1. \A t \in sent : Id(t.call, "deployer") \in Waiting' \cup settled'
      BY DEF Settling, Waiting
    <3>2. \A p \in pending :
            Id(p.call, p.safe) \in Waiting' \cup settled' \/ ~Undisturbed(p.call.by)
      BY DEF Settling, Waiting
    <3> QED BY <3>1, <3>2, WaitingIs, IdIs
  <2> QED BY <1>1, <2>1, <2>2 DEF NoneLost, Settling
<1>14. TakeEffectInOrder'
  <2> SUFFICES ASSUME NEW j \in DOMAIN posted, NEW i \in 1 .. j - 1,
                      posted[i].from = posted[j].from, posted[j] \in settled',
                      posted[i] \notin settled',
                      Undisturbed(posted[i].by), Undisturbed(posted[j].by)
               PROVE  FALSE
    BY <1>1 DEF TakeEffectInOrder, Settling
  <2>1. posted[i] \notin settled /\ posted[j] \in settled \cup Waiting BY DEF Settling
  <2>2. posted[j] \in Waiting \ settled BY <2>1 DEF TakeEffectInOrder
  <2>3. i \in DOMAIN posted
    <3>1. DOMAIN posted = 1 .. Len(posted) /\ Len(posted) \in Nat BY DEF IdsPassed, IsSeq
    <3> QED BY <3>1
  <2>4. posted[i] \in Waiting BY <2>1, <2>3 DEF NoneLost
  <2>5. CASE posted[j].from = "deployer"
    <3>1. "deployer" \notin Safes BY DEF Safes
    <3>2. PICK t \in sent : posted[i] = Id(t.call, "deployer")
      BY <2>4, <2>5, <3>1, WaitingIs
    <3>3. PICK u \in sent : posted[j] = Id(u.call, "deployer")
      BY <2>2, <2>5, <3>1, WaitingIs
    <3>4. t.nonce < u.nonce BY <3>2, <3>3 DEF WaitInOrder, Undisturbing
    <3>5. u.nonce = chain.nonce BY <3>3 DEF Settling, AtHeads
    <3>6. t.nonce >= chain.nonce BY DEF SentNonces
    <3> QED BY <1>3, <3>4, <3>5, <3>6
  <2>6. CASE posted[j].from # "deployer"
    <3>1. PICK p \in pending : posted[i] = Id(p.call, p.safe) BY <2>4, <2>6, WaitingIs
    <3>2. PICK q \in pending : posted[j] = Id(q.call, q.safe) BY <2>2, <2>6, WaitingIs
    <3>3. p.nonce < q.nonce BY <3>1, <3>2 DEF WaitInOrder, Undisturbing
    <3>4. q.nonce = chain.safeNonces[q.safe] BY <3>2 DEF Settling, AtHeads
    <3>5. p.nonce >= chain.safeNonces[p.safe] /\ p.safe = q.safe
      BY <3>1, <3>2, IdIs DEF PendingNonces
    <3> QED BY <1>3, <3>3, <3>4, <3>5
  <2> QED BY <2>5, <2>6
<1> QED BY <1>4, <1>5, <1>6, <1>7, <1>8, <1>9, <1>10, <1>11, <1>12, <1>13, <1>14

(* A step with which one call is sent or proposed: nothing was known of it before. *)
Fresh(call, o) == call.by = o /\ call.no = run[o].next
Posting(call, from, o) ==
  /\ Fresh(call, o) /\ run[o].phase \in {"ready", "numbered"} /\ Passed(Id(call, from))'
  /\ posted' = Append(posted, Id(call, from)) /\ settled' = settled
  /\ chain' = chain /\ \A p \in Operators \ {o} : run'[p] = run[p]

LEMMA FreshIs ==
  ASSUME Sound, Orderly, NEW o \in Operators, run[o].phase \in {"ready", "numbered"},
         NEW call, Fresh(call, o), NEW from
  PROVE  /\ ~Passed(Id(call, from)) /\ Id(call, from) \notin Waiting \cup settled
         /\ \A i \in DOMAIN posted : posted[i] # Id(call, from)
         /\ \A t \in sent : ~SameCall(call, t.call)
         /\ \A p \in pending : ~SameCall(call, p.call)
<1>1. \A f : ~Passed(Id(call, f))
  <2>1. Active(run[o]) /\ run[o].next \in Nat BY DEF Active, Sound, RunsOK, RunOK
  <2> QED BY <2>1, IdIs DEF Passed, Fresh
<1>2. \A t \in sent : ~SameCall(call, t.call)
  <2> SUFFICES ASSUME NEW t \in sent, SameCall(call, t.call) PROVE FALSE OBVIOUS
  <2>1. Id(call, "deployer") = Id(t.call, "deployer") BY IdIs
  <2>2. Passed(Id(t.call, "deployer")) BY WaitingIs DEF Orderly, IdsPassed
  <2> QED BY <1>1, <2>1, <2>2
<1>3. \A p \in pending : ~SameCall(call, p.call)
  <2> SUFFICES ASSUME NEW p \in pending, SameCall(call, p.call) PROVE FALSE OBVIOUS
  <2>1. Id(call, p.safe) = Id(p.call, p.safe) BY IdIs
  <2>2. Passed(Id(p.call, p.safe)) BY WaitingIs DEF Orderly, IdsPassed
  <2> QED BY <1>1, <2>1, <2>2
<1> QED BY <1>1, <1>2, <1>3 DEF Orderly, IdsPassed

(* The list of what is posted, with one more at the end.                           *)
LEMMA PostedIs ==
  ASSUME IsSeq(posted), NEW id, posted' = Append(posted, id)
  PROVE  /\ IsSeq(posted') /\ Len(posted') = Len(posted) + 1
         /\ DOMAIN posted = 1 .. Len(posted) /\ DOMAIN posted' = 1 .. Len(posted) + 1
         /\ Len(posted) \in Nat /\ posted'[Len(posted) + 1] = id
         /\ \A i \in 1 .. Len(posted) : posted'[i] = posted[i]
BY AppendIs DEF IsSeq

(* What every posting step keeps.                                                  *)
LEMMA PostingKeeps ==
  ASSUME Sound, Sound', Orderly, On, NEW o \in Operators, NEW call, NEW from,
         Posting(call, from, o), Waiting' \subseteq Waiting \cup {Id(call, from)},
         Id(call, from) \in Waiting', \A t \in sent' : t \in sent \/ t.call.by = o,
         \A id \in Waiting : id \in Waiting' \/ ~Undisturbed(id.by)
  PROVE  /\ IdsPassed' /\ OverlapsMet' /\ NoneLost' /\ TakeEffectInOrder'
<1> USE DEF Orderly
<1> DEFINE id == Id(call, from)
           n == Len(posted)
<1>1. /\ \A p \in Operators : Active(run'[p]) => Active(run[p])
      /\ \A p : Undisturbed(p)' <=> Undisturbed(p)
      /\ \A x : Passed(x) => Passed(x)'
  BY OnKeeps
<1>2. id \notin settled BY FreshIs DEF Posting
<1>3. /\ IsSeq(posted') /\ DOMAIN posted = 1 .. n /\ DOMAIN posted' = 1 .. n + 1
      /\ n \in Nat /\ posted'[n + 1] = id /\ \A i \in 1 .. n : posted'[i] = posted[i]
  BY PostedIs DEF Posting, IdsPassed
<1>4. Passed(id)' BY DEF Posting
<1>5. settled' = settled BY DEF Posting
<1>6. IdsPassed'
  <2> HIDE DEF id, n
  <2>1. \A x \in Waiting' \cup settled' : Passed(x)'
    BY <1>1, <1>4, <1>5 DEF IdsPassed, id
  <2>2. \A i \in 1 .. n + 1 : Passed(posted[i])'
    <3> TAKE i \in 1 .. n + 1
    <3>1. CASE i = n + 1 BY <1>3, <1>4, <3>1
    <3>2. CASE i # n + 1
      <4>1. i \in 1 .. n BY <1>3, <3>2
      <4> QED BY <1>1, <1>3, <4>1 DEF IdsPassed
    <3> QED BY <3>1, <3>2
  <2> QED BY <1>3, <2>1, <2>2 DEF IdsPassed
<1>7. OverlapsMet'
  <2>1. o \in Busy BY BusyDisturbed DEF Posting, Active
  <2>2. Busy' \subseteq Busy
    <3>1. \A p \in Operators : p \in Busy' => Active(run'[p]) \/ \E t \in sent' : t.call.by = p
      BY DEF Sound, RunsOK, RunOK, Active, Busy
    <3>2. Busy' \subseteq Operators BY DEF Busy, Sound, SentOK, CallOK
    <3> QED BY <1>1, <2>1, <3>1, <3>2, BusyDisturbed
  <2> QED BY <2>2 DEF OverlapsMet, On
<1>8. NoneLost'
  <2> HIDE DEF id, n
  <2>1. Waiting' \cap settled' = {} BY <1>2, <1>5 DEF NoneLost, id
  <2>2. \A i \in 1 .. n + 1 :
          posted'[i] \in Waiting' \cup settled' \/ ~Undisturbed(posted'[i].by)
    <3> TAKE i \in 1 .. n + 1
    <3>1. CASE i = n + 1 BY <1>3, <3>1 DEF id
    <3>2. CASE i # n + 1
      <4>1. i \in 1 .. n BY <1>3, <3>2
      <4> QED BY <1>3, <1>5, <4>1 DEF NoneLost
    <3> QED BY <3>1, <3>2
  <2> QED BY <1>1, <1>3, <2>1, <2>2 DEF NoneLost
<1>9. TakeEffectInOrder'
  <2> HIDE DEF id
  <2> SUFFICES ASSUME NEW j \in 1 .. n + 1, NEW i \in 1 .. j - 1,
                      posted'[i].from = posted'[j].from, posted'[j] \in settled,
                      posted'[i] \notin settled,
                      Undisturbed(posted'[i].by), Undisturbed(posted'[j].by)
               PROVE  FALSE
    BY <1>1, <1>3, <1>5 DEF TakeEffectInOrder
  <2>1. j # n + 1 BY <1>2, <1>3
  <2>2. j \in 1 .. n /\ i \in 1 .. n BY <1>3, <2>1
  <2>3. posted'[i] = posted[i] /\ posted'[j] = posted[j] BY <1>3, <2>2
  <2> QED BY <1>3, <2>2, <2>3 DEF TakeEffectInOrder
<1> QED BY <1>6, <1>7, <1>8, <1>9

(* The deployer's account sends at a nonce which only others may have used.        *)
Sending(t, o) ==
  /\ Posting(t.call, "deployer", o)
  /\ sent' = {u \in sent : u.nonce # t.nonce} \cup {t} /\ pending' = pending
  /\ t.nonce \in Nat /\ t.nonce >= chain.nonce
  /\ \A u \in sent : u.call.by = o => u.nonce # t.nonce
  /\ Undisturbed(o) => \A u \in sent : u.nonce < t.nonce
  /\ Undisturbed(o) /\ ~Bursting(run[o].script) =>
       \A n \in chain.nonce .. t.nonce - 1 : \E u \in sent : u.nonce = n
  /\ run'[o].phase # "numbered"
  /\ Active(run'[o]) /\ Bursting(run'[o].script) =>
       /\ run'[o].phase = "ready" =>
            \A u \in sent' : u.call.by = o => u.nonce < run'[o].nonce
       /\ run'[o].phase = "waiting" =>
            /\ run'[o].next = Len(run'[o].script) /\ ~run'[o].failed
            /\ \A u \in sent' : u.call.by = o => u.nonce <= run'[o].ticket

LEMMA SendingOrderly ==
  ASSUME Sound, Sound', Orderly, On, NEW o \in Operators, NEW t, Sending(t, o)
  PROVE  Orderly'
<1> USE DEF Orderly
<1> DEFINE id == Id(t.call, "deployer")
           len == Len(posted)
<1>0. o \in Busy /\ Posting(t.call, "deployer", o) /\ Fresh(t.call, o)
  BY BusyDisturbed DEF Sending, Posting, Active
<1>1. /\ \A p \in Operators : run'[p].script = run[p].script
      /\ (\E p \in Operators : Explicit(p))' <=> \E p \in Operators : Explicit(p)
      /\ \A p : Undisturbed(p)' <=> Undisturbed(p)
  BY OnKeeps
<1>2. /\ \A u \in sent' : u = t \/ (u \in sent /\ u.nonce # t.nonce)
      /\ t \in sent' /\ \A u \in sent : u.nonce # t.nonce => u \in sent'
      /\ pending' = pending /\ chain' = chain /\ settled' = settled
      /\ t.call.by = o /\ \A p \in Operators \ {o} : run'[p] = run[p]
      /\ posted' = Append(posted, id)
  BY DEF Sending, Posting, Fresh
<1>3. /\ \A u \in sent : u.nonce \in Nat /\ u.call.by \in Operators
      /\ t.nonce \in Nat /\ chain.nonce \in Nat
  BY DEF Sound, ChainOK, SentOK, CallOK, Sending
<1>4. \A u \in sent : Undisturbed(o) => u.call.by = o BY <1>0, BusyDisturbed
<1>5. IdsPassed' /\ OverlapsMet' /\ NoneLost' /\ TakeEffectInOrder'
  <2>1. /\ Waiting' = {Id(u.call, "deployer") : u \in sent'}
                        \cup {Id(p.call, p.safe) : p \in pending'}
        /\ Waiting = {Id(u.call, "deployer") : u \in sent}
                        \cup {Id(p.call, p.safe) : p \in pending}
    BY DEF Waiting
  <2>2. id \in Waiting' /\ Waiting' \subseteq Waiting \cup {id} BY <1>2, <2>1
  <2>3. \A x \in Waiting : x \in Waiting' \/ ~Undisturbed(x.by)
    <3>1. ASSUME NEW u \in sent, u \notin sent' PROVE ~Undisturbed(u.call.by)
      <4>1. u.nonce = t.nonce BY <1>2, <3>1
      <4>2. u.call.by # o BY <4>1 DEF Sending
      <4>3. u.call.by \in Busy BY BusyDisturbed
      <4> QED BY <1>0, <4>2, <4>3, BusyDisturbed
    <3>2. \A u \in sent : Id(u.call, "deployer").by = u.call.by BY IdIs
    <3> QED BY <1>2, <2>1, <3>1, <3>2
  <2>4. \A u \in sent' : u \in sent \/ u.call.by = o BY <1>2
  <2> HIDE DEF id
  <2> QED BY <1>0, <2>2, <2>3, <2>4, PostingKeeps DEF id
<1>6. IdsUnique'
  <2>1. \A u \in sent : ~SameCall(t.call, u.call)
    BY <1>0, FreshIs DEF Posting
  <2>2. \A u, v \in sent' : SameCall(u.call, v.call) => u = v
    <3>1. \A u \in sent : ~SameCall(u.call, t.call) BY <2>1 DEF SameCall
    <3> QED BY <1>2, <2>1, <3>1 DEF IdsUnique
  <2> QED BY <1>2, <2>2 DEF IdsUnique
<1>7. SentNonces'
  <2>1. IsFiniteSet(sent')
    <3> DEFINE rest == {u \in sent : u.nonce # t.nonce}
    <3>1. IsFiniteSet(rest) BY FS_Subset DEF SentNonces
    <3>2. sent' = rest \cup {t} BY DEF Sending
    <3> HIDE DEF rest
    <3> QED BY <3>1, <3>2, FS_AddElement
  <2> QED BY <1>2, <2>1 DEF SentNonces, Sending
<1>8. PendingNonces' BY <1>1, <1>2 DEF PendingNonces
<1>9. NumberedAbove'
  <2> SUFFICES ASSUME NEW p \in Operators, run'[p].phase = "numbered",
                      ~(\E x \in Operators : Explicit(x)),
                      NEW q \in pending, q.safe = At(p)'.safe
               PROVE  q.nonce < run'[p].ticket \/ (q.call.by # p /\ {p, q.call.by} \in met')
    BY <1>1, <1>2 DEF NumberedAbove
  <2>1. p # o BY DEF Sending
  <2>2. run'[p] = run[p] /\ met' = met BY <1>2, <2>1 DEF On
  <2>3. At(p)' = At(p) BY <2>2 DEF At
  <2> QED BY <2>2, <2>3 DEF NumberedAbove
<1>10. BurstAbove'
  <2> SUFFICES ASSUME NEW p \in Operators, Active(run'[p]), Bursting(run'[p].script)
               PROVE  /\ run'[p].phase = "ready" =>
                           \A u \in sent' : u.call.by = p => u.nonce < run'[p].nonce
                      /\ run'[p].phase = "waiting" =>
                           /\ run'[p].next = Len(run'[p].script) /\ ~run'[p].failed
                           /\ \A u \in sent' : u.call.by = p => u.nonce <= run'[p].ticket
    BY DEF BurstAbove
  <2>1. CASE p = o BY <2>1 DEF Sending
  <2>2. CASE p # o
    <3>1. run'[p] = run[p] BY <1>2, <2>2
    <3>2. \A u \in sent' : u.call.by = p => u \in sent BY <1>2, <2>2
    <3> QED BY <3>1, <3>2 DEF BurstAbove
  <2> QED BY <2>1, <2>2
<1>11. NoGap'
  <2> SUFFICES ASSUME NEW p \in Operators, Undisturbed(p), ~Bursting(run[p].script),
                      \A u \in sent' : u.call.by = p,
                      NEW u \in sent', NEW n \in chain.nonce .. u.nonce
               PROVE  \E v \in sent' : v.nonce = n
    BY <1>1, <1>2 DEF NoGap
  <2>1. p = o BY <1>2
  <2>2. \A v \in sent : v \in sent' /\ v.nonce < t.nonce BY <1>2, <1>3, <2>1 DEF Sending
  <2>3. n \in chain.nonce .. t.nonce BY <1>2, <1>3, <2>2
  <2>4. CASE n = t.nonce BY <1>2, <2>4
  <2>5. CASE n # t.nonce
    <3>1. n \in chain.nonce .. t.nonce - 1 BY <1>3, <2>3, <2>5
    <3> QED BY <2>1, <2>2, <3>1 DEF Sending
  <2> QED BY <2>4, <2>5
<1>12. WaitInOrder'
  <2>1. /\ DOMAIN posted = 1 .. len /\ DOMAIN posted' = 1 .. len + 1
        /\ len \in Nat /\ posted'[len + 1] = id /\ \A i \in 1 .. len : posted'[i] = posted[i]
    BY <1>2, PostedIs DEF IdsPassed
  <2>2. /\ \A i \in 1 .. len : posted[i] # id
        /\ \A u \in sent : Id(u.call, "deployer") # id
    BY <1>0, <2>1, FreshIs, IdIs, WaitingIs DEF Posting
  <2> HIDE DEF len
  <2> SUFFICES ASSUME NEW j \in 1 .. len + 1, NEW i \in 1 .. j - 1,
                      posted'[i].from = posted'[j].from,
                      Undisturbed(posted'[i].by), Undisturbed(posted'[j].by)
               PROVE  /\ \A u, v \in sent' :
                           Id(u.call, "deployer") = posted'[i]
                             /\ Id(v.call, "deployer") = posted'[j] => u.nonce < v.nonce
                      /\ \A p, q \in pending :
                           Id(p.call, p.safe) = posted'[i] /\ Id(q.call, q.safe) = posted'[j] =>
                             p.nonce < q.nonce
    BY <1>1, <1>2, <2>1 DEF WaitInOrder, Undisturbing
  <2>3. i \in 1 .. len /\ posted'[i] = posted[i] BY <2>1
  <2>4. CASE j \in 1 .. len
    <3>1. posted'[j] = posted[j] BY <2>1, <2>4
    <3>2. \A u \in sent' : \A k \in 1 .. len : Id(u.call, "deployer") = posted[k] => u \in sent
      BY <1>2, <2>2
    <3> QED BY <2>1, <2>3, <2>4, <3>1, <3>2 DEF WaitInOrder, Undisturbing
  <2>5. CASE j = len + 1
    <3>1. posted'[j] = id /\ id.by = o /\ id.from = "deployer"
      BY <1>2, <2>1, <2>5, IdIs
    <3>2. \A u, v \in sent' :
            Id(u.call, "deployer") = posted'[i] /\ Id(v.call, "deployer") = posted'[j] =>
              u.nonce < v.nonce
      <4> SUFFICES ASSUME NEW u \in sent', NEW v \in sent',
                          Id(u.call, "deployer") = posted'[i], Id(v.call, "deployer") = id
                   PROVE  u.nonce < v.nonce
        BY <3>1
      <4>1. v = t BY <1>2, <2>2
      <4>2. u \in sent BY <1>2, <2>2, <2>3
      <4> QED BY <3>1, <4>1, <4>2 DEF Sending
    <3>3. \A q \in pending : Id(q.call, q.safe) # posted'[j]
      <4>1. "deployer" \notin Safes BY DEF Safes
      <4>2. \A q \in pending : Id(q.call, q.safe).from \in Safes
        BY IdIs DEF Sound, PendingOK
      <4> QED BY <3>1, <4>1, <4>2
    <3> QED BY <3>2, <3>3
  <2> QED BY <2>1, <2>4, <2>5
<1> QED BY <1>5, <1>6, <1>7, <1>8, <1>9, <1>10, <1>11, <1>12

(* What one script does to its own run, and to nobody else's.                      *)
OneOn(o) == On /\ \A p \in Operators \ {o} : run'[p] = run[p]

LEMMA OneGoesOn ==
  ASSUME Sound, NEW o \in Operators, NEW s, run' = [run EXCEPT ![o] = s],
         met' = met, Active(run[o]), GoesOn(run[o], s)
  PROVE  OneOn(o) /\ On /\ run'[o] = s /\ \A p \in Operators \ {o} : run'[p] = run[p]
<1>1. run = [p \in Operators |-> run[p]] BY DEF Sound, RunsOK
<1>2. run'[o] = s /\ \A p \in Operators \ {o} : run'[p] = run[p] BY <1>1
<1> QED BY <1>2 DEF On, OneOn

(* A run that is a burst is at a burst's step, and does nothing else.              *)
LEMMA BurstingIs ==
  ASSUME Sound, NEW o \in Operators, Active(run[o])
  PROVE  /\ GoodStep(At(o)) /\ RoutedOK(run[o], chain) /\ RunOK(run[o], chain)
         /\ At(o) = run[o].script[run[o].next]
         /\ run[o].next \in 1 .. Len(run[o].script) /\ Len(run[o].script) \in Nat
         /\ DOMAIN run[o].script = 1 .. Len(run[o].script)
         /\ Bursting(run[o].script) <=> At(o).via = "burst"
         /\ At(o).via = "burst" =>
              /\ run[o].route = "none" /\ ~Needless(o)
              /\ run[o].phase \in {"ready", "waiting"}
<1>1. RunOK(run[o], chain) /\ GoodScript(run[o].script) BY Typed
<1>2. /\ GoodStep(At(o)) /\ RoutedOK(run[o], chain) /\ At(o) = run[o].script[run[o].next]
      /\ run[o].next \in 1 .. Len(run[o].script) /\ Len(run[o].script) \in Nat
      /\ DOMAIN run[o].script = 1 .. Len(run[o].script)
  BY <1>1 DEF RunOK, GoodScript, At
<1>3. Bursting(run[o].script) <=> At(o).via = "burst"
  BY <1>1, <1>2 DEF GoodScript, Bursting
<1>4. ASSUME At(o).via = "burst"
      PROVE  run[o].route = "none" /\ ~Needless(o) /\ run[o].phase \in {"ready", "waiting"}
  <2>1. run[o].route = "none" BY <1>2, <1>4 DEF RoutedOK
  <2>2. ~Needless(o) BY <1>2, <1>4 DEF GoodStep, Needless
  <2> QED BY <1>2, <1>4, <2>1, <2>2 DEF Active, RoutedOK
<1> QED BY <1>1, <1>2, <1>3, <1>4

(* Steps with which a script goes on by itself.                                    *)
LEMMA QuietOrderly ==
  ASSUME Sound, Sound', Orderly, NEW o \in Operators, NEW s, run' = [run EXCEPT ![o] = s],
         Active(run[o]), GoesOn(run[o], s), s.phase # "numbered",
         Active(s) /\ Bursting(s.script) =>
           run[o].phase = "ready" /\ s.phase = "ready" /\ s.nonce >= run[o].nonce,
         UNCHANGED <<chain, sent, pending, met, posted, settled>>
  PROVE  Orderly' /\ OneOn(o)
<1>1. On /\ run'[o] = s /\ \A p \in Operators \ {o} : run'[p] = run[p] BY OneGoesOn
<1>2. Settling
  <2>1. Waiting \cap settled = {} BY DEF Orderly, NoneLost
  <2> QED BY <2>1, WaitingIs DEF Settling, Orderly
<1>3. AtHeads
  <2>1. chain.nonce \in Nat BY DEF Sound, ChainOK
  <2> QED BY <2>1 DEF AtHeads, Orderly, SentNonces, PendingNonces
<1>4. RunsAside BY <1>1 DEF RunsAside
<1> QED BY <1>1, <1>2, <1>3, <1>4, SettlingOrderly DEF OneOn

LEMMA AdvancedGoesOn ==
  ASSUME NEW r, NEW c, RunOK(r, c), Active(r)
  PROVE  /\ GoesOn(r, Advanced(r)) /\ Advanced(r).phase # "numbered"
         /\ GoesOn(r, Ended(r, "stopped")) /\ Ended(r, "stopped").phase # "numbered"
         /\ ~Active(Ended(r, "stopped"))
         /\ Active(Advanced(r)) =>
              /\ Advanced(r).phase = "ready" /\ Advanced(r).nonce = r.nonce
              /\ Advanced(r).next = r.next + 1 /\ r.next < Len(r.script)
<1>1. Len(r.script) \in Nat /\ r.next \in 1 .. Len(r.script) /\ GoodScript(r.script)
  BY DEF RunOK, GoodScript
<1>2. /\ Ended(r, "stopped").phase = "stopped" /\ Ended(r, "stopped").script = r.script
      /\ ~Active(Ended(r, "stopped"))
  BY <1>1, EndedIs
<1> DEFINE a == Advanced(r)
<1>3. /\ a.script = r.script
      /\ r.next < Len(r.script) =>
           a.phase = "ready" /\ a.next = r.next + 1 /\ a.nonce = r.nonce
      /\ ~(r.next < Len(r.script)) => ~Active(a) /\ a.phase # "new"
  BY AdvancedIs
<1> HIDE DEF a
<1>4. a.phase # "numbered" /\ GoesOn(r, a)
  BY <1>1, <1>3 DEF GoesOn, Active
<1> QED BY <1>1, <1>2, <1>3, <1>4 DEF GoesOn, a

LEMMA SkipOrderly ==
  ASSUME Sound, Sound', Orderly, NEW o \in Operators, Skip(o)
  PROVE  Orderly' /\ OneOn(o)
<1> DEFINE r == run[o]
           s == Advanced(r)
<1>1. RunOK(r, chain) /\ r.phase = "ready" /\ Active(r) BY Typed DEF Skip, IsAt, Active
<1>2. run' = [run EXCEPT ![o] = s] /\ UNCHANGED <<chain, sent, pending, met, posted, settled>>
  BY DEF Skip
<1>3. /\ GoesOn(r, s) /\ s.phase # "numbered"
      /\ Active(s) => s.phase = "ready" /\ s.nonce = r.nonce
  BY <1>1, AdvancedGoesOn
<1>4. Active(s) => r.phase = "ready" /\ s.phase = "ready" /\ s.nonce >= r.nonce
  BY <1>1, <1>3 DEF RunOK
<1> HIDE DEF s
<1> QED BY <1>1, <1>2, <1>3, <1>4, QuietOrderly

LEMMA StopOrderly ==
  ASSUME Sound, Sound', Orderly, NEW o \in Operators, Stop(o)
  PROVE  Orderly' /\ OneOn(o)
<1> DEFINE r == run[o]
           s == Ended(r, "stopped")
<1>1. RunOK(r, chain) /\ Active(r) BY Typed DEF Stop, RunOK, Active
<1>2. run' = [run EXCEPT ![o] = s] /\ UNCHANGED <<chain, sent, pending, met, posted, settled>>
  BY DEF Stop
<1>3. GoesOn(r, s) /\ s.phase # "numbered" /\ ~Active(s) BY <1>1, AdvancedGoesOn
<1> HIDE DEF s
<1> QED BY <1>1, <1>2, <1>3, QuietOrderly

(* The steps that only find out about the call.                                    *)
LEMMA LearnsOrderly ==
  ASSUME Sound, Sound', Orderly, NEW o \in Operators, NEW s, run' = [run EXCEPT ![o] = s],
         run[o].phase = "ready", s.phase = "ready", s.next = run[o].next,
         s.script = run[o].script, s.nonce = run[o].nonce,
         UNCHANGED <<chain, sent, pending, met, posted, settled>>
  PROVE  Orderly' /\ OneOn(o)
<1>1. RunOK(run[o], chain) /\ Active(run[o]) BY Typed DEF Active
<1>2. GoesOn(run[o], s) BY DEF GoesOn
<1>3. s.nonce >= run[o].nonce BY <1>1 DEF RunOK
<1>4. s.phase # "numbered" OBVIOUS
<1> QED BY <1>1, <1>2, <1>3, <1>4, QuietOrderly

LEMMA authExecOrderly ==
  ASSUME Sound, Sound', Orderly, NEW o \in Operators, authExec(o)
  PROVE  Orderly' /\ OneOn(o)
<1> DEFINE r == run[o]
           route == RouteOf(o, OwnerOf(chain, At(o).to))
           s == [r EXCEPT !.route = route]
           e == Ended(r, "stopped")
<1>1. RunOK(r, chain) /\ DOMAIN r = RunFields /\ r.phase = "ready" /\ Active(r)
  BY Typed DEF authExec, IsAt, Active
<1>2. /\ run' = [run EXCEPT ![o] = IF route = "throw" THEN e ELSE s]
      /\ UNCHANGED <<chain, sent, pending, met, posted, settled>>
  BY DEF authExec
<1> HIDE DEF route
<1>3. CASE route = "throw"
  <2>1. GoesOn(r, e) /\ e.phase # "numbered" /\ ~Active(e) BY <1>1, AdvancedGoesOn
  <2>2. run' = [run EXCEPT ![o] = e] BY <1>2, <1>3
  <2> HIDE DEF e
  <2> QED BY <1>1, <1>2, <2>1, <2>2, QuietOrderly
<1>4. CASE route # "throw"
  <2>1. s.phase = "ready" /\ s.next = r.next /\ s.script = r.script /\ s.nonce = r.nonce
    BY <1>1 DEF RunFields
  <2>2. run' = [run EXCEPT ![o] = s] BY <1>2, <1>4
  <2> HIDE DEF s
  <2> QED BY <1>1, <1>2, <2>1, <2>2, LearnsOrderly
<1> QED BY <1>3, <1>4

LEMMA upgradeOrderly ==
  ASSUME Sound, Sound', Orderly, NEW o \in Operators, upgrade(o)
  PROVE  Orderly' /\ OneOn(o)
<1> DEFINE r == run[o]
           owner == chain.proxyAdminOwner
           q == [r EXCEPT !.route = "timelock", !.inner = <<Call(o)>>,
                          !.read.time = chain.time, !.eta = chain.time + Delay + Margin]
           s == CASE owner = "safe" -> [r EXCEPT !.route = "propose"]
                  [] owner = "deployer" -> [r EXCEPT !.route = "send"]
                  [] OTHER -> q
<1>1. RunOK(r, chain) /\ DOMAIN r = RunFields /\ r.phase = "ready"
  BY Typed DEF upgrade, IsAt
<1>2. /\ run' = [run EXCEPT ![o] = s]
      /\ UNCHANGED <<chain, sent, pending, met, posted, settled>>
  <2> HIDE DEF Call
  <2> QED BY DEF upgrade
<1>3. \A route : LET t == [r EXCEPT !.route = route]
                 IN  /\ t.phase = "ready" /\ t.next = r.next /\ t.script = r.script
                     /\ t.nonce = r.nonce
  BY <1>1 DEF RunFields
<1>4. q.phase = "ready" /\ q.next = r.next /\ q.script = r.script /\ q.nonce = r.nonce
  BY <1>1 DEF RunFields
<1> HIDE DEF q
<1>5. s.phase = "ready" /\ s.next = r.next /\ s.script = r.script /\ s.nonce = r.nonce
  BY <1>3, <1>4
<1> HIDE DEF s
<1> QED BY <1>1, <1>2, <1>5, LearnsOrderly

LEMMA throughTimelockOrderly ==
  ASSUME Sound, Sound', Orderly, NEW o \in Operators, throughTimelock(o)
  PROVE  Orderly' /\ OneOn(o)
<1> DEFINE r == run[o]
           way == IF chain.timelockAdmin = "safe" THEN "propose" ELSE "send"
           s(eta, inner) == [r EXCEPT !.route = way, !.eta = eta, !.inner = inner]
<1>1. RunOK(r, chain) /\ DOMAIN r = RunFields /\ r.phase = "ready"
  BY Typed DEF throughTimelock, IsAt
<1>2. UNCHANGED <<chain, sent, pending, met, posted, settled>> BY DEF throughTimelock
<1>3. \E eta, inner : run' = [run EXCEPT ![o] = s(eta, inner)]
  BY DEF throughTimelock, byAdmin
<1>4. PICK eta, inner : run' = [run EXCEPT ![o] = s(eta, inner)] BY <1>3
<1> DEFINE t == s(eta, inner)
<1>5. t.phase = "ready" /\ t.next = r.next /\ t.script = r.script /\ t.nonce = r.nonce
  BY <1>1 DEF RunFields
<1>6. run' = [run EXCEPT ![o] = t] BY <1>4
<1> HIDE DEF t
<1> QED BY <1>1, <1>2, <1>5, <1>6, LearnsOrderly

-----------------------------------------------------------------------------------
(* The account's next nonce is above all its own, if nobody else has sent; the     *)
(* nonces multi-set-pyth counts are above those it has used.                       *)
LEMMA sendTransactionOrderly ==
  ASSUME Sound, Sound', Orderly, NEW o \in Operators, sendTransaction(o)
  PROVE  Orderly' /\ OneOn(o)
<1> DEFINE r == run[o]
           w == [r EXCEPT !.phase = "waiting", !.ticket = NextNonce]
           e == Ended(r, "stopped")
           s == IF Waits(o) THEN w ELSE Advanced(r)
<1>1. /\ RunOK(r, chain) /\ DOMAIN r = RunFields /\ r.phase = "ready" /\ Active(r)
  BY Typed DEF sendTransaction, IsAt, Active
<1>2. UNCHANGED <<chain, pending, met, settled>> BY DEF sendTransaction
<1>3. CASE ~Allowed(chain, "deployer", Call(o))
  <2>1. run' = [run EXCEPT ![o] = e] /\ UNCHANGED <<sent, posted>>
    BY <1>3 DEF sendTransaction
  <2>2. GoesOn(r, e) /\ e.phase # "numbered" /\ ~Active(e) BY <1>1, AdvancedGoesOn
  <2> HIDE DEF e
  <2> QED BY <1>1, <1>2, <2>1, <2>2, QuietOrderly
<1>4. CASE Allowed(chain, "deployer", Call(o))
  <2>1. /\ sent' = sent \cup {[nonce |-> NextNonce, call |-> Call(o)]}
        /\ posted' = Append(posted, Id(Call(o), "deployer"))
        /\ run' = [run EXCEPT ![o] = s]
    <3> HIDE DEF Advanced, NextNonce, Call
    <3> QED BY <1>4 DEF sendTransaction
  <2>2. /\ s.phase # "numbered" /\ GoesOn(r, s)
        /\ Active(s) => s.next > r.next \/ (s.next = r.next /\ s.phase = "waiting")
    <3>1. w.phase = "waiting" /\ w.script = r.script /\ w.next = r.next
      BY <1>1 DEF RunFields
    <3>2. /\ GoesOn(r, Advanced(r)) /\ Advanced(r).phase # "numbered"
          /\ Active(Advanced(r)) => Advanced(r).next = r.next + 1
      BY <1>1, AdvancedGoesOn
    <3>3. r.next \in Nat BY <1>1 DEF RunOK
    <3> HIDE DEF w, Advanced
    <3> QED BY <3>1, <3>2, <3>3 DEF GoesOn, Active
  <2> HIDE DEF s
  <2>3. On /\ run'[o] = s /\ \A p \in Operators \ {o} : run'[p] = run[p]
    BY <1>1, <1>2, <2>1, <2>2, OneGoesOn
  <2>4. PICK t : t = [nonce |-> NextNonce, call |-> Call(o)] OBVIOUS
  <2>5. t.nonce = NextNonce /\ t.call = Call(o) BY <2>4
  <2>6. /\ t.nonce \in Nat /\ t.nonce >= chain.nonce /\ \A u \in sent : u.nonce # t.nonce
        /\ \A n \in chain.nonce .. t.nonce - 1 : \E u \in sent : u.nonce = n
    BY <2>5, NextNonceIs DEF Orderly, SentNonces
  <2>7. t.call.by = o /\ t.call.no = r.next BY <1>1, <2>5, CallIs
  <2>8. Posting(t.call, "deployer", o)
    <3>1. Passed(Id(t.call, "deployer"))'
      <4>1. r.next \in Nat /\ s.phase # "new" BY <1>1, <2>2 DEF RunOK, GoesOn
      <4> QED BY <2>2, <2>3, <2>7, <4>1, IdIs DEF Passed
    <3> QED BY <1>1, <1>2, <2>1, <2>3, <2>5, <2>7, <3>1 DEF Posting, Fresh
  <2>9. ~Bursting(r.script)
    <3>1. Sends(o) BY DEF sendTransaction
    <3> QED BY <1>1, <3>1, BurstingIs DEF Sends
  <2>10. Undisturbed(o) => \A u \in sent : u.nonce < t.nonce
    <3> SUFFICES ASSUME Undisturbed(o), NEW u \in sent, ~(u.nonce < t.nonce) PROVE FALSE
      OBVIOUS
    <3>1. \A v \in sent : v.call.by = o BY <1>1, BusyDisturbed DEF Orderly
    <3>2. u.nonce \in Nat /\ chain.nonce \in Nat BY DEF Sound, ChainOK, SentOK
    <3>3. t.nonce \in chain.nonce .. u.nonce BY <2>6, <3>2
    <3> QED BY <2>6, <2>9, <3>1, <3>3 DEF Orderly, NoGap
  <2>11. sent' = {u \in sent : u.nonce # t.nonce} \cup {t} BY <2>1, <2>4, <2>6
  <2>12. run'[o].script = r.script BY <2>2, <2>3 DEF GoesOn
  <2>13. Sending(t, o)
    BY <1>2, <2>2, <2>3, <2>6, <2>8, <2>9, <2>10, <2>11, <2>12 DEF Sending
  <2> QED BY <2>3, <2>13, SendingOrderly DEF OneOn
<1> QED BY <1>3, <1>4

LEMMA sendAtNonceOrderly ==
  ASSUME Sound, Sound', Orderly, NEW o \in Operators, sendAtNonce(o)
  PROVE  Orderly' /\ OneOn(o)
<1> DEFINE r == run[o]
           n == r.nonce
           w == [r EXCEPT !.phase = "waiting", !.ticket = Awaited(o)]
           a == [Advanced(r) EXCEPT !.nonce = IF Last(o) THEN 0 ELSE n + 1]
           f == [Advanced(r) EXCEPT !.nonce = n + 1, !.failed = TRUE]
           s == IF Last(o) /\ ~r.failed THEN w ELSE a
           e == IF Last(o) THEN Ended(r, "stopped") ELSE f
           others == {u \in sent : u.nonce # n}
           ti == [nonce |-> n, call |-> Call(o)]
<1>1. /\ RunOK(r, chain) /\ DOMAIN r = RunFields /\ r.phase = "ready" /\ Active(r)
      /\ n \in Nat /\ At(o).via = "burst"
  BY Typed DEF sendAtNonce, IsAt, Active, RunOK
<1>2. UNCHANGED <<chain, pending, met, settled>> BY DEF sendAtNonce
<1>3. \/ /\ sent' = others \cup {ti} /\ run' = [run EXCEPT ![o] = s] /\ n >= chain.nonce
         /\ posted' = Append(posted, Id(Call(o), "deployer"))
      \/ run' = [run EXCEPT ![o] = e] /\ UNCHANGED <<sent, posted>>
  <2> HIDE DEF Advanced, Ended, Awaited, Call
  <2> QED BY DEF sendAtNonce
<1>4. /\ Bursting(r.script) /\ r.next \in 1 .. Len(r.script) /\ Len(r.script) \in Nat
  BY <1>1, BurstingIs
<1>5. /\ RunOK(Advanced(r), chain) /\ GoesOn(r, Advanced(r))
      /\ Advanced(r).phase # "numbered" /\ DOMAIN Advanced(r) = RunFields
      /\ Active(Advanced(r)) => Advanced(r).phase = "ready" /\ Advanced(r).next = r.next + 1
                                /\ ~Last(o)
  <2>1. RunOK(Advanced(r), chain) BY <1>1, AdvancedIs
  <2>2. DOMAIN Advanced(r) = RunFields
    <3> HIDE DEF Advanced
    <3> QED BY <2>1 DEF RunOK
  <2>3. Last(o) => ~(r.next < Len(r.script)) BY <1>4 DEF Last
  <2> QED BY <1>1, <2>1, <2>2, <2>3, AdvancedGoesOn
<1>6. ASSUME NEW b, b.phase = Advanced(r).phase, b.script = Advanced(r).script,
             b.next = Advanced(r).next
      PROVE  /\ GoesOn(r, b) /\ b.phase # "numbered"
             /\ Active(b) => b.phase = "ready" /\ b.next = r.next + 1 /\ ~Last(o)
  <2> HIDE DEF Advanced
  <2> QED BY <1>5, <1>6 DEF GoesOn, Active
<1>7. /\ GoesOn(r, a) /\ a.phase # "numbered" /\ a.script = r.script
      /\ Active(a) => a.phase = "ready" /\ a.next = r.next + 1 /\ a.nonce = n + 1
  <2>1. /\ a.phase = Advanced(r).phase /\ a.script = Advanced(r).script
        /\ a.next = Advanced(r).next /\ a.nonce = IF Last(o) THEN 0 ELSE n + 1
    <3> HIDE DEF Advanced
    <3> QED BY <1>5 DEF RunFields
  <2> HIDE DEF a
  <2>2. /\ GoesOn(r, a) /\ a.phase # "numbered"
        /\ Active(a) => a.phase = "ready" /\ a.next = r.next + 1 /\ ~Last(o)
    BY <1>6, <2>1
  <2> QED BY <2>1, <2>2 DEF GoesOn
<1>8. /\ GoesOn(r, f) /\ f.phase # "numbered"
      /\ Active(f) => f.phase = "ready" /\ f.nonce = n + 1
  <2>1. /\ f.phase = Advanced(r).phase /\ f.script = Advanced(r).script
        /\ f.next = Advanced(r).next /\ f.nonce = n + 1
    <3> HIDE DEF Advanced
    <3> QED BY <1>5 DEF RunFields
  <2> HIDE DEF f
  <2> QED BY <1>6, <2>1
<1>9. CASE run' = [run EXCEPT ![o] = e] /\ UNCHANGED <<sent, posted>>
  <2>1. /\ GoesOn(r, Ended(r, "stopped")) /\ Ended(r, "stopped").phase # "numbered"
        /\ ~Active(Ended(r, "stopped"))
    BY <1>1, AdvancedGoesOn
  <2> HIDE DEF f, Ended
  <2>2. GoesOn(r, e) /\ e.phase # "numbered" /\ (Active(e) => e.phase = "ready" /\ e.nonce >= n)
    BY <1>1, <1>8, <2>1
  <2> HIDE DEF e
  <2> QED BY <1>1, <1>2, <1>9, <2>2, QuietOrderly
<1>10. CASE /\ sent' = others \cup {ti} /\ run' = [run EXCEPT ![o] = s] /\ n >= chain.nonce
            /\ posted' = Append(posted, Id(Call(o), "deployer"))
  <2>1. /\ w.phase = "waiting" /\ w.script = r.script /\ w.next = r.next
        /\ w.ticket = n /\ w.failed = r.failed
    BY <1>1 DEF RunFields, Awaited
  <2> HIDE DEF w, a
  <2>2. GoesOn(r, w) BY <2>1 DEF GoesOn
  <2>3. /\ GoesOn(r, s) /\ s.phase # "numbered" /\ s.script = r.script
        /\ Active(s) => /\ \/ s.phase = "ready" /\ s.next = r.next + 1 /\ s.nonce = n + 1
                           \/ /\ s.phase = "waiting" /\ s.next = r.next /\ s.ticket = n
                              /\ s.failed = r.failed /\ ~r.failed /\ Last(o)
    BY <1>7, <2>1, <2>2
  <2> HIDE DEF s
  <2>4. On /\ run'[o] = s /\ \A p \in Operators \ {o} : run'[p] = run[p]
    BY <1>1, <1>2, <1>10, <2>3, OneGoesOn
  <2>5. PICK t : t = ti OBVIOUS
  <2>6. t.nonce = n /\ t.call = Call(o) BY <2>5
  <2>7. t.call.by = o /\ t.call.no = r.next BY <1>1, <2>6, CallIs
  <2>8. \A u \in sent : u.call.by = o => u.nonce < n
    BY <1>1, <1>4 DEF Orderly, BurstAbove
  <2>9. Posting(t.call, "deployer", o)
    <3>1. Passed(Id(t.call, "deployer"))'
      <4>1. r.next \in Nat /\ s.phase # "new" BY <1>4, <2>3 DEF GoesOn
      <4>2. Active(s) => r.next < s.next \/ (s.next = r.next /\ s.phase = "waiting")
        BY <2>3, <4>1
      <4> QED BY <2>4, <2>7, <4>1, <4>2, IdIs DEF Passed
    <3> QED BY <1>1, <1>2, <1>10, <2>4, <2>6, <2>7, <3>1 DEF Posting, Fresh
  <2>10. Undisturbed(o) => \A u \in sent : u.nonce < t.nonce
    <3>1. Undisturbed(o) => \A v \in sent : v.call.by = o BY <1>1, BusyDisturbed DEF Orderly
    <3> QED BY <2>6, <2>8, <3>1
  <2>11. sent' = {u \in sent : u.nonce # t.nonce} \cup {t} BY <1>10, <2>5, <2>6
  <2>12. \A u \in sent : u.nonce \in Nat BY DEF Sound, SentOK
  <2>13. \A u \in sent : u.call.by = o => u.nonce # t.nonce BY <1>1, <2>6, <2>8, <2>12
  <2>14. \A u \in sent' : u.call.by = o => u.nonce <= n BY <1>1, <2>6, <2>8, <2>11, <2>12
  <2>15. Active(s) =>
           /\ s.phase = "ready" => \A u \in sent' : u.call.by = o => u.nonce < s.nonce
           /\ s.phase = "waiting" =>
                /\ s.next = Len(s.script) /\ ~s.failed
                /\ \A u \in sent' : u.call.by = o => u.nonce <= s.ticket
    <3>1. \A u \in sent' : u.nonce \in Nat BY <1>1, <2>6, <2>11, <2>12
    <3> QED BY <1>1, <2>3, <2>14, <3>1 DEF Last
  <2>16. t.nonce \in Nat /\ t.nonce >= chain.nonce BY <1>1, <1>10, <2>6
  <2>17. Sending(t, o)
    BY <1>2, <1>4, <2>3, <2>4, <2>9, <2>10, <2>11, <2>13, <2>15, <2>16 DEF Sending
  <2> QED BY <2>4, <2>17, SendingOrderly DEF OneOn
<1> QED BY <1>3, <1>9, <1>10

-----------------------------------------------------------------------------------
(* Proposals are numbered above what is pending; what comes in between is of runs  *)
(* that overlap.                                                                   *)
LEMMA proposeTransactionOrderly ==
  ASSUME Sound, Sound', Orderly, NEW o \in Operators, proposeTransaction(o)
  PROVE  Orderly' /\ OneOn(o)
<1> DEFINE r == run[o]
           n == IF At(o).nonce # 0 THEN At(o).nonce ELSE getNextNonce(At(o).safe)
           s == [r EXCEPT !.phase = "numbered", !.ticket = n]
<1>1. /\ RunOK(r, chain) /\ DOMAIN r = RunFields /\ r.phase = "ready" /\ Active(r)
  BY Typed DEF proposeTransaction, IsAt, Active
<1>2. run' = [run EXCEPT ![o] = s]
  <2> HIDE DEF n
  <2> QED BY Typed DEF proposeTransaction, n
<1>3. UNCHANGED <<chain, sent, pending, met, posted, settled>> BY DEF proposeTransaction
<1>4. At(o).via # "burst"
  <2>1. Proposes(o) BY DEF proposeTransaction
  <2> QED BY <1>1, <2>1, BurstingIs DEF Proposes
<1>5. ASSUME ~(\E p \in Operators : Explicit(p)), NEW q \in pending, q.safe = At(o).safe
      PROVE  q.nonce < n
  <2>1. At(o).nonce = 0
    <3>1. run[o].next \in DOMAIN run[o].script BY <1>1, BurstingIs
    <3> QED BY <1>5, <3>1 DEF Explicit, At
  <2>2. At(o).safe \in Safes BY <1>1, BurstingIs DEF GoodStep
  <2>3. IsFiniteSet(pending) BY DEF Orderly, PendingNonces
  <2>4. q.nonce < getNextNonce(At(o).safe) BY <1>5, <2>2, <2>3, getNextNonceIs
  <2> QED BY <2>1, <2>4
<1>6. /\ s.phase = "numbered" /\ s.script = r.script /\ s.next = r.next /\ s.ticket = n
  BY <1>1 DEF RunFields
<1> HIDE DEF n, s
<1>7. GoesOn(r, s) BY <1>1, <1>6 DEF GoesOn
<1>8. On /\ run'[o] = s /\ \A p \in Operators \ {o} : run'[p] = run[p]
  BY <1>1, <1>2, <1>3, <1>7, OneGoesOn
<1>9. Settling
  <2>1. Waiting \cap settled = {} BY DEF Orderly, NoneLost
  <2> QED BY <1>3, <2>1, WaitingIs DEF Settling, Orderly
<1>10. AtHeads
  <2>1. chain.nonce \in Nat BY DEF Sound, ChainOK
  <2> QED BY <1>3, <2>1 DEF AtHeads, Orderly, SentNonces, PendingNonces
<1>11. RunsAside
  <2>1. At(o)' = At(o) BY <1>6, <1>8 DEF At
  <2>2. ~Bursting(s.script) BY <1>1, <1>4, <1>6, BurstingIs
  <2> SUFFICES ASSUME NEW p \in Operators, run'[p] # run[p]
               PROVE  /\ run'[p].phase = "numbered" /\ ~(\E q \in Operators : Explicit(q)) =>
                           \A q \in pending : q.safe = At(p)'.safe => q.nonce < run'[p].ticket
                      /\ ~Bursting(run'[p].script)
    BY DEF RunsAside
  <2>3. p = o BY <1>8
  <2> QED BY <1>5, <1>6, <1>8, <2>1, <2>2, <2>3
<1> QED BY <1>8, <1>9, <1>10, <1>11, SettlingOrderly DEF OneOn

LEMMA postTransactionOrderly ==
  ASSUME Sound, Sound', Orderly, NEW o \in Operators, postTransaction(o)
  PROVE  Orderly' /\ OneOn(o)
<1> USE DEF Orderly
<1> DEFINE r == run[o]
           pi == [nonce |-> r.ticket, safe |-> At(o).safe, call |-> Call(o)]
           s == Advanced(r)
           e == Ended(r, "stopped")
<1>1. /\ RunOK(r, chain) /\ r.phase = "numbered" /\ Active(r) /\ r.ticket \in Nat
  BY Typed DEF postTransaction, IsAt, Active, RunOK
<1>2. UNCHANGED <<chain, sent, met, settled>> BY DEF postTransaction
<1>3. \/ /\ pending' = pending \cup {pi} /\ run' = [run EXCEPT ![o] = s]
         /\ r.ticket >= chain.safeNonces[At(o).safe]
         /\ posted' = Append(posted, Id(Call(o), At(o).safe))
      \/ run' = [run EXCEPT ![o] = e] /\ UNCHANGED <<pending, posted>>
  <2> HIDE DEF Advanced, Ended, Call
  <2> QED BY DEF postTransaction
<1>4. CASE run' = [run EXCEPT ![o] = e] /\ UNCHANGED <<pending, posted>>
  <2>1. GoesOn(r, e) /\ e.phase # "numbered" /\ ~Active(e) BY <1>1, AdvancedGoesOn
  <2> HIDE DEF e
  <2> QED BY <1>1, <1>2, <1>4, <2>1, QuietOrderly
<1>5. CASE /\ pending' = pending \cup {pi} /\ run' = [run EXCEPT ![o] = s]
           /\ r.ticket >= chain.safeNonces[At(o).safe]
           /\ posted' = Append(posted, Id(Call(o), At(o).safe))
  <2>1. /\ GoesOn(r, s) /\ s.phase # "numbered"
        /\ Active(s) => s.phase = "ready" /\ s.next = r.next + 1
    BY <1>1, AdvancedGoesOn
  <2> HIDE DEF s
  <2>2. On /\ run'[o] = s /\ \A x \in Operators \ {o} : run'[x] = run[x]
    BY <1>1, <1>2, <1>5, <2>1, OneGoesOn
  <2>3. /\ \A x \in Operators : run'[x].script = run[x].script
        /\ (\E x \in Operators : Explicit(x))' <=> \E x \in Operators : Explicit(x)
        /\ \A x : Undisturbed(x)' <=> Undisturbed(x)
    BY <2>2, OnKeeps
  <2>4. PICK p : p = pi OBVIOUS
  <2>5. p.nonce = r.ticket /\ p.safe = At(o).safe /\ p.call = Call(o) BY <2>4
  <2>6. p.call.by = o /\ p.call.no = r.next BY <1>1, <2>5, CallIs
  <2>7. pending' = pending \cup {p} BY <1>5, <2>4
  <2>8. ~Bursting(r.script) /\ At(o).safe \in Safes
    BY <1>1, BurstingIs DEF GoodStep
  <2> DEFINE id == Id(p.call, p.safe)
             len == Len(posted)
  <2>9. posted' = Append(posted, id) BY <1>5, <2>5
  <2> HIDE DEF pi
  <2>10. Posting(p.call, p.safe, o)
    <3>1. Passed(id)'
      <4>1. r.next \in Nat /\ s.phase # "new" BY <1>1, <2>1 DEF RunOK, GoesOn
      <4> QED BY <2>1, <2>2, <2>6, <4>1, IdIs DEF Passed
    <3> QED BY <1>1, <1>2, <2>2, <2>6, <2>9, <3>1 DEF Posting, Fresh
  <2>11. \A q \in pending :
           q.safe = p.safe => q.nonce < p.nonce \/ (~Undisturbed(o) /\ ~Undisturbed(q.call.by))
    <3> SUFFICES ASSUME NEW q \in pending, q.safe = p.safe, ~(q.nonce < p.nonce)
                 PROVE  ~Undisturbed(o) /\ ~Undisturbed(q.call.by)
      OBVIOUS
    <3>1. CASE \E x \in Operators : Explicit(x) BY <3>1 DEF Undisturbed
    <3>2. CASE ~(\E x \in Operators : Explicit(x))
      <4>1. q.call.by # o /\ {o, q.call.by} \in met BY <1>1, <2>5, <3>2 DEF NumberedAbove
      <4>2. q.call.by \in Operators BY DEF Sound, PendingOK, CallOK
      <4>3. {o, q.call.by} = {q.call.by, o} OBVIOUS
      <4> QED BY <4>1, <4>2, <4>3 DEF Undisturbed
    <3> QED BY <3>1, <3>2
  <2>12. IdsPassed' /\ OverlapsMet' /\ NoneLost' /\ TakeEffectInOrder'
    <3>1. /\ Waiting' = {Id(u.call, "deployer") : u \in sent'}
                          \cup {Id(q.call, q.safe) : q \in pending'}
          /\ Waiting = {Id(u.call, "deployer") : u \in sent}
                          \cup {Id(q.call, q.safe) : q \in pending}
      BY DEF Waiting
    <3>2. Waiting' = Waiting \cup {id} BY <1>2, <2>7, <3>1
    <3> QED BY <1>2, <2>2, <2>10, <3>2, PostingKeeps
  <2>13. IdsUnique'
    <3>1. \A q \in pending : ~SameCall(p.call, q.call) /\ ~SameCall(q.call, p.call)
      BY <2>10, FreshIs DEF Posting, SameCall
    <3> QED BY <1>2, <2>7, <3>1 DEF IdsUnique
  <2>14. SentNonces' BY <1>2 DEF SentNonces
  <2>15. PendingNonces'
    <3>1. IsFiniteSet(pending') BY <2>7, FS_AddElement DEF PendingNonces
    <3>2. \A q \in pending' : q.nonce >= chain'.safeNonces[q.safe]
      BY <1>2, <1>5, <2>5, <2>7 DEF PendingNonces
    <3>3. \A q \in pending : q.nonce \in Nat BY DEF Sound, PendingOK
    <3>4. ASSUME NEW x \in pending', NEW y \in pending', x.safe = y.safe, x.nonce = y.nonce,
                 x # y
          PROVE  ~Undisturbed(x.call.by)
      <4>1. CASE x \in pending /\ y \in pending BY <3>4, <4>1 DEF PendingNonces
      <4>2. CASE x \in pending /\ y = p
        <5>1. ~(x.nonce < p.nonce) BY <3>3, <3>4, <4>2
        <5> QED BY <2>11, <3>4, <4>2, <5>1
      <4>3. CASE x = p /\ y \in pending
        <5>1. ~(y.nonce < p.nonce) BY <3>3, <3>4, <4>3
        <5> QED BY <2>6, <2>11, <3>4, <4>3, <5>1
      <4> QED BY <2>7, <3>4, <4>1, <4>2, <4>3
    <3> QED BY <2>3, <3>1, <3>2, <3>4 DEF PendingNonces
  <2>16. NumberedAbove'
    <3> SUFFICES ASSUME NEW x \in Operators, run'[x].phase = "numbered",
                        ~(\E y \in Operators : Explicit(y)),
                        NEW q \in pending', q.safe = At(x)'.safe
                 PROVE  q.nonce < run'[x].ticket \/ (q.call.by # x /\ {x, q.call.by} \in met')
      BY <2>3 DEF NumberedAbove
    <3>1. x # o BY <2>1, <2>2
    <3>2. run'[x] = run[x] /\ met' = met BY <1>2, <2>2, <3>1
    <3>3. At(x)' = At(x) BY <3>2 DEF At
    <3>4. CASE q \in pending BY <3>2, <3>3, <3>4 DEF NumberedAbove
    <3>5. CASE q = p
      <4>1. x \in Busy /\ o \in Busy BY <1>1, <3>2, BusyDisturbed DEF Active
      <4> QED BY <2>6, <3>1, <3>2, <3>5, <4>1 DEF OverlapsMet
    <3> QED BY <2>7, <3>4, <3>5
  <2>17. BurstAbove'
    <3>1. \A x \in Operators : Bursting(run'[x].script) => x # o BY <2>3, <2>8
    <3> QED BY <1>2, <2>2, <3>1 DEF BurstAbove
  <2>18. NoGap' BY <1>2, <2>3 DEF NoGap
  <2>19. WaitInOrder'
    <3>1. /\ DOMAIN posted = 1 .. len /\ DOMAIN posted' = 1 .. len + 1
          /\ len \in Nat /\ posted'[len + 1] = id
          /\ \A i \in 1 .. len : posted'[i] = posted[i]
      BY <2>9, PostedIs DEF IdsPassed
    <3>2. /\ \A i \in 1 .. len : posted[i] # id
          /\ \A q \in pending : Id(q.call, q.safe) # id
          /\ \A u \in sent : Id(u.call, "deployer") # id
      <4>1. id \notin Waiting /\ \A i \in 1 .. len : posted[i] # id
        BY <2>10, <3>1, FreshIs DEF Posting
      <4> QED BY <4>1, WaitingIs
    <3> HIDE DEF len
    <3> SUFFICES ASSUME NEW j \in 1 .. len + 1, NEW i \in 1 .. j - 1,
                        posted'[i].from = posted'[j].from,
                        Undisturbed(posted'[i].by), Undisturbed(posted'[j].by)
                 PROVE  /\ \A u, v \in sent :
                             Id(u.call, "deployer") = posted'[i]
                               /\ Id(v.call, "deployer") = posted'[j] => u.nonce < v.nonce
                        /\ \A x, y \in pending' :
                             Id(x.call, x.safe) = posted'[i]
                               /\ Id(y.call, y.safe) = posted'[j] => x.nonce < y.nonce
      BY <1>2, <2>3, <3>1 DEF WaitInOrder, Undisturbing
    <3>3. i \in 1 .. len /\ posted'[i] = posted[i] BY <3>1
    <3>4. CASE j \in 1 .. len
      <4>1. posted'[j] = posted[j] BY <3>1, <3>4
      <4>2. \A x \in pending' : \A k \in 1 .. len :
              Id(x.call, x.safe) = posted[k] => x \in pending
        BY <2>7, <3>2
      <4> QED BY <3>1, <3>3, <3>4, <4>1, <4>2 DEF WaitInOrder, Undisturbing
    <3>5. CASE j = len + 1
      <4>1. posted'[j] = id BY <3>1, <3>5
      <4>2. ASSUME NEW x \in pending', NEW y \in pending',
                   Id(x.call, x.safe) = posted'[i], Id(y.call, y.safe) = id
            PROVE  x.nonce < y.nonce
        <5>1. y = p BY <2>7, <3>2, <4>2
        <5>2. x \in pending BY <2>7, <3>2, <3>3, <4>2
        <5>3. x.safe = p.safe BY <4>1, <4>2, IdIs
        <5>4. Undisturbed(o) BY <2>6, <4>1, IdIs
        <5> QED BY <2>11, <5>1, <5>2, <5>3, <5>4
      <4> HIDE DEF id
      <4> QED BY <3>2, <4>1, <4>2
    <3> QED BY <3>1, <3>4, <3>5
  <2> QED BY <2>2, <2>12, <2>13, <2>14, <2>15, <2>16, <2>17, <2>18, <2>19 DEF OneOn
<1> QED BY <1>3, <1>4, <1>5

(* A run that starts has sent nothing, and meets those that are busy.              *)
LEMMA StartIs ==
  ASSUME Sound, IdsPassed, IdsUnique, NEW o \in Operators, NEW k \in run[o].menu, Start(o, k)
  PROVE  /\ run'[o].phase = IF k = <<>> THEN "done" ELSE "ready"
         /\ run'[o].script = k /\ (k # <<>> => run'[o].next = 1)
         /\ \A p \in Operators \ {o} : run'[p] = run[p]
         /\ met' = met \cup {{o, p} : p \in Busy \ {o}}
         /\ UNCHANGED <<chain, sent, pending, posted, settled>>
         /\ \A p \in Operators : Explicit(p) => Explicit(p)'
         /\ \A p : Undisturbed(p)' => Undisturbed(p)
         /\ \A id : Passed(id) => Passed(id)' /\ id.by # o
         /\ \A t \in sent : t.call.by # o
<1> DEFINE x == [at |-> Len(chain.landed), settings |-> chain.settings,
                 balances |-> chain.balances, time |-> 0]
           r == [Idle EXCEPT !.phase = "ready", !.script = k, !.read = x,
                   !.nonce = chain.nonce, !.list = pending]
           s == IF k = <<>> THEN Ended(r, "done") ELSE r
<1>1. run[o].phase = "new" /\ run[o].script = <<>> /\ ~Active(run[o])
  BY Typed DEF Start, IsAt, RunOK, Active
<1>2. /\ run' = [run EXCEPT ![o] = s] /\ met' = met \cup {{o, p} : p \in Busy \ {o}}
      /\ UNCHANGED <<chain, sent, pending, posted, settled>>
  <2> HIDE DEF Ended
  <2> QED BY DEF Start
<1>3. /\ s.phase = (IF k = <<>> THEN "done" ELSE "ready") /\ s.script = k
      /\ k # <<>> => s.next = 1
  <2>1. r.phase = "ready" /\ r.script = k /\ r.next = 1 BY DEF Idle
  <2>2. GoodScript(k) BY Typed, ScriptsGood DEF RunOK
  <2> HIDE DEF r
  <2> QED BY <2>1, <2>2, EndedIs
<1> HIDE DEF s
<1>4. run'[o] = s /\ \A p \in Operators \ {o} : run'[p] = run[p]
  BY <1>2, Typed
<1>5. \A p \in Operators : Explicit(p) => Explicit(p)'
  <2>1. ~Explicit(o) BY <1>1 DEF Explicit
  <2> QED BY <1>4, <2>1 DEF Explicit
<1>6. \A p : Undisturbed(p)' => Undisturbed(p) BY <1>2, <1>5 DEF Undisturbed
<1>7. \A id : Passed(id) => Passed(id)' /\ id.by # o
  <2>1. s.phase # "new" BY <1>3
  <2> QED BY <1>1, <1>4, <2>1 DEF Passed
<1>8. \A t \in sent : t.call.by # o BY <1>7, WaitingIs, IdIs DEF IdsPassed
<1> QED BY <1>2, <1>3, <1>4, <1>5, <1>6, <1>7, <1>8

LEMMA StartOrderly ==
  ASSUME Sound, Sound', Orderly, NEW o \in Operators, NEW k \in run[o].menu, Start(o, k)
  PROVE  Orderly'
<1> USE DEF Orderly
<1>2. /\ met' = met \cup {{o, p} : p \in Busy \ {o}}
      /\ UNCHANGED <<chain, sent, pending, posted, settled>>
  BY StartIs
<1>3. run'[o].phase \in {"ready", "done"} BY StartIs
<1>4. \A p \in Operators \ {o} : run'[p] = run[p] BY StartIs
<1>5. \A p \in Operators : Explicit(p) => Explicit(p)' BY StartIs
<1>6. \A p : Undisturbed(p)' => Undisturbed(p) BY StartIs
<1>7. \A id : Passed(id) => Passed(id)' /\ id.by # o BY StartIs
<1>8. \A t \in sent : t.call.by # o BY StartIs
<1>9. IdsPassed' BY <1>2, <1>7 DEF IdsPassed, Waiting
<1>10. IdsUnique' BY <1>2 DEF IdsUnique
<1>11. OverlapsMet'
  <2>1. Busy' \subseteq Busy \cup {o} BY <1>2, <1>4 DEF Busy
  <2>2. \A p \in Busy : p # o => {o, p} \in met' /\ {p, o} \in met'
    <3>1. \A p : {o, p} = {p, o} OBVIOUS
    <3> QED BY <1>2, <3>1
  <2> QED BY <1>2, <2>1, <2>2 DEF OverlapsMet
<1>12. SentNonces' BY <1>2 DEF SentNonces
<1>13. PendingNonces' BY <1>2, <1>6 DEF PendingNonces
<1>14. NumberedAbove'
  <2>1. \A p \in Operators : run'[p].phase = "numbered" => p # o BY <1>3, <1>4
  <2>2. \A p \in Operators : p # o => At(p)' = At(p) BY <1>4 DEF At
  <2>3. met \subseteq met' BY <1>2
  <2> QED BY <1>2, <1>4, <1>5, <2>1, <2>2, <2>3 DEF NumberedAbove
<1>15. BurstAbove'
  <2> SUFFICES ASSUME NEW p \in Operators, Active(run'[p]), Bursting(run'[p].script)
               PROVE  /\ run'[p].phase = "ready" =>
                           \A u \in sent' : u.call.by = p => u.nonce < run'[p].nonce
                      /\ run'[p].phase = "waiting" =>
                           /\ run'[p].next = Len(run'[p].script) /\ ~run'[p].failed
                           /\ \A u \in sent' : u.call.by = p => u.nonce <= run'[p].ticket
    BY DEF BurstAbove
  <2>1. CASE p = o BY <1>2, <1>3, <1>4, <1>8, <2>1
  <2>2. CASE p # o BY <1>2, <1>4, <2>2 DEF BurstAbove
  <2> QED BY <2>1, <2>2
<1>16. NoGap'
  <2> SUFFICES ASSUME NEW p \in Operators, Undisturbed(p), ~Bursting(run'[p].script),
                      \A u \in sent : u.call.by = p, NEW t \in sent
               PROVE  \A n \in chain.nonce .. t.nonce : \E u \in sent : u.nonce = n
    BY <1>2, <1>6 DEF NoGap
  <2>1. p # o BY <1>8
  <2>2. run'[p] = run[p] BY <1>4, <2>1
  <2> QED BY <2>2 DEF NoGap
<1>17. WaitInOrder' BY <1>2, <1>6 DEF WaitInOrder, Undisturbing
<1>18. NoneLost'
  <2>1. Waiting' = Waiting BY <1>2 DEF Waiting
  <2> QED BY <1>2, <1>6, <2>1 DEF NoneLost
<1>19. TakeEffectInOrder' BY <1>2, <1>6 DEF TakeEffectInOrder
<1> QED BY <1>9, <1>10, <1>11, <1>12, <1>13, <1>14, <1>15, <1>16, <1>17, <1>18, <1>19

-----------------------------------------------------------------------------------
(* What is mined or executed was next in line.                                     *)
LEMMA MineOrderly ==
  ASSUME Sound, Sound', Orderly, Mine PROVE Orderly' /\ On
<1> USE DEF Orderly
<1>1. PICK t \in sent :
        LET o == t.call.by
            lands == Allowed(chain, "deployer", t.call)
        IN /\ t.nonce = chain.nonce
           /\ chain' = [(IF lands THEN Land(chain, "deployer", t.call) ELSE chain)
                         EXCEPT !.nonce = @ + 1]
           /\ sent' = sent \ {t}
           /\ settled' = settled \cup {Id(t.call, "deployer")}
           /\ run' = IF IsAt(o, "waiting") /\ run[o].ticket = t.nonce
                     THEN [run EXCEPT ![o] = IF lands THEN Advanced(@) ELSE Ended(@, "stopped")]
                     ELSE run
           /\ UNCHANGED <<pending, met, posted>>
  <2> HIDE DEF Allowed, Land, Advanced, Ended, IsAt, Orderly
  <2> QED BY DEF Mine
<1> DEFINE o == t.call.by
           r == run[o]
           lands == Allowed(chain, "deployer", t.call)
           s == IF lands THEN Advanced(r) ELSE Ended(r, "stopped")
<1>2. o \in Operators BY DEF Sound, SentOK, CallOK
<1>3. /\ chain'.nonce = chain.nonce + 1 /\ chain'.safeNonces = chain.safeNonces
      /\ chain.nonce \in Nat /\ \A u \in sent : u.nonce \in Nat
  BY <1>1, MinedIs DEF Sound, ChainOK, SentOK
<1>4. On /\ RunsAside
  <2>1. CASE ~(IsAt(o, "waiting") /\ r.ticket = t.nonce)
    <3>1. run' = run BY <1>1, <2>1
    <3> QED BY <1>1, <3>1 DEF On, RunsAside
  <2>2. CASE IsAt(o, "waiting") /\ r.ticket = t.nonce
    <3>1. run' = [run EXCEPT ![o] = s]
      <4> HIDE DEF lands, Advanced, Ended
      <4> QED BY <1>1, <2>2 DEF lands
    <3>2. RunOK(r, chain) /\ Active(r) /\ r.phase = "waiting"
      BY <1>2, <2>2, Typed DEF IsAt, Active
    <3>3. GoesOn(r, s) /\ s.phase # "numbered" /\ (Active(s) => r.next < Len(r.script))
      BY <3>2, AdvancedGoesOn
    <3> HIDE DEF s
    <3>4. On /\ run'[o] = s /\ \A p \in Operators \ {o} : run'[p] = run[p]
      BY <1>1, <1>2, <3>1, <3>2, <3>3, OneGoesOn
    <3>5. ~(Active(s) /\ Bursting(s.script))
      <4>1. Bursting(r.script) => r.next = Len(r.script)
        BY <1>2, <3>2 DEF BurstAbove
      <4>2. Len(r.script) \in Nat BY <1>2, <3>2, BurstingIs
      <4> QED BY <3>3, <4>1, <4>2 DEF GoesOn
    <3>6. RunsAside BY <3>3, <3>4, <3>5 DEF RunsAside
    <3> QED BY <3>4, <3>6
  <2> QED BY <2>1, <2>2
<1>5. Settling
  <2>1. Waiting \cap settled = {} BY DEF NoneLost
  <2> QED BY <1>1, <2>1, WaitingIs DEF Settling
<1>6. AtHeads
  <2>1. \A u \in sent : u # t => u.nonce >= chain.nonce /\ u.nonce # chain.nonce
    BY <1>1 DEF SentNonces
  <2>2. \A u \in sent' : u.nonce >= chain'.nonce BY <1>1, <1>3, <2>1
  <2> QED BY <1>1, <1>3, <2>2 DEF AtHeads, PendingNonces
<1> QED BY <1>4, <1>5, <1>6, SettlingOrderly

LEMMA TurnOrderly ==
  ASSUME Sound, Sound', Orderly, On, RunsAside, NEW p \in pending, AtHead(p),
         UNCHANGED <<sent, met, posted>>, pending' = pending \ SameNonce(p),
         chain'.nonce = chain.nonce,
         chain'.safeNonces = [chain.safeNonces EXCEPT ![p.safe] = @ + 1],
         NEW Away, Away \subseteq SameNonce(p), p \in Away,
         settled' = settled \cup {Id(q.call, q.safe) : q \in Away},
         \A q \in SameNonce(p) : q \in Away \/ ~Undisturbed(q.call.by)
  PROVE  Orderly'
<1> USE DEF Orderly
<1>1. /\ chain.nonce \in Nat /\ chain.safeNonces \in [Safes -> Nat]
      /\ \A q \in pending : q.nonce \in Nat /\ q.safe \in Safes
      /\ \A t \in sent : t.nonce \in Nat
  BY DEF Sound, ChainOK, PendingOK, SentOK
<1>2. Settling
  <2>1. Waiting \cap settled = {} BY DEF NoneLost
  <2>2. /\ \A t \in sent : Id(t.call, "deployer") \notin settled'
        /\ \A q \in pending : Id(q.call, q.safe) \in settled' <=> q \in Away
    BY <2>1, WaitingIs DEF SameNonce
  <2>3. settled' \subseteq settled \cup Waiting BY WaitingIs DEF SameNonce
  <2> QED BY <2>2, <2>3 DEF Settling
<1>3. AtHeads
  <2>1. \A q \in pending : q \notin pending' => q.nonce = chain.safeNonces[q.safe]
    BY DEF AtHead, SameNonce
  <2>2. \A q \in pending' : q.nonce >= chain'.safeNonces[q.safe]
    <3> TAKE q \in pending'
    <3>1. q \in pending /\ ~(q.safe = p.safe /\ q.nonce = p.nonce) BY DEF SameNonce
    <3>2. q.nonce >= chain.safeNonces[q.safe] BY <3>1 DEF PendingNonces
    <3>3. CASE q.safe = p.safe
      <4>1. chain'.safeNonces[q.safe] = chain.safeNonces[q.safe] + 1 BY <1>1, <3>3
      <4>2. q.nonce # chain.safeNonces[q.safe] BY <3>1, <3>3 DEF AtHead
      <4>3. chain.safeNonces[q.safe] \in Nat /\ q.nonce \in Nat BY <1>1, <3>1
      <4> QED BY <3>2, <4>1, <4>2, <4>3
    <3>4. CASE q.safe # p.safe
      <4>1. chain'.safeNonces[q.safe] = chain.safeNonces[q.safe] BY <1>1, <3>1, <3>4
      <4> QED BY <3>2, <4>1
    <3> QED BY <3>3, <3>4
  <2> QED BY <1>1, <2>1, <2>2 DEF AtHeads, SentNonces
<1> QED BY <1>2, <1>3, SettlingOrderly

LEMMA execTransactionOrderly ==
  ASSUME Sound, Sound', Orderly, On, RunsAside, NEW p \in pending, execTransaction(p),
         UNCHANGED <<sent, met, posted>>
  PROVE  Orderly'
<1>1. /\ chain'.nonce = chain.nonce
      /\ chain'.safeNonces = [chain.safeNonces EXCEPT ![p.safe] = @ + 1]
  BY ExecutedIs
<1>2. /\ AtHead(p) /\ pending' = pending \ SameNonce(p)
      /\ settled' = settled \cup {Id(p.call, p.safe)}
  BY DEF execTransaction, Executable
<1>3. \A q \in SameNonce(p) : q \in {p} \/ ~Undisturbed(q.call.by)
  BY DEF Orderly, PendingNonces, SameNonce
<1>4. settled' = settled \cup {Id(q.call, q.safe) : q \in {p}} BY <1>2
<1>5. {p} \subseteq SameNonce(p) /\ p \in {p} BY DEF SameNonce
<1> QED BY <1>1, <1>2, <1>3, <1>4, <1>5, TurnOrderly

LEMMA StillGoesOn ==
  ASSUME run' = run, met' = met PROVE On /\ RunsAside
BY DEF On, RunsAside

LEMMA signersExecuteOrderly ==
  ASSUME Sound, Sound', Orderly, signersExecute PROVE Orderly'
BY StillGoesOn, execTransactionOrderly DEF signersExecute

LEMMA signersRejectOrderly ==
  ASSUME Sound, Sound', Orderly, signersReject PROVE Orderly'
<1>1. PICK p \in pending :
        /\ AtHead(p) /\ chain' = [chain EXCEPT !.safeNonces[p.safe] = @ + 1]
        /\ pending' = pending \ SameNonce(p)
        /\ settled' = settled \cup {Id(q.call, q.safe) : q \in SameNonce(p)}
        /\ UNCHANGED <<sent, run, met, posted>>
  BY DEF signersReject
<1>2. /\ chain'.nonce = chain.nonce
      /\ chain'.safeNonces = [chain.safeNonces EXCEPT ![p.safe] = @ + 1]
  BY <1>1, NoncesKeep DEF Sound, PendingOK
<1>3. p \in SameNonce(p) BY DEF SameNonce
<1>4. On /\ RunsAside BY <1>1, StillGoesOn
<1> QED BY <1>1, <1>2, <1>3, <1>4, TurnOrderly

LEMMA executePendingTransactionsOrderly ==
  ASSUME Sound, Sound', Orderly, NEW o \in Operators, executePendingTransactions(o)
  PROVE  Orderly' /\ OneOn(o)
<1> DEFINE r == run[o]
           s(p) == [r EXCEPT !.list = @ \ {p}]
           a == Advanced(r)
           e == Ended(r, "stopped")
<1>1. /\ RunOK(r, chain) /\ DOMAIN r = RunFields /\ r.phase = "ready" /\ Active(r)
      /\ r.nonce \in Nat
  BY Typed DEF executePendingTransactions, IsAt, Active, RunOK
<1>2. UNCHANGED <<sent, met, posted>> /\ At(o).via # "burst"
  BY DEF executePendingTransactions
<1>3. \/ /\ run' = [run EXCEPT ![o] = a] \/ run' = [run EXCEPT ![o] = e]
         /\ UNCHANGED <<chain, pending, settled>>
      \/ \E p \in pending : execTransaction(p) /\ run' = [run EXCEPT ![o].list = @ \ {p}]
  <2> HIDE DEF Advanced, Ended, execTransaction
  <2> QED BY DEF executePendingTransactions
<1>4. CASE /\ run' = [run EXCEPT ![o] = a] \/ run' = [run EXCEPT ![o] = e]
           /\ UNCHANGED <<chain, pending, settled>>
  <2>1. /\ GoesOn(r, a) /\ a.phase # "numbered"
        /\ Active(a) => a.phase = "ready" /\ a.nonce = r.nonce
        /\ GoesOn(r, e) /\ e.phase # "numbered" /\ ~Active(e)
    BY <1>1, AdvancedGoesOn
  <2>2. Active(a) => a.nonce >= r.nonce BY <1>1, <2>1
  <2> HIDE DEF a, e
  <2>3. CASE run' = [run EXCEPT ![o] = a] BY <1>1, <1>2, <1>4, <2>1, <2>2, <2>3,
      QuietOrderly
  <2>4. CASE run' = [run EXCEPT ![o] = e] BY <1>1, <1>2, <1>4, <2>1, <2>4, QuietOrderly
  <2> QED BY <1>4, <2>3, <2>4
<1>5. CASE \E p \in pending : execTransaction(p) /\ run' = [run EXCEPT ![o].list = @ \ {p}]
  <2>1. PICK p \in pending : execTransaction(p) /\ run' = [run EXCEPT ![o].list = @ \ {p}]
    BY <1>5
  <2> DEFINE w == s(p)
  <2>2. run' = [run EXCEPT ![o] = w] BY <2>1
  <2>3. w.phase = "ready" /\ w.next = r.next /\ w.script = r.script BY <1>1 DEF RunFields
  <2> HIDE DEF w
  <2>4. GoesOn(r, w) BY <1>1, <2>3 DEF GoesOn
  <2>5. On /\ run'[o] = w /\ \A q \in Operators \ {o} : run'[q] = run[q]
    BY <1>1, <1>2, <2>2, <2>4, OneGoesOn
  <2>6. ~Bursting(w.script) BY <1>1, <1>2, <2>3, BurstingIs
  <2>7. RunsAside BY <2>3, <2>5, <2>6 DEF RunsAside
  <2> QED BY <1>2, <2>1, <2>5, <2>7, execTransactionOrderly DEF OneOn
<1> QED BY <1>3, <1>4, <1>5

LEMMA ClockOrderly ==
  ASSUME Sound, Sound', Orderly, cancelTransaction \/ Tick PROVE Orderly'
<1>1. UNCHANGED <<sent, pending, run, met, posted, settled>> BY DEF cancelTransaction, Tick
<1>2. /\ chain'.nonce = chain.nonce /\ chain'.safeNonces = chain.safeNonces
      /\ chain.nonce \in Nat
  BY DEF cancelTransaction, Tick, Sound, ChainOK, ChainFields
<1>3. Settling
  <2>1. Waiting \cap settled = {} BY DEF Orderly, NoneLost
  <2> QED BY <1>1, <2>1, WaitingIs DEF Settling, Orderly
<1>4. AtHeads BY <1>1, <1>2 DEF AtHeads, Orderly, SentNonces, PendingNonces
<1> QED BY <1>1, <1>3, <1>4, StillGoesOn, SettlingOrderly

LEMMA StepOrderly ==
  ASSUME Sound, Sound', Orderly, [Next]_vars PROVE Orderly'
<1>1. CASE UNCHANGED vars
  <2>1. UNCHANGED <<chain, sent, pending, run, met, posted, settled>> BY <1>1 DEF vars
  <2>2. Settling
    <3>1. Waiting \cap settled = {} BY DEF Orderly, NoneLost
    <3> QED BY <2>1, <3>1, WaitingIs DEF Settling, Orderly
  <2>3. AtHeads
    <3>1. chain.nonce \in Nat BY DEF Sound, ChainOK
    <3> QED BY <2>1, <3>1 DEF AtHeads, Orderly, SentNonces, PendingNonces
  <2> QED BY <2>1, <2>2, <2>3, StillGoesOn, SettlingOrderly
<1>2. ASSUME NEW o \in Operators, OfScript(o) PROVE Orderly'
  <2>1. CASE \E s \in run[o].menu : Start(o, s) BY <2>1, StartOrderly
  <2>2. CASE Skip(o) \/ Stop(o) \/ authExec(o)
    BY <2>2, SkipOrderly, StopOrderly, authExecOrderly
  <2>3. CASE upgrade(o) \/ throughTimelock(o) BY <2>3, upgradeOrderly,
      throughTimelockOrderly
  <2>4. CASE sendTransaction(o) \/ sendAtNonce(o)
    BY <2>4, sendTransactionOrderly, sendAtNonceOrderly
  <2>5. CASE proposeTransaction(o) \/ postTransaction(o)
    BY <2>5, proposeTransactionOrderly, postTransactionOrderly
  <2>6. CASE executePendingTransactions(o) BY <2>6, executePendingTransactionsOrderly
  <2> QED BY <1>2, <2>1, <2>2, <2>3, <2>4, <2>5, <2>6 DEF OfScript
<1>3. CASE Mine \/ signersExecute \/ signersReject
  BY <1>3, MineOrderly, signersExecuteOrderly, signersRejectOrderly
<1>4. CASE cancelTransaction \/ Tick BY <1>4, ClockOrderly
<1> QED BY <1>1, <1>2, <1>3, <1>4 DEF Next, OfScript

-----------------------------------------------------------------------------------
(* multi-set-pyth: what is sent of it will land, and what was settled of it has.   *)
LEMMA MultiSetPythIs ==
  /\ Len(MultiSetPyth) = 5 /\ DOMAIN MultiSetPyth = 1 .. 5 /\ Bursting(MultiSetPyth)
  /\ \A n \in 1 .. 5 :
       MultiSetPyth[n].fn = "setPyth" /\ MultiSetPyth[n].takes = "none"
  /\ \A f \in Feeds : \E n \in 1 .. 5 : MultiSetPyth[n].to = f
BY DEF MultiSetPyth, Burst, Step, Bursting, Feeds

LEMMA FedKept ==
  ASSUME Sound, Sound', Orderly', Fed, On, Follows(chain, chain'),
         \A i \in DOMAIN posted : i \in DOMAIN posted' /\ posted'[i] = posted[i],
         \A t \in sent' : t \in sent \/ SentWell(t),
         \A id \in settled' :
           id \in settled \/ id.from # "deployer" \/ run[id.by].script # MultiSetPyth
             \/ FeedLanded(id.by, MultiSetPyth[id.no].to)',
         \A o \in Operators :
           run'[o] = run[o] \/ run[o].script # MultiSetPyth
             \/ (/\ PostedSoFar(o)'
                 /\ run'[o].phase = "done" /\ Undisturbed(o) => \A f \in Feeds : FeedLanded(o, f)')
  PROVE  Fed'
<1>1. /\ \A p \in Operators : run'[p].script = run[p].script
      /\ \A p : Undisturbed(p)' <=> Undisturbed(p)
  BY OnKeeps
<1>2. \A o, f : FeedLanded(o, f) => FeedLanded(o, f)'
  <2>1. IsSeq(chain.landed) /\ Extends(chain.landed, chain'.landed)
    BY DEF Sound, ChainOK, Follows
  <2> QED BY <2>1 DEF FeedLanded, Extends, IsSeq
<1>3. \A t \in sent' : t.call.by \in Operators BY DEF Sound, SentOK, CallOK
<1>4. \A id \in settled' : id.by \in Operators BY DEF Orderly, IdsPassed, Passed
<1>5. SentByBurst'
  <2>1. \A t \in sent' : SentWell(t) BY DEF Fed, SentByBurst
  <2> QED BY <1>1, <1>3, <2>1 DEF SentByBurst, SentWell, Follows
<1>6. SettledLanded'
  BY <1>1, <1>2, <1>4 DEF Fed, SettledLanded
<1>7. AllPosted'
  <2> SUFFICES ASSUME NEW o \in Operators PROVE PostedSoFar(o)' BY DEF AllPosted
  <2>1. PostedSoFar(o) BY DEF Fed, AllPosted
  <2>2. CASE run'[o] = run[o] BY <2>1, <2>2 DEF PostedSoFar
  <2>3. CASE run[o].script # MultiSetPyth BY <1>1, <2>3 DEF PostedSoFar
  <2> QED BY <2>2, <2>3
<1>8. OneFeed'
  <2> SUFFICES ASSUME NEW o \in Operators, run'[o].phase = "done",
                      run[o].script = MultiSetPyth, Undisturbed(o), NEW f \in Feeds
               PROVE  FeedLanded(o, f)'
    BY <1>1 DEF OneFeed, FeedLanded
  <2>1. CASE run'[o] = run[o]
    <3>1. FeedLanded(o, f) BY <2>1 DEF Fed, OneFeed, FeedLanded
    <3> QED BY <1>2, <3>1
  <2> QED BY <2>1
<1> QED BY <1>5, <1>6, <1>7, <1>8 DEF Fed

(* The steps of the other scripts, and those of nobody's.                          *)
LEMMA PostedStays ==
  ASSUME Orderly, NEW id, posted' = posted \/ posted' = Append(posted, id)
  PROVE  \A i \in DOMAIN posted : i \in DOMAIN posted' /\ posted'[i] = posted[i]
<1>1. CASE posted' = Append(posted, id)
  BY <1>1, PostedIs DEF Orderly, IdsPassed
<1> QED BY <1>1

LEMMA OthersFed ==
  ASSUME Sound, Sound', Orderly, Orderly', Fed, NEW o \in Operators, OneOn(o),
         Active(run[o]), At(o).via # "burst", Follows(chain, chain'),
         NEW id, posted' = posted \/ posted' = Append(posted, id),
         \A t \in sent' : t \in sent \/ SentWell(t),
         \A x \in settled' : x \in settled \/ x.from \in Safes
  PROVE  Fed'
<1>1. run[o].script # MultiSetPyth BY BurstingIs, MultiSetPythIs
<1>2. "deployer" \notin Safes BY DEF Safes
<1>3. \A i \in DOMAIN posted : i \in DOMAIN posted' /\ posted'[i] = posted[i]
  BY PostedStays
<1> QED BY <1>1, <1>2, <1>3, FedKept DEF OneOn

LEMMA NobodysFed ==
  ASSUME Sound, Sound', Orderly, Orderly', Fed, Follows(chain, chain'),
         UNCHANGED <<run, met, sent, posted>>,
         \A x \in settled' : x \in settled \/ x.from \in Safes
  PROVE  Fed'
<1>1. "deployer" \notin Safes BY DEF Safes
<1>2. On BY StillGoesOn
<1> QED BY <1>1, <1>2, FedKept

(* The feeds have one owner, and only the deployer's account sends to them by the  *)
(* owner's right.                                                                  *)
LEMMA FeedSetter ==
  ASSUME Sound, NEW call, CallOK(call, chain.landed), call.step.fn = "setPyth"
  PROVE  /\ Allowed(chain, "deployer", call) => chain.home = "deployer"
         /\ chain.home = "deployer" /\ call.step.takes = "none" =>
              Allowed(chain, "deployer", call)
         /\ call.inner = <<>>
<1> DEFINE step == call.step
<1>1. call.inner = <<>> /\ GoodStep(step) BY DEF CallOK, PlainCall
<1>2. Allowed(chain, "deployer", call) <=> Succeeds(chain, "deployer", call)
  BY <1>1 DEF Allowed, Plain
<1>3. Opener(step.fn) = "none" /\ step.fn \notin Anyones /\ step.fn \notin OwnersToo
  BY DEF Opener, Anyones, OwnersToo
<1>4. <<step.to, Opener(step.fn), "deployer">> \notin chain.grants
  <2>1. <<step.to, Opener(step.fn), "deployer">>[2] = "none" BY <1>3
  <2> QED BY <2>1 DEF Sound, ChainOK
<1>5. OwnerOf(chain, step.to) = chain.home
  <2>1. step.to \in Feeds BY <1>1 DEF GoodStep
  <2>2. step.to # "proxyAdmin" /\ step.to # "timelock" BY <2>1 DEF Feeds
  <2>3. step.to \notin chain.moved BY <2>1 DEF Sound, ChainOK
  <2> QED BY <2>2, <2>3 DEF OwnerOf
<1>6. MayCall(chain, "deployer", step) <=> chain.home = "deployer"
  BY <1>3, <1>4, <1>5 DEF MayCall
<1>7. NeedsAlso("deployer", step) = {} BY DEF NeedsAlso, Spending
<1>8. ~Refuses(chain, call) BY DEF Refuses, Once
<1> QED BY <1>1, <1>2, <1>6, <1>7, <1>8 DEF Succeeds

LEMMA sendTransactionFed ==
  ASSUME Sound, Sound', Orderly, Orderly', Fed, NEW o \in Operators, sendTransaction(o)
  PROVE  Fed'
<1>1. OneOn(o) BY sendTransactionOrderly
<1>2. RunOK(run[o], chain) /\ Active(run[o]) /\ ChainOK(chain)
  BY Typed DEF sendTransaction, IsAt, Active
<1>3. At(o).via # "burst"
  <2>1. Sends(o) BY DEF sendTransaction
  <2> QED BY <1>2, <2>1, BurstingIs DEF Sends
<1> DEFINE t == [nonce |-> NextNonce, call |-> Call(o)]
<1>4. /\ chain' = chain /\ settled' = settled
      /\ posted' = posted \/ posted' = Append(posted, Id(Call(o), "deployer"))
      /\ \/ sent' = sent
         \/ sent' = sent \cup {t} /\ Allowed(chain, "deployer", Call(o))
  <2> HIDE DEF Call, Advanced, Ended, Allowed, Id
  <2> QED BY DEF sendTransaction
<1>5. Allowed(chain, "deployer", Call(o)) => SentWell(t)
  <2>1. CallOK(Call(o), chain.landed) /\ Call(o).by = o BY <1>2, CallIs
  <2>2. ~Bursting(run[o].script) BY <1>2, <1>3, BurstingIs
  <2>3. t.call = Call(o) OBVIOUS
  <2> HIDE DEF t, Call
  <2> QED BY <2>1, <2>2, <2>3, FeedSetter DEF SentWell
<1> HIDE DEF t
<1>6. \A u \in sent' : u \in sent \/ SentWell(u) BY <1>4, <1>5
<1>7. Follows(chain, chain') BY <1>2, <1>4, FollowsItself
<1> QED BY <1>1, <1>2, <1>3, <1>4, <1>6, <1>7, OthersFed

LEMMA sendAtNonceFed ==
  ASSUME Sound, Sound', Orderly, Orderly', Fed, NEW o \in Operators, sendAtNonce(o)
  PROVE  Fed'
<1> DEFINE r == run[o]
           n == r.nonce
           w == [r EXCEPT !.phase = "waiting", !.ticket = Awaited(o)]
           a == [Advanced(r) EXCEPT !.nonce = IF Last(o) THEN 0 ELSE n + 1]
           f == [Advanced(r) EXCEPT !.nonce = n + 1, !.failed = TRUE]
           s == IF Last(o) /\ ~r.failed THEN w ELSE a
           e == IF Last(o) THEN Ended(r, "stopped") ELSE f
           t == [nonce |-> n, call |-> Call(o)]
           id == Id(Call(o), "deployer")
<1>1. OneOn(o) BY sendAtNonceOrderly
<1>2. /\ RunOK(r, chain) /\ DOMAIN r = RunFields /\ r.phase = "ready" /\ Active(r)
      /\ ChainOK(chain) /\ At(o).via = "burst" /\ run = [p \in Operators |-> run[p]]
  BY Typed DEF sendAtNonce, IsAt, Active
<1>3. /\ chain' = chain /\ settled' = settled
      /\ \/ /\ run'[o] = s /\ posted' = Append(posted, id)
            /\ \A u \in sent' : u \in sent \/ u = t
            /\ Allowed(chain, "deployer", Call(o))
         \/ run'[o] = e /\ posted' = posted /\ sent' = sent
  <2> HIDE DEF Advanced, Ended, Awaited, Call, Allowed, Id, Last
  <2> QED BY <1>2 DEF sendAtNonce
<1>4. /\ Bursting(r.script) /\ r.next \in 1 .. Len(r.script) /\ Len(r.script) \in Nat
      /\ DOMAIN r.script = 1 .. Len(r.script) /\ At(o) = r.script[r.next]
  BY <1>2, BurstingIs
<1>5. /\ Call(o).by = o /\ Call(o).no = r.next /\ Call(o).step = At(o)
      /\ CallOK(Call(o), chain.landed)
  BY <1>2, CallIs
<1>6. Allowed(chain, "deployer", Call(o)) => SentWell(t)
  <2>1. t.call = Call(o) OBVIOUS
  <2> HIDE DEF t, Call
  <2> QED BY <1>4, <1>5, <2>1, FeedSetter DEF SentWell
<1>7. /\ Advanced(r).script = r.script /\ DOMAIN Advanced(r) = RunFields
      /\ r.next < Len(r.script) =>
           /\ Advanced(r).phase = "ready" /\ Advanced(r).next = r.next + 1
           /\ Advanced(r).failed = r.failed
      /\ ~(r.next < Len(r.script)) =>
           /\ ~Active(Advanced(r)) /\ Advanced(r).phase = IF r.failed THEN "stopped" ELSE "done"
  <2>1. RunOK(Advanced(r), chain) BY <1>2, AdvancedIs
  <2>2. DOMAIN Advanced(r) = RunFields
    <3> HIDE DEF Advanced
    <3> QED BY <2>1 DEF RunOK
  <2> QED BY <1>2, <2>2, AdvancedIs
<1>8. Last(o) <=> ~(r.next < Len(r.script)) BY <1>4 DEF Last
<1>9. CASE /\ run'[o] = s /\ posted' = Append(posted, id)
           /\ \A u \in sent' : u \in sent \/ u = t
           /\ Allowed(chain, "deployer", Call(o))
  <2>1. w.phase = "waiting" /\ w.next = r.next /\ w.failed = r.failed
    BY <1>2 DEF RunFields
  <2>2. /\ a.phase = Advanced(r).phase /\ a.next = Advanced(r).next
        /\ a.failed = Advanced(r).failed
    <3> HIDE DEF Advanced
    <3> QED BY <1>7 DEF RunFields
  <2> HIDE DEF w, a, Advanced
  <2>3. /\ s.phase # "done"
        /\ Active(s) => /\ s.failed = r.failed
                        /\ \/ s.next = r.next /\ s.phase = "waiting"
                           \/ s.next = r.next + 1 /\ s.phase = "ready"
    <3>1. CASE Last(o) /\ ~r.failed BY <2>1, <3>1
    <3>2. CASE ~Last(o) BY <1>7, <1>8, <2>2, <3>2
    <3>3. CASE Last(o) /\ r.failed BY <1>7, <1>8, <2>2, <3>3 DEF Active
    <3> QED BY <3>1, <3>2, <3>3
  <2> HIDE DEF s, t
  <2>4. \A i \in DOMAIN posted : i \in DOMAIN posted' /\ posted'[i] = posted[i]
    BY <1>9, PostedStays
  <2>5. PostedSoFar(o)'
    <3> SUFFICES ASSUME r.script = MultiSetPyth, Active(s), ~s.failed,
                        NEW m \in 1 .. Len(MultiSetPyth),
                        m < s.next \/ (m = s.next /\ s.phase = "waiting")
                 PROVE  \E i \in DOMAIN posted' :
                          posted'[i] = [by |-> o, no |-> m, from |-> "deployer"]
      <4>1. run'[o].script = r.script BY <1>1, OnKeeps DEF OneOn
      <4> QED BY <1>9, <4>1 DEF PostedSoFar
    <3>1. ~r.failed /\ (m < r.next \/ m = r.next)
      <4>1. m \in Nat /\ r.next \in Nat BY <1>4, MultiSetPythIs
      <4> QED BY <2>3, <4>1
    <3>2. CASE m < r.next
      <4>1. PICK i \in DOMAIN posted : posted[i] = [by |-> o, no |-> m, from |-> "deployer"]
        BY <1>2, <3>1, <3>2 DEF Fed, AllPosted, PostedSoFar
      <4> QED BY <2>4, <4>1
    <3>3. CASE m = r.next
      <4>1. id = [by |-> o, no |-> m, from |-> "deployer"] BY <1>5, <3>3 DEF Id
      <4>2. Len(posted) + 1 \in DOMAIN posted' /\ posted'[Len(posted) + 1] = id
        <5> HIDE DEF id
        <5> QED BY <1>9, PostedIs DEF Orderly, IdsPassed
      <4> QED BY <4>1, <4>2
    <3> QED BY <3>1, <3>2, <3>3
  <2>6. \A u \in sent' : u \in sent \/ SentWell(u) BY <1>6, <1>9
  <2>7. Follows(chain, chain') BY <1>2, <1>3, FollowsItself
  <2>8. run'[o].phase # "done" BY <1>9, <2>3
  <2> QED BY <1>1, <1>3, <2>4, <2>5, <2>6, <2>7, <2>8, FedKept DEF OneOn
<1>10. CASE run'[o] = e /\ posted' = posted /\ sent' = sent
  <2>1. /\ f.phase = Advanced(r).phase /\ f.failed = TRUE
    <3> HIDE DEF Advanced
    <3> QED BY <1>7 DEF RunFields
  <2>2. /\ Ended(r, "stopped").phase = "stopped" /\ ~Active(Ended(r, "stopped"))
    BY <1>2, AdvancedGoesOn, EndedIs, Typed
  <2> HIDE DEF f, Advanced, Ended
  <2>3. e.phase # "done" /\ (Active(e) => e.failed)
    BY <1>7, <1>8, <2>1, <2>2
  <2> HIDE DEF e
  <2>4. PostedSoFar(o)' BY <1>10, <2>3 DEF PostedSoFar
  <2>5. Follows(chain, chain') BY <1>2, <1>3, FollowsItself
  <2> QED BY <1>1, <1>3, <1>10, <2>3, <2>4, <2>5, FedKept DEF OneOn
<1> QED BY <1>3, <1>9, <1>10

(* What is mined of it lands, so all of it has once its last transaction is mined. *)
LEMMA MineFed ==
  ASSUME Sound, Sound', Orderly, Orderly', Fed, Mine PROVE Fed'
<1>1. PICK t \in sent :
        LET o == t.call.by
            lands == Allowed(chain, "deployer", t.call)
        IN /\ t.nonce = chain.nonce
           /\ chain' = [(IF lands THEN Land(chain, "deployer", t.call) ELSE chain)
                         EXCEPT !.nonce = @ + 1]
           /\ sent' = sent \ {t}
           /\ settled' = settled \cup {Id(t.call, "deployer")}
           /\ run' = IF IsAt(o, "waiting") /\ run[o].ticket = t.nonce
                     THEN [run EXCEPT ![o] = IF lands THEN Advanced(@) ELSE Ended(@, "stopped")]
                     ELSE run
           /\ UNCHANGED <<pending, met, posted>>
  <2> HIDE DEF Allowed, Land, Advanced, Ended, IsAt, Orderly
  <2> QED BY DEF Mine
<1> DEFINE o == t.call.by
           r == run[o]
           lands == Allowed(chain, "deployer", t.call)
<1>2. o \in Operators /\ CallOK(t.call, chain.landed) BY DEF Sound, SentOK, CallOK
<1>3. Follows(chain, chain') BY <1>1, MinedIs
<1>4. On BY MineOrderly
<1>5. ASSUME r.script = MultiSetPyth
      PROVE  lands /\ FeedLanded(o, MultiSetPyth[t.call.no].to)'
  <2>1. SentWell(t) BY DEF Fed, SentByBurst
  <2>2. /\ t.call.no \in 1 .. 5 /\ t.call.step = MultiSetPyth[t.call.no]
        /\ t.call.step.fn = "setPyth" => chain.home = "deployer"
    BY <1>5, <2>1, MultiSetPythIs DEF SentWell
  <2>3. t.call.step.fn = "setPyth" /\ t.call.step.takes = "none" BY <2>2, MultiSetPythIs
  <2>4. lands /\ t.call.inner = <<>> BY <1>2, <2>2, <2>3, FeedSetter
  <2> DEFINE e == Entry(chain, "deployer", t.call, chain.time)
  <2>5. chain'.landed = Append(chain.landed, e) BY <1>1, <2>4, MinedIs
  <2>6. e.by = o /\ e.step = t.call.step BY DEF Entry
  <2>7. IsSeq(chain.landed) BY DEF Sound, ChainOK
  <2> HIDE DEF e, lands
  <2>8. /\ Len(chain.landed) + 1 \in DOMAIN chain'.landed
        /\ chain'.landed[Len(chain.landed) + 1] = e
    BY <2>5, <2>7, AppendIs DEF IsSeq
  <2> QED BY <2>2, <2>4, <2>6, <2>8 DEF FeedLanded
<1>6. \A id \in settled' :
        id \in settled \/ id.from # "deployer" \/ run[id.by].script # MultiSetPyth
          \/ FeedLanded(id.by, MultiSetPyth[id.no].to)'
  <2> SUFFICES ASSUME NEW id, id = Id(t.call, "deployer"),
                      run[id.by].script = MultiSetPyth
               PROVE  FeedLanded(id.by, MultiSetPyth[id.no].to)'
    BY <1>1
  <2>1. id.by = o /\ id.no = t.call.no BY IdIs
  <2> QED BY <1>5, <2>1
<1>7. ASSUME NEW p \in Operators, run'[p] # run[p], run[p].script = MultiSetPyth
      PROVE  /\ PostedSoFar(p)'
             /\ run'[p].phase = "done" /\ Undisturbed(p) => \A f \in Feeds : FeedLanded(p, f)'
  <2>1. run = [q \in Operators |-> run[q]] BY DEF Sound, RunsOK
  <2>2. /\ p = o /\ r.phase = "waiting" /\ r.ticket = t.nonce
        /\ run'[p] = IF lands THEN Advanced(r) ELSE Ended(r, "stopped")
    <3> HIDE DEF lands, Advanced, Ended
    <3> QED BY <1>1, <1>7, <2>1 DEF lands, IsAt
  <2>3. run'[p] = Advanced(r)
    <3> HIDE DEF lands, Advanced, Ended
    <3> QED BY <1>5, <1>7, <2>2
  <2>4. RunOK(r, chain) /\ Active(r) BY <1>2, <2>2, Typed DEF Active
  <2>5. /\ Bursting(r.script) /\ r.next = Len(r.script) /\ ~r.failed
        /\ \A u \in sent : u.call.by = o => u.nonce <= r.ticket
    BY <1>2, <1>7, <2>2, <2>4, MultiSetPythIs DEF Orderly, BurstAbove
  <2>6. r.next = 5 /\ Len(r.script) = 5 BY <1>7, <2>2, <2>5, MultiSetPythIs
  <2>7. ~(r.next < Len(r.script)) BY <2>6
  <2>8. ~Active(Advanced(r))
    <3> HIDE DEF Advanced
    <3> QED BY <2>4, <2>7, AdvancedIs
  <2>9. PostedSoFar(p)' BY <2>3, <2>8 DEF PostedSoFar
  <2>10. ASSUME Undisturbed(o), NEW f \in Feeds PROVE FeedLanded(o, f)'
    <3>1. PICK n \in 1 .. 5 : MultiSetPyth[n].to = f BY MultiSetPythIs
    <3> DEFINE id == [by |-> o, no |-> n, from |-> "deployer"]
    <3>2. \E i \in DOMAIN posted : posted[i] = id
      <4>1. n < r.next \/ (n = r.next /\ r.phase = "waiting") BY <2>2, <2>6
      <4>2. n \in 1 .. Len(MultiSetPyth) BY MultiSetPythIs
      <4>3. PostedSoFar(o) BY <1>2 DEF Fed, AllPosted
      <4> QED BY <1>7, <2>2, <2>4, <2>5, <4>1, <4>2, <4>3 DEF PostedSoFar
    <3>3. id \in Waiting \cup settled BY <2>10, <3>2 DEF Orderly, NoneLost
    <3>4. CASE id \in Waiting
      <4>1. PICK u \in sent : id = Id(u.call, "deployer")
        <5>1. id.from = "deployer" /\ "deployer" \notin Safes BY DEF Safes
        <5> HIDE DEF id
        <5> QED BY <3>4, <5>1, WaitingIs DEF Orderly
      <4>2. u.call.by = o /\ u.call.no = n BY <4>1, IdIs
      <4>3. u.nonce = t.nonce
        <5>1. u.nonce <= t.nonce /\ u.nonce >= t.nonce
          BY <1>1, <2>2, <2>5, <4>2 DEF Orderly, SentNonces
        <5>2. u.nonce \in Nat /\ t.nonce \in Nat BY DEF Sound, SentOK
        <5> QED BY <5>1, <5>2
      <4>4. u = t BY <4>3 DEF Orderly, SentNonces
      <4> QED BY <1>5, <1>7, <2>2, <3>1, <4>2, <4>4
    <3>5. CASE id \in settled
      <4>1. id.from = "deployer" /\ id.by = o /\ id.no = n OBVIOUS
      <4>2. FeedLanded(o, f)
        <5> HIDE DEF id
        <5> QED BY <1>7, <2>2, <3>1, <3>5, <4>1 DEF Fed, SettledLanded
      <4>3. IsSeq(chain.landed) /\ Extends(chain.landed, chain'.landed)
        BY <1>3 DEF Sound, ChainOK, Follows
      <4> QED BY <4>2, <4>3 DEF FeedLanded, Extends, IsSeq
    <3> QED BY <3>3, <3>4, <3>5
  <2> QED BY <2>2, <2>9, <2>10
<1>8. /\ \A i \in DOMAIN posted : i \in DOMAIN posted' /\ posted'[i] = posted[i]
      /\ \A u \in sent' : u \in sent
  BY <1>1
<1> QED BY <1>3, <1>4, <1>6, <1>7, <1>8, FedKept

(* The other steps of a script, those nobody takes, and a script's start.          *)
LEMMA QuietFed ==
  ASSUME Sound, Sound', Orderly, Orderly', Fed, NEW o \in Operators, OneOn(o),
         Active(run[o]), At(o).via # "burst",
         UNCHANGED <<chain, sent, pending, met, posted, settled>>
  PROVE  Fed'
<1>1. Follows(chain, chain') BY FollowsItself, Typed
<1> QED BY <1>1, OthersFed

LEMMA LearnsFed ==
  ASSUME Sound, Sound', Orderly, Orderly', Fed, NEW o \in Operators,
         Skip(o) \/ authExec(o) \/ upgrade(o) \/ throughTimelock(o)
  PROVE  Fed'
<1>1. OneOn(o)
  BY SkipOrderly, authExecOrderly, upgradeOrderly, throughTimelockOrderly
<1>2. /\ run[o].phase = "ready" /\ UNCHANGED <<chain, sent, pending, met, posted, settled>>
      /\ \/ Needless(o) \/ At(o).via \in {"auth", "checked", "upgrade", "admin"}
         \/ run[o].route = "timelock"
  <2>1. CASE Skip(o) BY <2>1 DEF Skip, IsAt
  <2>2. CASE authExec(o) BY <2>2 DEF authExec, IsAt
  <2>3. CASE upgrade(o) BY <2>3 DEF upgrade, IsAt
  <2>4. CASE throughTimelock(o) BY <2>4 DEF throughTimelock, IsAt
  <2> QED BY <2>1, <2>2, <2>3, <2>4
<1>3. Active(run[o]) BY <1>2 DEF Active
<1>4. At(o).via # "burst" BY <1>2, <1>3, BurstingIs
<1> QED BY <1>1, <1>2, <1>3, <1>4, QuietFed

LEMMA StopFed ==
  ASSUME Sound, Sound', Orderly, Orderly', Fed, NEW o \in Operators, Stop(o)
  PROVE  Fed'
<1>1. OneOn(o) BY StopOrderly
<1> DEFINE e == Ended(run[o], "stopped")
<1>2. run = [p \in Operators |-> run[p]] /\ GoodScript(run[o].script) BY Typed
<1>3. run'[o] = e /\ UNCHANGED <<chain, sent, pending, met, posted, settled>>
  BY <1>2 DEF Stop
<1>4. e.phase = "stopped" /\ ~Active(e) BY <1>2, EndedIs
<1> HIDE DEF e
<1>5. PostedSoFar(o)' /\ run'[o].phase # "done" BY <1>3, <1>4 DEF PostedSoFar
<1>6. Follows(chain, chain') BY <1>3, FollowsItself, Typed
<1> QED BY <1>1, <1>3, <1>5, <1>6, FedKept DEF OneOn

LEMMA ProposingFed ==
  ASSUME Sound, Sound', Orderly, Orderly', Fed, NEW o \in Operators,
         proposeTransaction(o) \/ postTransaction(o)
  PROVE  Fed'
<1>1. OneOn(o) BY proposeTransactionOrderly, postTransactionOrderly
<1>2. /\ Active(run[o]) /\ UNCHANGED <<chain, sent, met, settled>>
      /\ \/ Proposes(o) \/ run[o].phase = "numbered"
      /\ posted' = posted \/ posted' = Append(posted, Id(Call(o), At(o).safe))
  <2> HIDE DEF Call, Id, Proposes, Advanced, Ended
  <2>1. CASE proposeTransaction(o) BY <2>1 DEF proposeTransaction, IsAt, Active
  <2>2. CASE postTransaction(o) BY <2>2 DEF postTransaction, IsAt, Active
  <2> QED BY <2>1, <2>2
<1>3. At(o).via # "burst" BY <1>2, BurstingIs DEF Proposes
<1>4. Follows(chain, chain') BY <1>2, FollowsItself, Typed
<1> QED BY <1>1, <1>2, <1>3, <1>4, OthersFed

LEMMA executePendingTransactionsFed ==
  ASSUME Sound, Sound', Orderly, Orderly', Fed, NEW o \in Operators,
         executePendingTransactions(o)
  PROVE  Fed'
<1>1. OneOn(o) BY executePendingTransactionsOrderly
<1>2. Active(run[o]) /\ UNCHANGED <<sent, met, posted>> /\ At(o).via # "burst"
  BY DEF executePendingTransactions, IsAt, Active
<1>3. \/ UNCHANGED <<chain, settled>>
      \/ \E p \in pending : execTransaction(p)
  <2> HIDE DEF Advanced, Ended, execTransaction
  <2> QED BY DEF executePendingTransactions
<1>4. Follows(chain, chain') /\ \A x \in settled' : x \in settled \/ x.from \in Safes
  <2>1. CASE UNCHANGED <<chain, settled>> BY <2>1, FollowsItself, Typed
  <2>2. CASE \E p \in pending : execTransaction(p)
    <3>1. PICK p \in pending : execTransaction(p) BY <2>2
    <3>2. settled' = settled \cup {Id(p.call, p.safe)} /\ p.safe \in Safes
      BY <3>1 DEF execTransaction, Sound, PendingOK
    <3>3. Follows(chain, chain') BY <3>1, ExecutedIs
    <3> QED BY <3>2, <3>3, IdIs
  <2> QED BY <1>3, <2>1, <2>2
<1> QED BY <1>1, <1>2, <1>4, OthersFed

LEMMA SignersFed ==
  ASSUME Sound, Sound', Orderly, Orderly', Fed, signersExecute \/ signersReject
  PROVE  Fed'
<1>1. UNCHANGED <<run, met, sent, posted>> BY DEF signersExecute, signersReject
<1>2. CASE signersExecute
  <2>1. PICK p \in pending : execTransaction(p) BY <1>2 DEF signersExecute
  <2>2. settled' = settled \cup {Id(p.call, p.safe)} /\ p.safe \in Safes
    BY <2>1 DEF execTransaction, Sound, PendingOK
  <2>3. Follows(chain, chain') BY <2>1, ExecutedIs
  <2> QED BY <1>1, <2>2, <2>3, IdIs, NobodysFed
<1>3. CASE signersReject
  <2>1. PICK p \in pending :
          /\ chain' = [chain EXCEPT !.safeNonces[p.safe] = @ + 1]
          /\ settled' = settled \cup {Id(q.call, q.safe) : q \in SameNonce(p)}
    BY <1>3 DEF signersReject
  <2>2. ChainOK(chain) /\ \A q \in pending : q.safe \in Safes BY DEF Sound, PendingOK
  <2>3. Follows(chain, chain') BY <2>1, <2>2, NoncesKeep
  <2>4. \A q \in SameNonce(p) : q.safe \in Safes BY <2>2 DEF SameNonce
  <2>5. \A x \in settled' : x \in settled \/ x.from \in Safes BY <2>1, <2>4, IdIs
  <2> QED BY <1>1, <2>3, <2>5, NobodysFed
<1> QED BY <1>2, <1>3

LEMMA ClockFed ==
  ASSUME Sound, Sound', Orderly, Orderly', Fed, cancelTransaction \/ Tick PROVE Fed'
<1>1. UNCHANGED <<sent, pending, run, met, posted, settled>> BY DEF cancelTransaction, Tick
<1>2. ChainOK(chain) BY DEF Sound
<1>3. Follows(chain, chain')
  <2>1. CASE cancelTransaction
    <3>1. PICK q \in chain.queued : chain' = [chain EXCEPT !.queued = @ \ {q}]
      BY <2>1 DEF cancelTransaction
    <3> QED BY <1>2, <3>1, UnqueueKeeps
  <2>2. CASE Tick BY <1>2, <2>2, NoncesKeep DEF Tick
  <2> QED BY <2>1, <2>2
<1> QED BY <1>1, <1>3, NobodysFed

LEMMA StartFed ==
  ASSUME Sound, Sound', Orderly, Orderly', Fed, NEW o \in Operators,
         NEW k \in run[o].menu, Start(o, k)
  PROVE  Fed'
<1>1. /\ run'[o].phase = IF k = <<>> THEN "done" ELSE "ready"
      /\ run'[o].script = k /\ (k # <<>> => run'[o].next = 1)
      /\ \A p \in Operators \ {o} : run'[p] = run[p]
      /\ UNCHANGED <<chain, sent, pending, posted, settled>>
      /\ \A p : Undisturbed(p)' => Undisturbed(p)
      /\ \A id : Passed(id) => id.by # o
      /\ \A t \in sent : t.call.by # o
  BY StartIs DEF Orderly
<1>2. \A t \in sent : t.call.by \in Operators BY DEF Sound, SentOK, CallOK
<1>3. \A id \in settled : id.by \in Operators /\ id.by # o
  BY <1>1 DEF Orderly, IdsPassed, Passed
<1>4. SentByBurst' BY <1>1, <1>2 DEF Fed, SentByBurst, SentWell
<1>5. SettledLanded' BY <1>1, <1>3 DEF Fed, SettledLanded, FeedLanded
<1>6. AllPosted'
  <2> SUFFICES ASSUME NEW p \in Operators PROVE PostedSoFar(p)' BY DEF AllPosted
  <2>1. CASE p # o BY <1>1, <2>1 DEF Fed, AllPosted, PostedSoFar
  <2>2. CASE p = o /\ k = <<>> BY <1>1, <2>2 DEF PostedSoFar, Active
  <2>3. CASE p = o /\ k # <<>>
    <3>1. run'[o].phase # "waiting" /\ run'[o].next = 1 BY <1>1, <2>3
    <3> QED BY <2>3, <3>1, MultiSetPythIs DEF PostedSoFar
  <2> QED BY <2>1, <2>2, <2>3
<1>7. OneFeed'
  <2> SUFFICES ASSUME NEW p \in Operators, run'[p].phase = "done",
                      run'[p].script = MultiSetPyth, Undisturbed(p)', NEW f \in Feeds
               PROVE  FeedLanded(p, f)'
    BY DEF OneFeed, FeedLanded
  <2>1. p # o
    <3>1. Len(MultiSetPyth) # Len(<<>>) BY MultiSetPythIs
    <3> QED BY <1>1, <3>1
  <2>2. FeedLanded(p, f) BY <1>1, <2>1 DEF Fed, OneFeed, FeedLanded
  <2> QED BY <1>1, <2>2 DEF FeedLanded
<1> QED BY <1>4, <1>5, <1>6, <1>7 DEF Fed

LEMMA StepFed ==
  ASSUME Sound, Sound', Orderly, Orderly', Fed, [Next]_vars PROVE Fed'
<1>1. CASE UNCHANGED vars
  <2>1. UNCHANGED <<chain, sent, pending, run, met, posted, settled>> BY <1>1 DEF vars
  <2>2. Follows(chain, chain') BY <2>1, FollowsItself DEF Sound
  <2> QED BY <2>1, <2>2, NobodysFed
<1>2. ASSUME NEW o \in Operators, OfScript(o) PROVE Fed'
  <2>1. CASE \E s \in run[o].menu : Start(o, s) BY <2>1, StartFed
  <2>2. CASE Stop(o) BY <2>2, StopFed
  <2>3. CASE Skip(o) \/ authExec(o) \/ upgrade(o) \/ throughTimelock(o) BY <2>3, LearnsFed
  <2>4. CASE sendTransaction(o) \/ sendAtNonce(o)
    BY <2>4, sendTransactionFed, sendAtNonceFed
  <2>5. CASE proposeTransaction(o) \/ postTransaction(o) BY <2>5, ProposingFed
  <2>6. CASE executePendingTransactions(o) BY <2>6, executePendingTransactionsFed
  <2> QED BY <1>2, <2>1, <2>2, <2>3, <2>4, <2>5, <2>6 DEF OfScript
<1>3. CASE Mine \/ signersExecute \/ signersReject BY <1>3, MineFed, SignersFed
<1>4. CASE cancelTransaction \/ Tick BY <1>4, ClockFed
<1> QED BY <1>1, <1>2, <1>3, <1>4 DEF Next, OfScript

-----------------------------------------------------------------------------------
(* Nothing was sent or read yet.                                                   *)
LEMMA AtFirst ==
  ASSUME Init PROVE OperationsInv
<1> USE DEF Init
<1>1. PICK shift \in Shifts, n \in FirstNonces :
        /\ chain =
            [home |-> shift.home, proxyAdminOwner |-> shift.proxyAdminOwner,
             timelockAdmin |-> shift.timelockAdmin, moved |-> {}, grants |-> KeeperRoles,
             settings |-> [f \in Settings |-> "none"],
             made |-> shift.made, durations |-> shift.durations,
             balances |-> {"devFees.weth", "hlpLiquidity"},
             queued |-> {}, time |-> 0, landed |-> <<>>,
             nonce |-> 0, safeNonces |-> [s \in Safes |-> n]]
        /\ run = [o \in Operators |-> [Idle EXCEPT !.menu = shift.menu[o]]]
  OBVIOUS
<1>2. sent = {} /\ pending = {} /\ met = {} /\ posted = <<>> /\ settled = {} OBVIOUS
<1>3. ChainOK(chain)
  <2>1. /\ DOMAIN chain = ChainFields /\ chain.timelockAdmin = shift.timelockAdmin
        /\ chain.moved = {} /\ chain.grants = KeeperRoles
        /\ chain.settings = [f \in Settings |-> "none"]
        /\ chain.queued = {} /\ chain.time = 0 /\ chain.landed = <<>> /\ chain.nonce = 0
        /\ chain.safeNonces = [s \in Safes |-> n]
    BY <1>1 DEF ChainFields
  <2>2. \A g \in KeeperRoles : g[2] # "none" BY DEF KeeperRoles
  <2>3. n \in Nat /\ shift.timelockAdmin \in {"deployer", "safe"}
    BY FirstNoncesAssumption, ShiftsAssumption
  <2>4. IsSeq(<<>>) /\ Len(<<>>) = 0 BY DEF IsSeq
  <2>5. Explained(chain.settings, chain.landed, 0) BY DEF Explained
  <2>6. DOMAIN chain.settings = Settings BY <2>1
  <2>7. chain.safeNonces \in [Safes -> Nat] BY <2>1, <2>3
  <2> QED BY <2>1, <2>2, <2>3, <2>4, <2>5, <2>6, <2>7 DEF ChainOK
<1>4. ASSUME NEW o \in Operators
      PROVE  /\ RunOK(run[o], chain) /\ run[o].phase = "new" /\ run[o].script = <<>>
             /\ ~Active(run[o])
  <2> DEFINE r == [Idle EXCEPT !.menu = shift.menu[o]]
  <2>1. run[o] = r BY <1>1
  <2>2. shift.menu[o] \subseteq Scripts \cup {ByHand} BY ShiftsAssumption
  <2>3. /\ DOMAIN r = RunFields /\ r.phase = "new" /\ r.menu = shift.menu[o]
        /\ r.script = <<>> /\ r.ticket = 0 /\ r.nonce = 0 /\ r.eta = 0 /\ r.failed \in BOOLEAN
    BY DEF Idle, RunFields
  <2>4. GoodScript(<<>>) BY DEF GoodScript, Bursting
  <2> HIDE DEF r
  <2>5. ~Active(r) BY <2>3 DEF Active
  <2>6. r.menu \subseteq Scripts \cup {ByHand} BY <2>2, <2>3
  <2>7. RunOK(r, chain) BY <2>3, <2>4, <2>5, <2>6 DEF RunOK
  <2> QED BY <2>1, <2>3, <2>5, <2>7
<1>5. run = [o \in Operators |-> run[o]] BY <1>1
<1>6. Sound BY <1>2, <1>3, <1>4, <1>5 DEF Sound, RunsOK
<1> HIDE DEF Init
<1>7. Busy = {} /\ Waiting = {} BY <1>2, <1>4 DEF Busy, Waiting
<1>8. IsSeq(posted) /\ DOMAIN posted = {} BY <1>2 DEF IsSeq
<1>9. IdsPassed /\ IdsUnique /\ OverlapsMet BY <1>2, <1>7, <1>8 DEF IdsPassed,
    IdsUnique, OverlapsMet
<1>10. SentNonces /\ PendingNonces BY <1>2, FS_EmptySet DEF SentNonces, PendingNonces
<1>11. NumberedAbove /\ BurstAbove /\ NoGap
  BY <1>2, <1>4 DEF NumberedAbove, BurstAbove, NoGap
<1>12. WaitInOrder /\ NoneLost /\ TakeEffectInOrder
  BY <1>2, <1>7, <1>8 DEF WaitInOrder, NoneLost, TakeEffectInOrder
<1>13. SentByBurst /\ SettledLanded BY <1>2 DEF SentByBurst, SettledLanded
<1>14. AllPosted /\ OneFeed BY <1>4 DEF AllPosted, PostedSoFar, OneFeed
<1> QED BY <1>6, <1>9, <1>10, <1>11, <1>12, <1>13, <1>14 DEF OperationsInv, Orderly, Fed

-----------------------------------------------------------------------------------
(* The theorems.  Whatever the scripts run and however their reads, sends and      *)
(* proposals interleave with the mining and the signers, the invariant holds.      *)
THEOREM OperationsInvariance == Spec => []OperationsInv
<1>1. Init => OperationsInv BY AtFirst
<1>2. OperationsInv /\ [Next]_vars => OperationsInv'
  <2> SUFFICES ASSUME OperationsInv, [Next]_vars PROVE OperationsInv' OBVIOUS
  <2>1. Sound /\ Orderly /\ Fed BY DEF OperationsInv
  <2>2. IsFiniteSet(sent) /\ IsFiniteSet(pending)
    BY <2>1 DEF Orderly, SentNonces, PendingNonces
  <2>3. Sound' BY <2>1, <2>2, StepSound
  <2>4. Orderly' BY <2>1, <2>3, StepOrderly
  <2>5. Fed' BY <2>1, <2>3, <2>4, StepFed
  <2> QED BY <2>3, <2>4, <2>5 DEF OperationsInv
<1> QED BY <1>1, <1>2, PTL DEF Spec

(* What a run proposed or sent waits until it is mined, executed or rejected       *)
(* (OwnerWrapper, SafeWrapper and the scripts that count nonces themselves),       *)
(* unless runs overlapped and so read the same next nonce.                         *)
THEOREM CallsNotLost == Spec => []NoneLost
<1>1. OperationsInv => NoneLost BY DEF OperationsInv, Orderly
<1> QED BY <1>1, OperationsInvariance, PTL

(* Calls made one after the other through one account, the deployer's or a Safe's, *)
(* take effect in that order, those of different runs too.                         *)
THEOREM InOrder == Spec => []TakeEffectInOrder
<1>1. OperationsInv => TakeEffectInOrder BY DEF OperationsInv, Orderly
<1> QED BY <1>1, OperationsInvariance, PTL

(* A market field that a script set keeps its value until a script sets it again,  *)
(* or set-market-config writes back what it had read before the field was set.     *)
THEOREM SettingsExplained == Spec => []SettingsKept
<1>1. OperationsInv => SettingsKept
  <2> SUFFICES ASSUME OperationsInv PROVE SettingsKept OBVIOUS
  <2>1. /\ Explained(chain.settings, chain.landed, Len(chain.landed))
        /\ DOMAIN chain.landed = 1 .. Len(chain.landed)
    BY DEF OperationsInv, Sound, ChainOK, IsSeq
  <2> QED BY <2>1 DEF SettingsKept, Explained
<1> QED BY <1>1, OperationsInvariance, PTL

(* multi-set-pyth finishes only when all five contracts have the new price feed,   *)
(* although it waits for the last transaction alone.                               *)
THEOREM FeedsTogether == Spec => []OneFeed
<1>1. OperationsInv => OneFeed BY DEF OperationsInv, Fed
<1> QED BY <1>1, OperationsInvariance, PTL

(* An upgrade script gives a proxy the kind of contract the deployment scripts put *)
(* behind that key of the config file.                                             *)
THEOREM UpgradesOwn == Spec => []OwnImplementation
<1>1. OperationsInv => OwnImplementation
  <2> SUFFICES ASSUME OperationsInv, NEW i \in Upgrades
               PROVE  LET step == chain.landed[i].step
                      IN  \E s \in Deployed!DeployScripts :
                            s.key = step.proxy /\ s.contract.name = step.code
    BY DEF OwnImplementation
  <2>1. i \in 1 .. Len(chain.landed) /\ chain.landed[i].step.fn = "upgrade"
    BY DEF OperationsInv, Sound, ChainOK, IsSeq, Upgrades
  <2>2. GoodStep(chain.landed[i].step)
    BY <2>1 DEF OperationsInv, Sound, ChainOK, LandedOK
  <2> QED BY <2>1, <2>2 DEF GoodStep
<1> QED BY <1>1, OperationsInvariance, PTL

(* An upgrade that the Timelock makes was on chain for the whole delay before.     *)
THEOREM UpgradesAnnounced == Spec => []Announced
<1>1. OperationsInv => Announced
  <2> SUFFICES ASSUME OperationsInv, NEW i \in Upgrades,
                      chain.landed[i].sender = "timelock"
               PROVE  chain.landed[i].at >= chain.landed[i].since + Delay
    BY DEF Announced
  <2>1. i \in 1 .. Len(chain.landed)
    BY DEF OperationsInv, Sound, ChainOK, IsSeq, Upgrades
  <2> QED BY <2>1 DEF OperationsInv, Sound, ChainOK, LandedOK
<1> QED BY <1>1, OperationsInvariance, PTL

(* A proposal whose way the wrappers chose by the owner they read is one the Safe  *)
(* can execute when its turn comes, unless the contract's own state refuses it.    *)
THEOREM ProposalsExecutable == Spec => []RoutedExecutable
<1>1. OperationsInv => RoutedExecutable
  <2> SUFFICES ASSUME OperationsInv, NEW p \in pending, AtHead(p),
                      p.call.step.via \in {"auth", "checked", "upgrade"},
                      OwnersAlone(p.call.step), ~Refuses(chain, p.call)
               PROVE  Executable(p)
    BY DEF RoutedExecutable
  <2> DEFINE step == p.call.step
  <2>1. /\ p.call.inner = <<>> /\ p.safe = "safe" /\ OwnerOf(chain, step.to) = "safe"
        /\ CallOK(p.call, chain.landed)
    BY DEF OperationsInv, Sound, PendingOK
  <2>2. step.fn # "none" BY <2>1 DEF CallOK, PlainCall, GoodStep
  <2>3. MayCall(chain, "safe", step) BY <2>1 DEF MayCall, OwnersAlone
  <2>4. NeedsAlso("safe", step) = {} BY DEF NeedsAlso, OwnersAlone, Opener, Spending
  <2>5. Succeeds(chain, "safe", p.call) BY <2>3, <2>4 DEF Succeeds, OwnersAlone
  <2> QED BY <2>1, <2>5 DEF Executable, Allowed, Plain
<1> QED BY <1>1, OperationsInvariance, PTL

(* Until the margin that ProxyAdminWrapper adds is over, the proposal to queue an  *)
(* upgrade can be executed.                                                        *)
THEOREM MarginSuffices == Spec => []QueueableInTime
<1>1. OperationsInv => QueueableInTime
  <2> SUFFICES ASSUME OperationsInv, NEW p \in pending, AtHead(p),
                      p.call.step.fn = "queueTransaction",
                      chain.time <= p.call.read.time + Margin
               PROVE  Executable(p)
    BY DEF QueueableInTime
  <2>1. /\ p.call.inner # <<>> /\ p.safe = chain.timelockAdmin
        /\ p.call.eta = p.call.read.time + Delay + Margin /\ CallOK(p.call, chain.landed)
        /\ p.call.read.time \in Nat /\ chain.time \in Nat
    BY DEF OperationsInv, Sound, ChainOK, PendingOK
  <2>3. AfterDelay(chain, p.call)
    <3>1. p.call.eta >= chain.time + Delay
      BY <2>1, DelayAssumption, MarginAssumption
    <3> QED BY <3>1 DEF AfterDelay
  <2> QED BY <2>1, <2>3 DEF Executable, Allowed, Plain
<1> QED BY <1>1, OperationsInvariance, PTL
===================================================================================
