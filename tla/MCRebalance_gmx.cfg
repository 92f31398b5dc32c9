SPECIFICATION FairRebalanceSpec
CONSTANTS
  A = A
  B = B
  GM = GM
  lp = lp
  k1 = k1
  k2 = k2
  None = None
  Tokens <- PoolTokens
  SubAccounts <- NoTraders
  HlpAssets <- PoolAssets
  CollateralTokens <- PoolAssets
  Treasury = lp
  Unit = 1
  BPS = 2
  DevFeeRateBPS = 0
  LpFeeBPS <- NoFees
  Prices <- NoSettlement
  Bills <- NoSettlement
  Values <- NoFees
  MaxBalance = 2
  Limits <- AnyBalance
  MaxReward = 0
  MaxDebt = 0
  Keys <- OrderKeys
  Deposits <- LongOnly
  Withdrawals <- GmToBoth
  Received <- OneOrNone
  OutOfGas = FALSE
  Removable <- NoSettlement
  MaxAUMDrop = 1
  MaxSwapLoss = 0
INVARIANTS RebalanceTypeOK SettledWithGmx
PROPERTIES OrdersSettle
CHECK_DEADLOCK FALSE
