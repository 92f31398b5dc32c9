SPECIFICATION LedgerSpec
CONSTANTS
  t1 = t1
  t2 = t2
  alice = alice
  bob = bob
  Tokens <- TwoTokens
  SubAccounts <- Traders
  HlpAssets <- TwoAssets
  CollateralTokens <- TwoAssets
  Treasury = bob
  Unit = 2
  BPS = 2
  DevFeeRateBPS = 1
  LpFeeBPS <- NoneOrAll
  Prices <- Apart
  Bills <- FewBills
  Values <- OneFee
  MaxBalance = 2
  Limits <- OneEachOrTwo
  MaxReward = 1
  MaxDebt = 1
INVARIANTS TypeOK BooksCovered DebtsAgree TokensListed
PROPERTIES OthersUntouched BrokeBeforeIndebted PaidBySeniority KeepsCustody
