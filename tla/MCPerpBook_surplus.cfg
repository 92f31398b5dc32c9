SPECIFICATION Spec
CONSTANTS
  alice = alice
  bob = bob
  btc = btc
  eth = eth
  crypto = crypto
  forex = forex
  SubAccounts <- Traders
  Markets <- TwoMarkets
  AssetClasses <- TwoClasses
  assetClass <- OneEach
  SizeDeltas = {1, 2}
  MaxPositionSize <- LargerBtc
  MinimumPositionSize = 1
  MaxPosition = 2
  Configs <- BtcChanges
  FundingRates <- EthReset
  Tvl = 2
  MaxReserve = 3
  BaseBorrowingRate = 41
  MaxFundingRate = 101
  MaxSkewScale = 1
  FundingInterval = 1
  RatePrecision = 3
  MaxFunds = 2
  MaxTime = 3
PROPERTIES SurplusLeavesWhatIsOwed
