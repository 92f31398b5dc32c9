SPECIFICATION Spec
CONSTANTS
  alice = alice
  keeper = keeper
  usdc = usdc
  hlp = hlp
  weth = weth
  SubAccounts <- Providers
  OrderExecutors <- Keepers
  Assets <- AllAssets
  Weth = weth
  Requests <- SomeRequests
  None = None
  LateCalls <- Late
  MaxOrders = 2
  MaxBatch = 2
PROPERTIES NothingLeftAfterExecution
CHECK_DEADLOCK FALSE
