SPECIFICATION FairSpec
CONSTANTS
  alice = alice
  keeper = keeper
  usdc = usdc
  hlp = hlp
  weth = weth
  SubAccounts <- Providers
  OrderExecutors <- Keepers
  Assets <- AllAssets
  Weth = weth
  Requests <- SomeRequests
  None = None
  LateCalls <- LateOrNot
  MaxOrders = 2
  MaxBatch = 2
INVARIANTS TypeOK HoldsPending ListsAgree
PROPERTIES OrdersHandled
CHECK_DEADLOCK FALSE
