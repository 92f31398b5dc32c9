SPECIFICATION FairSpec
CONSTANTS
  alice = alice
  SubAccounts <- Traders
  MaxPosition = 2
  OrderRequests <- SomeOrders
  AllOf = 9
  None = None
  MaxOrders = 2
  MaxBatch = 2
  Keys <- SomeKeys
  MaxAttempts = 1
  Limits <- SomeLimits
INVARIANTS FeesHeld ListsAgree IntentsOnce
PROPERTIES ReduceOnlyReduces LimitsKept MarketOrdersSettle
CHECK_DEADLOCK FALSE
