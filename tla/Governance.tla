-------------------------------- MODULE Governance --------------------------------
\* What the contracts allow the operators, and what a transaction does to them: who
\* owns what, who was let in, the settings whose writers must not undo each other,
\* the balances that administrative calls move, and the Timelock.  chain is the
\* state of the contracts; a call is a step of a script with the operator that
\* made it, the step's number, and what the script had read by then.
EXTENDS Steps, FiniteSets

CONSTANTS
  Delay,          \* Timelock.delay, deployed as MINIMUM_DELAY
  GracePeriod     \* Timelock.GRACE_PERIOD

ASSUME DelayAssumption == Delay \in Nat /\ GracePeriod \in Nat

\* The fields of a market's configuration (marketConfigs and the flag of its adaptive
\* fee), the maker and taker fees, which are in mappings of their own, the fee that
\* CrossMarginHandler asks for, and the contracts that hold a price feed.
MarketFields == {"maxOI", "imf", "rest"}
Feeds == {"oracles.pythAdapter", "handlers.bot", "handlers.crossMargin",
          "handlers.limitTrade", "handlers.liquidity"}
Settings == MarketFields \cup {"fee", "minExecutionOrderFee"} \cup Feeds

\* Proxies, storages and handlers have one owner, home, but for those transferred.
OwnerOf(c, to) ==
  CASE to = "proxyAdmin" -> c.proxyAdminOwner
    [] to = "timelock" -> c.timelockAdmin
    [] OTHER -> IF to \in c.moved THEN "safe" ELSE c.home

\* The setter that lets an account in to the functions that are not the owner's.
Opener(fn) ==
  CASE fn \in {"setMarketMaxOI", "setMarketIMFAndMaxProfit",
               "setMakerTakerFeeByMarketIndexes"} -> "setConfigExecutor"
    [] fn = "closeDelistedMarketPositions" -> "setPositionManagers"
    [] fn = "setMultipleMarketStatus" -> "setUpdater"
    [] fn = "updatePriceFeeds" -> "setUpdaters"
    [] fn \in {"executeOrder", "executeOrders", "setMinExecutionFee"} -> "setOrderExecutor"
    [] fn \in {"startRebalance", "completeRebalance"} -> "addWhitelistedExecutor"
    [] fn = "adjustSubsidizedExecutionFeeValue" -> "setServiceExecutors"
    [] fn \in {"addGlp", "withdrawGlp", "swap", "oneInchSwap", "createDepositOrders",
               "createWithdrawalOrders"} -> "setWhitelistExecutor"
    [] fn = "execute" -> "setWhitelistedExecutor"
    [] OTHER -> "none"
Anyones == {"approve", "transfer", "leggo", "depositCollateral", "createExtOrder", "batch",
            "createOrder", "createAddLiquidityOrder"}
OwnersToo == {"setMinExecutionFee"}

MayCall(c, sender, step) ==
  \/ step.fn \in Anyones
  \/ <<step.to, Opener(step.fn), sender>> \in c.grants
  \/ /\ Opener(step.fn) = "none" \/ step.fn \in OwnersToo
     /\ OwnerOf(c, step.to) = sender

\* The grant a call makes: it lets its grantee in to the contract it is sent to, or
\* allows the grantee, a contract, to spend what the sender holds.
GrantOf(sender, step) ==
  IF step.fn = "approve" THEN <<step.grantee, "approve", sender>>
  ELSE <<step.to, step.fn, step.grantee>>

\* What must be in place besides: allowances, and grants to the contract itself.
Spending == {"completeRebalance", "depositCollateral", "createAddLiquidityOrder",
             "injectTokenToHlpLiquidity", "leggo"}
NeedsAlso(sender, step) ==
  {<<step.to, "approve", a>> : a \in IF step.fn \in Spending THEN {sender} ELSE {}}
    \cup CASE step.fn \in {"startRebalance", "completeRebalance"} ->
                {<<"storages.vault", "setServiceExecutorBatch", step.to>>}
           [] step.to = "strategies.distributeSTIPARB" /\ step.fn = "execute" ->
                {<<"storages.vault", "setStrategyAllowance", step.to>>,
                 <<"storages.vault", "setStrategyFunctionSigAllowance", step.to>>,
                 <<"strategies.erc20Approve", "setWhitelistedExecutor", step.to>>}
           [] OTHER -> {}

\* What a contract refuses by its own state, to whoever may call it: to approve once
\* more what is approved (safeApprove), to register again an id that its mapping has,
\* to drop or to overwrite steps of the minimum profit durations that are not there,
\* and an execution fee below a minimum that was raised, as a new one is taken to be.
\* The rest that a contract checks is of the inputs, which are taken to be in range.
Once == {"setDlp", "setHlpStaking", "insertAssetIds", "insertMarketIndexes"}
Overwritten == 3        \* the steps that set-step-min-profit-duration writes to
Refuses(c, call) ==
  \/ call.step.fn \in Once /\ <<call.step.to, call.step.fn>> \in c.made
  \/ call.step.fn = "removeLastStepMinProfitDuration" /\ c.durations = 0
  \/ call.step.fn = "setStepMinProfitDuration" /\ c.durations < Overwritten
  \/ /\ call.step.fn = "createWithdrawCollateralOrderOnBehalf"
     /\ c.settings["minExecutionOrderFee"] # call.read.settings["minExecutionOrderFee"]

Succeeds(c, sender, call) ==
  /\ MayCall(c, sender, call.step)
  /\ ~Refuses(c, call)
  /\ NeedsAlso(sender, call.step) \subseteq c.grants
  /\ call.step.takes = "none" \/ call.step.takes \in c.balances \cap call.read.balances

\* The settings a call sets from the script's own inputs, and those it sets to what
\* the script had read: setMarketConfig rewrites all of a market's configuration.
Sets(step) ==
  CASE step.fn \in {"setMarketConfig", "setMarketMaxOI"} -> {"maxOI"}
    [] step.fn = "setMarketIMFAndMaxProfit" -> {"imf"}
    [] step.fn = "setMakerTakerFeeByMarketIndexes" -> {"fee"}
    [] step.fn = "setMinExecutionFee" /\ step.to = "handlers.crossMargin" ->
         {"minExecutionOrderFee"}
    [] step.fn = "setPyth" -> {step.to}
    [] OTHER -> {}
Rewrites(step) == IF step.fn = "setMarketConfig" THEN MarketFields \ Sets(step) ELSE {}

\* A bug to test SettingsKept with: the fields the script has no input for are set
\* to their defaults.
AfterWritingDefaults(settings, call) ==
  [f \in DOMAIN settings |->
    IF f \in Sets(call.step) THEN call.by
    ELSE IF f \in Rewrites(call.step) THEN "none" ELSE settings[f]]

AfterWriting(settings, call) ==
  [f \in DOMAIN settings |->
    IF f \in Sets(call.step) THEN call.by
    ELSE IF f \in Rewrites(call.step) THEN call.read.settings[f] ELSE settings[f]]

\* The allowances a call uses up: those approved for the exact amount.
UsesUp(sender, step) ==
  {<<step.to, "approve", a>> :
     a \in IF step.fn \in Spending \ {"injectTokenToHlpLiquidity", "leggo"} THEN {sender} ELSE {}}

Entry(c, sender, call, since) ==
  [by |-> call.by, no |-> call.no, step |-> call.step, sender |-> sender,
   read |-> call.read.at, since |-> since, at |-> c.time]

Apply(c, sender, call, since) ==
  [c EXCEPT
    !.grants = (@ \ UsesUp(sender, call.step)) \cup
      (IF call.step.grantee = "none" THEN {} ELSE {GrantOf(sender, call.step)}),
    !.moved = IF call.step.fn = "transferOwnership" THEN @ \cup {call.step.to} ELSE @,
    !.settings = AfterWriting(@, call),
    !.balances = (@ \ {call.step.takes}) \cup ({call.step.fills} \ {"none"}),
    !.made = IF call.step.fn \in Once THEN @ \cup {<<call.step.to, call.step.fn>>} ELSE @,
    !.durations = CASE call.step.fn = "addStepMinProfitDuration" -> @ + 1
                    [] call.step.fn = "removeLastStepMinProfitDuration" -> @ - 1
                    [] OTHER -> @,
    !.landed = Append(@, Entry(c, sender, call, since))]

-----------------------------------------------------------------------------------
\* The Timelock.  A call it queues or executes carries the upgrade it is about and
\* the time from which that may be executed; the other calls carry neither.
Plain(call) == call.inner = <<>>
Queued(c, call) == {q \in c.queued : q.call = call.inner[1] /\ q.eta = call.eta}

\* (A bug to test Announced with: only the past is refused.)
NotPast(c, call) == call.eta >= c.time
AfterDelay(c, call) == call.eta >= c.time + Delay

Allowed(c, sender, call) ==
  IF Plain(call) THEN Succeeds(c, sender, call)
  ELSE CASE call.step.fn = "queueTransaction" ->
              sender = c.timelockAdmin /\ AfterDelay(c, call)
         [] call.step.fn = "executeTransaction" ->
              /\ sender = c.timelockAdmin
              /\ Queued(c, call) # {}
              /\ call.eta <= c.time /\ c.time <= call.eta + GracePeriod
              /\ Succeeds(c, "timelock", call.inner[1])

queueTransaction(c, call) ==
  [c EXCEPT !.queued = @ \cup {[call |-> call.inner[1], eta |-> call.eta, since |-> c.time]}]

executeTransaction(c, call) ==
  LET since == (CHOOSE q \in Queued(c, call) : TRUE).since
  IN Apply([c EXCEPT !.queued = @ \ Queued(c, call)], "timelock", call.inner[1], since)

Land(c, sender, call) ==
  IF Plain(call) THEN Apply(c, sender, call, c.time)
  ELSE CASE call.step.fn = "queueTransaction" -> queueTransaction(c, call)
         [] call.step.fn = "executeTransaction" -> executeTransaction(c, call)
===================================================================================
