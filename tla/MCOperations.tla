------------------------------- MODULE MCOperations -------------------------------
EXTENDS Operations

Situation(home, proxyAdminOwner, timelockAdmin, made, durations, alice, bob) ==
  [home |-> home, proxyAdminOwner |-> proxyAdminOwner, timelockAdmin |-> timelockAdmin,
   made |-> made, durations |-> durations,
   menu |-> [o \in Operators |-> IF o = "alice" THEN alice ELSE bob]]

\* One operator runs any script of configs and commands, while another runs one of
\* those that leave something for the first to disturb.
Disturbing ==
  {ConfigStorageSetMarketConfig, MultiSetPyth, RebalanceHLPServiceSetOneInchRouter,
   ExternalRebalancerStartRebalance, SafeExecuteTxs,
   LiquidityHandlerSetDlp, ConfigStorageRemoveLastStepMinProfitDuration}
\* Where the deployer sends, what a contract takes once is made already and no duration
\* is there; where the Safe's signers execute, the runs come to that themselves.
Configuring ==
  {Situation("deployer", "deployer", "deployer", Makes, 0,
             ConfigScripts \cup CommandScripts, Disturbing),
   Situation("safe", "deployer", "deployer", {}, Overwritten,
             ConfigScripts \cup CommandScripts, Disturbing)}

\* One operator upgrades any contract; another upgrades one too, or executes what
\* is queued.
Upgrading ==
  {Situation("deployer", owner, admin, {}, 0, UpgradeScripts, {UpgradeGasService, ByHand}) :
     owner \in {"deployer", "safe", "timelock"}, admin \in {"deployer", "safe"}}

AnyShift == Configuring \cup Upgrading
===================================================================================
