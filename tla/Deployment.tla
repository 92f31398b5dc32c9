-------------------------------- MODULE Deployment --------------------------------
\* The deployment scripts at work: what they do to the chain and to the config
\* file that every script of script/ts reads and the deployment scripts rewrite.
\* A script imports the file when it starts (utils/config.ts, getConfig), creates
\* its contract from the addresses it read, and then writes the whole file back
\* with one key changed (writeConfigFile).  Nothing locks the file: operators on
\* the same checkout may overlap, and a script may die between any two steps.
EXTENDS DeployScripts, Integers, FiniteSets

CONSTANTS
  Operators,      \* the people, or terminals, that run scripts
  MaxRuns         \* how many scripts are run in all

ASSUME MaxRunsAssumption == MaxRuns \in Nat

VARIABLES
  file,           \* key -> the address the config file names, or Unset
  created,        \* the contracts deployed since Init, with their arguments
  run,            \* operator -> the script it is running
  recorded,       \* the runs that wrote the file: key, address, when loaded and written
  started,        \* how many scripts have started
  now             \* how often the file was loaded or written

vars == <<file, created, run, recorded, started, now>>

-----------------------------------------------------------------------------------
\* An address: what lives there, and which run created it (0: it was there before).
At(kind, n) == [kind |-> kind, n |-> n]
Unset == At("none", 0)

\* The keys the scripts write, with the contract each one should name, and the
\* keys they only read.
Written == {s.key : s \in DeployScripts} \ {"none"}
KindOf(key) == (CHOOSE s \in DeployScripts : s.key = key).contract.name
OuterKeys ==
  {"tokens.weth", "tokens.wbtc", "tokens.usdcNative", "tokens.gmBTCUSD", "tokens.gmETHUSD",
   "tokens.sglp", "tokens.arb", "tokens.traderLoyaltyCredit", "staking.trading", "staking.tlc",
   "vendors.gmx.glpManager", "vendors.gmx.rewardRouterV2", "vendors.gmx.rewardTracker",
   "vendors.gmx.gmxVault", "vendors.gmxV2.reader", "vendors.gmxV2.dataStore",
   "vendors.gmxV2.exchangeRouter", "vendors.gmxV2.depositVault", "vendors.gmxV2.depositHandler",
   "vendors.gmxV2.withdrawalVault", "vendors.gmxV2.withdrawalHandler",
   "vendors.uniswap.permit2", "vendors.uniswap.universalRouter",
   "vendors.chainlink.wstEthEthPriceFeed", "vendors.chainlink.ethUsdPriceFeed",
   "accountAbstraction.entryPoint"}
Literals == {"value", "account"}

\* configs/arbitrum.mainnet.json: every key filled but these two.
EmptyKeys == {"accountAbstraction.factory", "reader.collateral"}
MainnetFile ==
  [key \in Written |-> IF key \in EmptyKeys THEN Unset ELSE At(KindOf(key), 0)]

\* What a script finds where it names an argument: an address it read from the
\* file, one of another party, or a literal of its own.  A key the file lacks
\* (Unset here as well) stops the script.
Argument(config, a) ==
  IF a \in Written THEN config[a]
  ELSE IF a \in OuterKeys \cup Literals THEN At(a, 0) ELSE Unset
Arguments(config, s) == [i \in DOMAIN s.args |-> Argument(config, s.args[i])]
Kinds(addresses) == [i \in DOMAIN addresses |-> addresses[i].kind]

Idle == [phase |-> "idle"]

Init ==
  /\ file = MainnetFile
  /\ created = {}
  /\ run = [o \in Operators |-> Idle]
  /\ recorded = {}
  /\ started = 0
  /\ now = 0

\* A script starts: it imports the file as it stands.
getConfig(o, s) ==
  /\ run[o] = Idle
  /\ started < MaxRuns
  /\ started' = started + 1
  /\ run' = [run EXCEPT ![o] = [phase |-> "loaded", script |-> s, config |-> file, since |-> now]]
  /\ now' = now + 1
  /\ UNCHANGED <<file, created, recorded>>

\* A bug to test FileNamesDeployed with: the address is taken before it is known
\* that the contract was created.
DeployUnmined(o) ==
  LET r == run[o]
      arguments == Arguments(r.config, r.script)
      address == At(r.script.contract.name, Cardinality(created) + 1)
  IN /\ r.phase = "loaded"
     /\ \A i \in DOMAIN arguments : arguments[i] # Unset
     /\ Accepts(r.script.contract, Kinds(arguments))
     /\ run' = [run EXCEPT ![o] =
          IF r.script.key = "none" THEN Idle
          ELSE [phase |-> "deployed", script |-> r.script, config |-> r.config,
                since |-> r.since, at |-> address]]
     /\ UNCHANGED <<created, file, recorded, started, now>>

\* deployProxy, deployContract or deploy: the arguments are complete and the
\* initializer accepts them.  A script that records nothing is then done.
Deploy(o) ==
  LET r == run[o]
      arguments == Arguments(r.config, r.script)
      address == At(r.script.contract.name, Cardinality(created) + 1)
  IN /\ r.phase = "loaded"
     /\ \A i \in DOMAIN arguments : arguments[i] # Unset
     /\ Accepts(r.script.contract, Kinds(arguments))
     /\ created' = created \cup
          {[at |-> address, takes |-> r.script.contract.takes, with |-> arguments]}
     /\ run' = [run EXCEPT ![o] =
          IF r.script.key = "none" THEN Idle
          ELSE [phase |-> "deployed", script |-> r.script, config |-> r.config,
                since |-> r.since, at |-> address]]
     /\ UNCHANGED <<file, recorded, started, now>>

\* A bug to test KeptUnlessOverlapped with: the checked-in file is written instead
\* of the one the script read.
writeCheckedInFile(o) ==
  LET r == run[o]
  IN /\ r.phase = "deployed"
     /\ file' = [MainnetFile EXCEPT ![r.script.key] = r.at]
     /\ recorded' = recorded \cup
          {[key |-> r.script.key, at |-> r.at, loaded |-> r.since, written |-> now]}
     /\ now' = now + 1
     /\ run' = [run EXCEPT ![o] = Idle]
     /\ UNCHANGED <<created, started>>

\* The whole file is written as this script read it, with its own key changed.
writeConfigFile(o) ==
  LET r == run[o]
  IN /\ r.phase = "deployed"
     /\ file' = [r.config EXCEPT ![r.script.key] = r.at]
     /\ recorded' = recorded \cup
          {[key |-> r.script.key, at |-> r.at, loaded |-> r.since, written |-> now]}
     /\ now' = now + 1
     /\ run' = [run EXCEPT ![o] = Idle]
     /\ UNCHANGED <<created, started>>

\* The script throws (an argument is missing, the initializer refuses) or dies:
\* main().catch only reports it, what was deployed stays deployed.
Stop(o) ==
  /\ run[o] # Idle
  /\ run' = [run EXCEPT ![o] = Idle]
  /\ UNCHANGED <<file, created, recorded, started, now>>

Next == \E o \in Operators :
          \/ \E s \in DeployScripts : getConfig(o, s)
          \/ Deploy(o)
          \/ writeConfigFile(o)
          \/ Stop(o)

Spec == Init /\ [][Next]_vars

-----------------------------------------------------------------------------------
\* Every contract is wired to contracts of the kinds its initializer declares: no
\* script passes its arguments in the wrong order, and none records its contract
\* under a key that another script reads as something else.  The initializers'
\* sanity checks catch only some of these: two services that both answer
\* configStorage() can be exchanged unnoticed.
Wired ==
  \A d \in created : \A i \in DOMAIN d.with : Fits(d.with[i].kind, d.takes[i].kind)

\* The file never names a contract that was not deployed: a script that dies
\* half way leaves a contract no key names, never a key that names none.
FileNamesDeployed ==
  \A key \in Written :
    file[key] # Unset /\ file[key].n > 0 => \E d \in created : d.at = file[key]

\* What a script recorded stays recorded, until another script records the same
\* key: unless a script that had read the file before this one wrote it writes
\* its own copy back later.  Overlapping runs lose updates, no others do.
KeptUnlessOverlapped ==
  \A r \in recorded :
    \/ file[r.key] = r.at
    \/ \E q \in recorded : q.written > r.written /\ (q.key = r.key \/ q.loaded < r.written)
===================================================================================
