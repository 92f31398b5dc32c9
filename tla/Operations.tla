-------------------------------- MODULE Operations --------------------------------
\* The operators at work: the scripts of script/ts that configure, command and
\* upgrade the contracts, with the wrappers they go through.  Some transactions the
\* deployer's account sends, at the account's next nonce; others are proposed to a
\* Safe, whose signers execute them in the order of the Safe's nonces, when they
\* like; upgrades may wait in the Timelock.  All operators share the one deployer
\* account and the one Safe; each read, send and proposal of a script is an await
\* at which another operator's script may go on.
EXTENDS Governance, ConfigScripts, CommandScripts, UpgradeScripts, FiniteSetsExt

CONSTANTS
  Operators,      \* the people, or terminals, that run scripts
  Shifts,         \* the situations the operators may find, and what they may run in them
  FirstNonces,    \* how far the Safes may be when the scripts start
  Margin,         \* the time ProxyAdminWrapper leaves to get an upgrade queued
  MaxTime         \* the clock stops here

ASSUME MarginAssumption == Margin \in Nat /\ MaxTime \in Nat

VARIABLES
  chain,          \* the state of the contracts (Governance)
  sent,           \* the deployer's transactions that are not mined yet
  pending,        \* the Safe service's transactions that are not executed yet
  run,            \* operator -> the script it runs, and what it has read
  met,            \* the pairs of operators whose runs overlapped
  posted,         \* every call sent or proposed, in the order they were
  settled         \* those that were mined or executed, or that the signers rejected

vars == <<chain, sent, pending, run, met, posted, settled>>

-----------------------------------------------------------------------------------
\* What no script does: an operator executes a queued upgrade by hand.
ByHand == <<ExecuteQueued>>
Scripts == ConfigScripts \cup CommandScripts \cup UpgradeScripts
Safes == {"safe", "treasury"}

\* The setters that a contract accepts once.
Makes ==
  {<<"handlers.liquidity", "setDlp">>, <<"handlers.liquidity", "setHlpStaking">>,
   <<"oracles.ecoPyth2", "insertAssetIds">>, <<"oracles.orderbook", "insertMarketIndexes">>}

\* A shift: who owns the contracts and the ProxyAdmin, who is the Timelock's admin,
\* which of those were called already, the minimum profit durations there are, and, by
\* operator, the scripts it may run, one at most.
ASSUME ShiftsAssumption ==
  \A s \in Shifts :
    /\ s.home \in {"deployer", "safe"} /\ s.timelockAdmin \in {"deployer", "safe"}
    /\ s.proxyAdminOwner \in {"deployer", "safe", "timelock"}
    /\ s.made \subseteq Makes /\ s.durations \in Nat
    /\ s.menu \in [Operators -> SUBSET (Scripts \cup {ByHand})]

ASSUME FirstNoncesAssumption == FirstNonces \subseteq Nat

\* The roles the deployer's account needs for what the scripts have it send itself.
KeeperRoles ==
  {<<step.to, Opener(step.fn), "deployer">> :
     step \in {t \in UNION {{s[i] : i \in DOMAIN s} : s \in Scripts} :
                 t.via = "direct" /\ Opener(t.fn) # "none"}}

Idle ==
  [phase |-> "new", menu |-> {}, script |-> <<>>, next |-> 1, route |-> "none", ticket |-> 0,
   eta |-> 0, inner |-> <<>>, read |-> [at |-> 0], nonce |-> 0, list |-> {}, failed |-> FALSE]

Init ==
  /\ \E shift \in Shifts, n \in FirstNonces :
       /\ chain =
            [home |-> shift.home, proxyAdminOwner |-> shift.proxyAdminOwner,
             timelockAdmin |-> shift.timelockAdmin, moved |-> {}, grants |-> KeeperRoles,
             settings |-> [f \in Settings |-> "none"],
             made |-> shift.made, durations |-> shift.durations,
             balances |-> {"devFees.weth", "hlpLiquidity"},
             queued |-> {}, time |-> 0, landed |-> <<>>,
             nonce |-> 0, safeNonces |-> [s \in Safes |-> n]]
       /\ run = [o \in Operators |-> [Idle EXCEPT !.menu = shift.menu[o]]]
  /\ sent = {} /\ pending = {}
  /\ met = {} /\ posted = <<>> /\ settled = {}

-----------------------------------------------------------------------------------
\* The step a script is at, and the call it makes.
At(o) == run[o].script[run[o].next]
IsAt(o, phase) == run[o].phase = phase
Call(o) ==
  [step |-> IF run[o].inner # <<>> /\ At(o).via = "upgrade"
            THEN Direct("timelock", "queueTransaction") ELSE At(o),
   by |-> o, no |-> run[o].next, read |-> run[o].read,
   eta |-> run[o].eta, inner |-> run[o].inner]
Id(call, from) == [by |-> call.by, no |-> call.no, from |-> from]

Ended(r, phase) == [Idle EXCEPT !.phase = phase, !.script = r.script]
Advanced(r) ==
  IF r.next < Len(r.script)
  THEN [r EXCEPT !.next = @ + 1, !.phase = "ready", !.route = "none", !.ticket = 0,
                 !.eta = 0, !.inner = <<>>]
  ELSE Ended(r, IF r.failed THEN "stopped" ELSE "done")

\* Those whose script is running, or has left transactions to be mined.
Busy ==
  {o \in Operators : run[o].phase \notin {"new", "done", "stopped"}}
    \cup {t.call.by : t \in sent}
Last(o) == run[o].next = Len(run[o].script)

\* A script starts, and reads what it works from: the settings and balances, the
\* account's nonce (getTransactionCount), the Safe's pending transactions.
Start(o, s) ==
  /\ IsAt(o, "new")
  /\ LET r == [Idle EXCEPT !.phase = "ready", !.script = s,
                 !.read = [at |-> Len(chain.landed), settings |-> chain.settings,
                           balances |-> chain.balances, time |-> 0],
                 !.nonce = chain.nonce, !.list = pending]
     IN run' = [run EXCEPT ![o] = IF s = <<>> THEN Ended(r, "done") ELSE r]
  /\ met' = met \cup {{o, p} : p \in Busy \ {o}}
  /\ UNCHANGED <<chain, sent, pending, posted, settled>>

\* The script finds that a step is not needed: the grant is there already, or the
\* fee it read was zero.
Holder(step) == IF step.holder = "owner" THEN chain.home ELSE step.holder
Needless(o) ==
  \/ At(o).holder # "none" /\ GrantOf(Holder(At(o)), At(o)) \in chain.grants
  \/ At(o).ifFull /\ At(o).takes \notin run[o].read.balances
Skip(o) ==
  /\ IsAt(o, "ready") /\ Needless(o)
  /\ run' = [run EXCEPT ![o] = Advanced(@)]
  /\ UNCHANGED <<chain, sent, pending, met, posted, settled>>

\* OwnerWrapper.authExec, and the scripts that compare the owner with the Safe:
\* the owner is read, and decides which way the call goes.  (First a bug to
\* test RoutedExecutable with: the owner is not looked at.)
RouteAlwaysProposes(o, owner) == "propose"
RouteOf(o, owner) ==
  IF owner = "safe" THEN "propose"
  ELSE IF owner = "deployer" \/ At(o).via = "checked" THEN "send" ELSE "throw"

authExec(o) ==
  /\ IsAt(o, "ready") /\ ~Needless(o)
  /\ At(o).via \in {"auth", "checked"} /\ run[o].route = "none"
  /\ LET route == RouteOf(o, OwnerOf(chain, At(o).to))
     IN run' = [run EXCEPT ![o] =
          IF route = "throw" THEN Ended(@, "stopped") ELSE [@ EXCEPT !.route = route]]
  /\ UNCHANGED <<chain, sent, pending, met, posted, settled>>

\* A bug to test QueueableInTime with.
UpgradeWithoutMargin(o) ==
  /\ IsAt(o, "ready") /\ At(o).via = "upgrade" /\ run[o].route = "none"
  /\ run' = [run EXCEPT ![o] =
       [@ EXCEPT !.route = "timelock", !.inner = <<Call(o)>>,
                 !.read.time = chain.time, !.eta = chain.time + Delay]]
  /\ UNCHANGED <<chain, sent, pending, met, posted, settled>>

\* ProxyAdminWrapper.upgrade: the owner of the ProxyAdmin decides.  If it is the
\* Timelock the upgrade is queued, for as soon as it may be, and the margin.
upgrade(o) ==
  /\ IsAt(o, "ready") /\ At(o).via = "upgrade" /\ run[o].route = "none"
  /\ run' = [run EXCEPT ![o] =
       CASE chain.proxyAdminOwner = "safe" -> [@ EXCEPT !.route = "propose"]
         [] chain.proxyAdminOwner = "deployer" -> [@ EXCEPT !.route = "send"]
         [] OTHER -> [@ EXCEPT !.route = "timelock", !.inner = <<Call(o)>>,
                               !.read.time = chain.time, !.eta = chain.time + Delay + Margin]]
  /\ UNCHANGED <<chain, sent, pending, met, posted, settled>>

\* TimelockWrapper: the Timelock's admin decides, for queueTransaction and, with an
\* upgrade the operator takes from the queue, for executeTransaction.
byAdmin(o, eta, inner) ==
  run' = [run EXCEPT ![o] =
    [@ EXCEPT !.route = IF chain.timelockAdmin = "safe" THEN "propose" ELSE "send",
              !.eta = eta, !.inner = inner]]
throughTimelock(o) ==
  /\ IsAt(o, "ready")
  /\ \/ run[o].route = "timelock" /\ byAdmin(o, run[o].eta, run[o].inner)
     \/ /\ At(o).via = "admin" /\ run[o].route = "none"
        /\ \E q \in chain.queued : byAdmin(o, q.eta, <<q.call>>)
  /\ UNCHANGED <<chain, sent, pending, met, posted, settled>>

-----------------------------------------------------------------------------------
\* The deployer's account.  The node estimates a transaction before it takes it, and
\* refuses one that would fail; the transactions are mined in the nonces' order.
Sends(o) == ~Needless(o) /\ (At(o).via = "direct" \/ run[o].route = "send")
NextNonce ==
  Min({n \in chain.nonce .. chain.nonce + Cardinality(sent) : \A t \in sent : t.nonce # n})
Waits(o) == At(o).waits \/ run[o].inner # <<>>

sendTransaction(o) ==
  /\ IsAt(o, "ready") /\ Sends(o)
  /\ IF Allowed(chain, "deployer", Call(o))
     THEN /\ sent' = sent \cup {[nonce |-> NextNonce, call |-> Call(o)]}
          /\ posted' = Append(posted, Id(Call(o), "deployer"))
          /\ run' = [run EXCEPT ![o] =
               IF Waits(o) THEN [@ EXCEPT !.phase = "waiting", !.ticket = NextNonce]
               ELSE Advanced(@)]
     ELSE /\ run' = [run EXCEPT ![o] = Ended(@, "stopped")]
          /\ UNCHANGED <<sent, posted>>
  /\ UNCHANGED <<chain, pending, met, settled>>

\* A bug to test OneFeed with: the script waits for the first of them.
AwaitedFirst(o) == run[o].nonce - run[o].next + 1
Awaited(o) == run[o].nonce
\* One of several sent at once, at the nonces counted up from the one read before:
\* a refused one does not keep the others back, and of two at the same nonce the
\* node keeps either.  The script waits for the last.
sendAtNonce(o) ==
  LET n == run[o].nonce
      t == [nonce |-> n, call |-> Call(o)]
      others == {u \in sent : u.nonce # n}
  IN /\ IsAt(o, "ready") /\ At(o).via = "burst"
     /\ \/ /\ Allowed(chain, "deployer", Call(o)) /\ n >= chain.nonce
           /\ sent' = others \cup {t}
           /\ posted' = Append(posted, Id(Call(o), "deployer"))
           /\ run' = [run EXCEPT ![o] =
                IF Last(o) /\ ~run[o].failed
                THEN [@ EXCEPT !.phase = "waiting", !.ticket = Awaited(o)]
                ELSE [Advanced(@) EXCEPT !.nonce = IF Last(o) THEN 0 ELSE n + 1]]
        \/ /\ ~Allowed(chain, "deployer", Call(o)) \/ n < chain.nonce \/ sent # others
           /\ run' = [run EXCEPT ![o] =
                IF Last(o) THEN Ended(@, "stopped")
                ELSE [Advanced(@) EXCEPT !.nonce = n + 1, !.failed = TRUE]]
           /\ UNCHANGED <<sent, posted>>
     /\ UNCHANGED <<chain, pending, met, settled>>

\* A transaction that fails uses its nonce; the script that waits for it throws.
Mine ==
  \E t \in sent :
    LET o == t.call.by
        lands == Allowed(chain, "deployer", t.call)
    IN /\ t.nonce = chain.nonce
       /\ chain' = [(IF lands THEN Land(chain, "deployer", t.call) ELSE chain)
                     EXCEPT !.nonce = @ + 1]
       /\ sent' = sent \ {t}
       /\ settled' = settled \cup {Id(t.call, "deployer")}
       /\ run' = IF IsAt(o, "waiting") /\ run[o].ticket = t.nonce
                 THEN [run EXCEPT ![o] = IF lands THEN Advanced(@) ELSE Ended(@, "stopped")]
                 ELSE run
       /\ UNCHANGED <<pending, met, posted>>

-----------------------------------------------------------------------------------
\* The Safe.  SafeWrapper.proposeTransaction asks the service for the next nonce
\* (unless it is given one: 0 stands for none), signs, and then posts; the service
\* refuses a nonce the Safe has passed.
Proposes(o) == ~Needless(o) /\ (At(o).via = "propose" \/ run[o].route = "propose")
\* (A bug to test NoneLost with: what is pending is left out.)
getExecutedNonce(safe) == chain.safeNonces[safe]
getNextNonce(safe) ==
  Max({chain.safeNonces[safe]} \cup {p.nonce + 1 : p \in {q \in pending : q.safe = safe}})

proposeTransaction(o) ==
  /\ IsAt(o, "ready") /\ Proposes(o)
  /\ run' = [run EXCEPT ![o].phase = "numbered",
               ![o].ticket = IF At(o).nonce # 0 THEN At(o).nonce ELSE getNextNonce(At(o).safe)]
  /\ UNCHANGED <<chain, sent, pending, met, posted, settled>>

postTransaction(o) ==
  LET safe == At(o).safe
  IN /\ IsAt(o, "numbered")
     /\ IF run[o].ticket >= chain.safeNonces[safe]
        THEN /\ pending' = pending \cup
                  {[nonce |-> run[o].ticket, safe |-> safe, call |-> Call(o)]}
             /\ posted' = Append(posted, Id(Call(o), safe))
             /\ run' = [run EXCEPT ![o] = Advanced(@)]
        ELSE /\ run' = [run EXCEPT ![o] = Ended(@, "stopped")]
             /\ UNCHANGED <<pending, posted>>
     /\ UNCHANGED <<chain, sent, met, settled>>

\* The Safe executes the transaction at its nonce, and only if its call succeeds;
\* the others of that nonce can then never be.  (With a bug to test
\* TakeEffectInOrder with.)
AtHead(p) == p.nonce = chain.safeNonces[p.safe]
ExecutableInAnyOrder(p) == Allowed(chain, p.safe, p.call)
Executable(p) == AtHead(p) /\ Allowed(chain, p.safe, p.call)
SameNonce(p) == {q \in pending : q.safe = p.safe /\ q.nonce = p.nonce}
execTransaction(p) ==
  /\ Executable(p)
  /\ chain' = [Land(chain, p.safe, p.call) EXCEPT !.safeNonces[p.safe] = @ + 1]
  /\ pending' = pending \ SameNonce(p)
  /\ settled' = settled \cup {Id(p.call, p.safe)}

signersExecute ==
  /\ \E p \in pending : execTransaction(p)
  /\ UNCHANGED <<sent, run, met, posted>>

\* The signers use up a nonce to be rid of what is proposed at it.
signersReject ==
  /\ \E p \in pending :
       /\ AtHead(p)
       /\ chain' = [chain EXCEPT !.safeNonces[p.safe] = @ + 1]
       /\ pending' = pending \ SameNonce(p)
       /\ settled' = settled \cup {Id(q.call, q.safe) : q \in SameNonce(p)}
  /\ UNCHANGED <<sent, run, met, posted>>

\* SafeWrapper.executePendingTransactions: those pending when it asked, the lowest
\* nonce first; the first that fails, or is no longer pending, ends the script.
executePendingTransactions(o) ==
  LET list == {p \in run[o].list : p.safe = "safe"}
      first == {p \in list : \A q \in list : p.nonce <= q.nonce}
  IN /\ IsAt(o, "ready") /\ At(o).via = "pending"
     /\ \/ /\ list = {}
           /\ run' = [run EXCEPT ![o] = Advanced(@)]
           /\ UNCHANGED <<chain, pending, settled>>
        \/ \E p \in first :
             /\ p \in pending /\ execTransaction(p)
             /\ run' = [run EXCEPT ![o].list = @ \ {p}]
        \/ /\ \E p \in first : p \notin pending \/ ~Executable(p)
           /\ run' = [run EXCEPT ![o] = Ended(@, "stopped")]
           /\ UNCHANGED <<chain, pending, settled>>
     /\ UNCHANGED <<sent, met, posted>>

-----------------------------------------------------------------------------------
\* The Timelock's admin calls an upgrade off; the clock, which only it looks at.
cancelTransaction ==
  /\ \E q \in chain.queued : chain' = [chain EXCEPT !.queued = @ \ {q}]
  /\ UNCHANGED <<sent, pending, run, met, posted, settled>>

Tick ==
  /\ chain.proxyAdminOwner = "timelock" /\ chain.time < MaxTime
  /\ chain' = [chain EXCEPT !.time = @ + 1]
  /\ UNCHANGED <<sent, pending, run, met, posted, settled>>

\* The script dies, or its operator answers no when it asks to go on.
Stop(o) ==
  /\ run[o].phase \notin {"new", "done", "stopped"}
  /\ run' = [run EXCEPT ![o] = Ended(@, "stopped")]
  /\ UNCHANGED <<chain, sent, pending, met, posted, settled>>

Next ==
  \/ \E o \in Operators :
       \/ \E s \in run[o].menu : Start(o, s)
       \/ Skip(o)
       \/ authExec(o)
       \/ upgrade(o)
       \/ throughTimelock(o)
       \/ sendTransaction(o)
       \/ sendAtNonce(o)
       \/ proposeTransaction(o)
       \/ postTransaction(o)
       \/ executePendingTransactions(o)
       \/ Stop(o)
  \/ Mine
  \/ signersExecute
  \/ signersReject
  \/ cancelTransaction
  \/ Tick

Spec == Init /\ [][Next]_vars

-----------------------------------------------------------------------------------
\* Runs that overlapped, and scripts with a nonce written into them, may take each
\* other's nonces.
Explicit(o) == \E i \in DOMAIN run[o].script : run[o].script[i].nonce # 0
Undisturbed(o) ==
  /\ \A p \in Operators : {o, p} \notin met
  /\ ~\E p \in Operators : Explicit(p)

Waiting == {Id(t.call, "deployer") : t \in sent} \cup {Id(p.call, p.safe) : p \in pending}

\* What a run proposed or sent is never lost: it waits until it is mined, executed,
\* or rejected by the signers, however many other runs come after, unless two runs
\* overlapped and so read the same next nonce (OwnerWrapper, SafeWrapper, and the
\* scripts that count nonces themselves).  Once settled, it waits no longer.
NoneLost ==
  /\ Waiting \cap settled = {}
  /\ \A i \in DOMAIN posted :
       posted[i] \in Waiting \cup settled \/ ~Undisturbed(posted[i].by)

\* Calls made one after the other through one account take effect in that order,
\* those of different runs too: a script may rely on its earlier steps, and an
\* operator on the scripts run before.
TakeEffectInOrder ==
  \A j \in DOMAIN posted : \A i \in 1 .. j - 1 :
    posted[i].from = posted[j].from /\ posted[j] \in settled =>
      \/ posted[i] \in settled
      \/ ~Undisturbed(posted[i].by) \/ ~Undisturbed(posted[j].by)

\* A market field that a script set keeps that value until a script sets it again;
\* set-market-config, which rewrites a market's whole configuration from what it read,
\* undoes only what landed after it had read, while the Safe's signers waited; and
\* never the maker and taker fees, which are not part of it.
SettingsKept ==
  \A i \in DOMAIN chain.landed : \A f \in Sets(chain.landed[i].step) :
    \/ chain.settings[f] = chain.landed[i].by
    \/ \E j \in i + 1 .. Len(chain.landed) :
         LET later == chain.landed[j]
         IN f \in Sets(later.step) \/ (f \in Rewrites(later.step) /\ later.read < i)

\* No contract is left on the old price feed: multi-set-pyth finishes only when all
\* five setPyth transactions have landed, although it waits for the last one alone.
OneFeed ==
  \A o \in Operators :
    run[o].phase = "done" /\ run[o].script = MultiSetPyth /\ Undisturbed(o) =>
      \A f \in Feeds :
        \E i \in DOMAIN chain.landed : chain.landed[i].by = o /\ chain.landed[i].step.to = f

\* A proposal whose way the wrappers chose by the owner they read is one the Safe
\* can execute when its turn comes: a proposal that cannot be executed blocks the
\* Safe's queue until its signers reject it.  Only what its contract refuses by its
\* own state (Refuses) is not: the wrappers do not ask whether it would be.  (And
\* functions open to some other account, or that move a balance or need an allowance,
\* may fail.)
OwnersAlone(step) ==
  Opener(step.fn) = "none" /\ step.fn \notin Spending /\ step.takes = "none"
RoutedExecutable ==
  \A p \in pending :
    AtHead(p) /\ p.call.step.via \in {"auth", "checked", "upgrade"}
      /\ OwnersAlone(p.call.step) /\ ~Refuses(chain, p.call) => Executable(p)

\* The implementation a proxy gets is the kind of contract the deployment scripts
\* put behind that key of the config file: no upgrade script names another's key.
Deployed == INSTANCE DeployScripts
Upgrades == {i \in DOMAIN chain.landed : chain.landed[i].step.fn = "upgrade"}
OwnImplementation ==
  \A i \in Upgrades :
    LET step == chain.landed[i].step
    IN \E s \in Deployed!DeployScripts : s.key = step.proxy /\ s.contract.name = step.code

\* An upgrade through the Timelock is on chain for everybody to see for the whole
\* delay before it takes effect, however late the Safe's signers executed what the
\* script proposed, and whichever time the script had computed by then.
Announced ==
  \A i \in Upgrades :
    LET e == chain.landed[i] IN e.sender = "timelock" => e.at >= e.since + Delay

\* The margin that ProxyAdminWrapper adds to the time it computes is what the
\* signers have to execute the proposal in: until it is over, the proposal to queue
\* the upgrade can be executed.  (Afterwards it blocks the Safe's queue.)
QueueableInTime ==
  \A p \in pending :
    /\ AtHead(p) /\ p.call.step.fn = "queueTransaction"
    /\ chain.time <= p.call.read.time + Margin
    => Executable(p)
===================================================================================
