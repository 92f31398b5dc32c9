----------------------------------- MODULE Steps -----------------------------------
\* The vocabulary of the operators' scripts (script/ts): a script is the sequence
\* of transactions it makes, each one a step that names the contract (its key in
\* the config file), the function, and the way the transaction is made.
EXTENDS Sequences, Naturals

\* grantee is the account the call lets in; holder and ifFull are the conditions
\* under which the script leaves the step out; takes and fills are the balance the
\* call moves and the one it moves it to; proxy and code belong to upgrades.
Step(via, to, fn) ==
  [via |-> via, to |-> to, fn |-> fn, safe |-> "safe", nonce |-> 0, waits |-> FALSE,
   grantee |-> "none", holder |-> "none", takes |-> "none", fills |-> "none",
   ifFull |-> FALSE, proxy |-> "none", code |-> "none"]

\* The deployer sends it, and waits until it is mined, or only until it is sent.
Direct(to, fn) == [Step("direct", to, fn) EXCEPT !.waits = TRUE]
Sent(to, fn) == Step("direct", to, fn)
\* Several sent at once, each with the next of the account nonces read before.
Burst(to, fn) == Step("burst", to, fn)
\* SafeWrapper.proposeTransaction, at the next nonce or at the one given.
Propose(to, fn) == Step("propose", to, fn)
ProposeAt(nonce, step) == [step EXCEPT !.nonce = nonce]
\* The script compares the owner with the Safe itself; OwnerWrapper.authExec.
Checked(to, fn) == [Step("checked", to, fn) EXCEPT !.waits = TRUE]
CheckedSent(to, fn) == Step("checked", to, fn)
Auth(to, fn) == Step("auth", to, fn)
\* ProxyAdminWrapper.upgrade, the same by the upgrades plugin, and the execution
\* of an upgrade the timelock has queued.
Upgrade(proxy, code) ==
  <<[Step("upgrade", "proxyAdmin", "upgrade") EXCEPT !.proxy = proxy, !.code = code]>>
UpgradeProxy(proxy, code) ==
  <<[Direct("proxyAdmin", "upgrade") EXCEPT !.proxy = proxy, !.code = code]>>
ExecuteQueued == Step("admin", "timelock", "executeTransaction")
\* SafeWrapper.executePendingTransactions.
ExecutePending == Step("pending", "safe", "execTransaction")

For(account, step) == [step EXCEPT !.grantee = account]
UnlessHeldBy(account, step) == [step EXCEPT !.holder = account]
Moving(from, into, step) == [step EXCEPT !.takes = from, !.fills = into]
IfAny(step) == [step EXCEPT !.ifFull = TRUE]
OfTreasury(step) == [step EXCEPT !.safe = "treasury"]

\* A loop over the inputs of a script, cut at two of them.
ForEach(step) == <<step, step>>
====================================================================================
