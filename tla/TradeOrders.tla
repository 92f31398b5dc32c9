----------------------------- MODULE TradeOrders -----------------------------
(* The two ways to a position, together: orders left with LimitTradeHandler  *)
(* and intents sent to IntentHandler change the positions of the same        *)
(* sub-accounts, as do the position managers, in transactions of their own.  *)
(* Each handler asks a helper contract of its own for the limits.            *)
EXTENDS LimitOrders, Intents, SequencesExt

CONSTANT Limits  \* the limits the owner may set

ASSUME LimitsAssumption ==
  Limits \subseteq {limit \in LimitTypes : limit.position <= MaxPosition}

vars == <<orderVars, orderLimit, intentVars, intentLimit, position>>

Init == PositionsInit /\ LimitOrdersInit /\ IntentsInit

OrderStep ==
  /\ \/ \E a \in SubAccounts, commands \in SeqOf(Commands, MaxBatch) : Batch(a, commands)
     \/ \E calls \in SeqOf(Calls, MaxBatch) : ExecuteOrders(calls)
  /\ UNCHANGED <<orderLimit, intentVars, intentLimit>>

IntentStep ==
  /\ \E calls \in SeqOf(IntentCalls, MaxBatch) : Execute(calls)
  /\ UNCHANGED <<orderVars, orderLimit, intentLimit>>

BotStep ==
  /\ \E a \in SubAccounts : CloseByBot(a)
  /\ UNCHANGED <<orderVars, orderLimit, intentVars, intentLimit>>

OwnerStep ==
  \/ \E limit \in Limits : SetOrderLimit(limit) /\ UNCHANGED <<intentVars, intentLimit>>
  \/ \E limit \in Limits : SetIntentLimit(limit) /\ UNCHANGED <<orderVars, orderLimit>>

Next == OrderStep \/ IntentStep \/ BotStep \/ OwnerStep

Spec == Init /\ [][Next]_vars

(* Executors pick up every market order, with whatever outcome: they have    *)
(* the list of them (getMarketActiveOrders).                                 *)
Executes(p) ==
  /\ p \in activeMarketOrderPointers
  /\ \E outcome \in Outcomes : ExecuteOrders(<<[pointer |-> p, outcome |-> outcome]>>)
  /\ UNCHANGED <<orderLimit, intentVars, intentLimit>>

FairSpec == Spec /\ \A p \in Pointers : WF_vars(Executes(p))

-----------------------------------------------------------------------------
(* LimitTradeHandler holds exactly the execution fees of its active orders,  *)
(* through batches that pay fees back before the new ones are paid in, stale *)
(* orders, failures and calls that name orders already gone.                 *)
FeesHeld ==
  held = SumOver(Pointers, [p \in Pointers |->
                   IF p \in activeOrderPointers THEN limitOrders[p].executionFee ELSE 0])

(* The lists the executors and front ends read agree with the orders: what   *)
(* is stored is active, and listed as what it is, market or limit order,     *)
(* whatever it was updated to.                                               *)
ListsAgree ==
  /\ activeOrderPointers = {p \in Pointers : limitOrders[p] # None}
  /\ activeMarketOrderPointers = {p \in activeOrderPointers : limitOrders[p].market}
  /\ activeLimitOrderPointers = activeOrderPointers \ activeMarketOrderPointers

(* The words of an intent take effect once at most, and those of a market    *)
(* order are charged for once at most, however often, in whatever batches    *)
(* and whatever state of the position executors send the same words.         *)
IntentsOnce ==
  \A k \in Keys :
    /\ filled[k] <= 1 /\ (filled[k] = 1 => k \in executedIntents)
    /\ k.intent.market => charged[k] <= 1

(* The orders and intents of a that a step may have carried out. *)
Gone(a) == {p \in Pointers : p[1] = a /\ limitOrders[p] # None /\ limitOrders'[p] = None}
Used(a) == {k \in executedIntents' \ executedIntents : k.intent.account = a}

(* Reduce-only orders never open, grow or turn a position, although it may   *)
(* have been closed or turned, by other orders, intents or bots, since they  *)
(* were created or signed; not even several of them in one call.             *)
ReduceOnlyReduces ==
  [][\A a \in SubAccounts :
       /\ \A p \in Gone(a) : limitOrders[p].reduceOnly
       /\ \A k \in Used(a) : k.intent.reduceOnly
       => /\ Size(position'[a]) <= Size(position[a])
          /\ position'[a] # 0 => SameSide(position'[a], position[a])]_vars

(* A position that a call makes larger, or turns, is within the limit its    *)
(* handler has when the call lands, whatever the limit and the position were *)
(* when the order was created or signed.                                     *)
LimitsKept ==
  [][\A a \in SubAccounts :
       \/ Size(position'[a]) > Size(position[a])
       \/ position'[a] # 0 /\ ~SameSide(position'[a], position[a])
       =>
         /\ Gone(a) # {} /\ orderLimit.position > 0 =>
              Size(position'[a]) <= orderLimit.position
         /\ Used(a) # {} /\ intentLimit.position > 0 =>
              Size(position'[a]) <= intentLimit.position]_vars

(* A market order never stays: executed, failed, stale or cancelled, it is   *)
(* gone after its executors' first attempt.                                  *)
MarketOrdersSettle ==
  \A p \in Pointers :
    p \in activeMarketOrderPointers ~> p \notin activeMarketOrderPointers
=============================================================================
