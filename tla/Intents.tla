------------------------------- MODULE Intents -------------------------------
(* handlers/IntentHandler.sol and helpers/TradeOrderHelper.sol: trade orders *)
(* that traders, or the trading wallets they delegate to, sign off chain.    *)
(* They are stored nowhere: any of several executors may send an intent any  *)
(* number of times, in any batch, and executedIntents alone tells the used   *)
(* ones.  The execution fee is taken from the trader's collateral.           *)
EXTENDS Positions, Sums

CONSTANTS
  Keys,        \* the keys of the intents that may be sent: each is a signed
               \* intent, with a rest
  MaxAttempts  \* bound on how often a fee is collected for a limit intent

(* An intent is sent as two words.  Its fields are decoded from some of      *)
(* their bits, and the signature is over those fields; its key is the hash   *)
(* of the whole words.  The rest of a key is what the other bits hold: one   *)
(* signed intent has a key for each rest it is sent with.                    *)
ASSUME IntentsAssumption ==
  /\ \A k \in Keys : k.intent \in
       [account : SubAccounts, createdTimestamp : Nat, market : BOOLEAN,
        sizeDelta : Int, reduceOnly : BOOLEAN]
  /\ IsFiniteSet(Keys) /\ MaxAttempts \in Nat \ {0}

VARIABLES
  executedIntents,  \* the keys marked executed
  filled,           \* key -> how many LogExecuteTradeOrderSuccess it has had
  charged,          \* key -> how many times a fee was collected for it
  intentLimit       \* TradeOrderHelper's limits

intentVars == <<executedIntents, filled, charged>>

IntentsInit ==
  /\ executedIntents = {}
  /\ filled = [k \in Keys |-> 0]
  /\ charged = [k \in Keys |-> 0]
  /\ intentLimit = [trade |-> 0, position |-> 0]

IntentStorage ==
  [executed |-> executedIntents, filled |-> filled, charged |-> charged,
   position |-> position]

-----------------------------------------------------------------------------
(* TradeOrderHelper.preValidate *)
PreValidate(s, call) ==
  LET i == call.key.intent
  IN  /\ call.outcome # "expired"
      /\ WithinLimits(intentLimit, s.position[i.account], i.sizeDelta, i.reduceOnly)

(* TradeOrderHelper.execute, if the prices and the service let it through:   *)
(* it cuts a reduce-only order that closes more than there is.               *)
Filled(s, i) == CarryOut(s.position[i.account], i.sizeDelta, i.reduceOnly)

(* gasService.collectExecutionFeeFromCollateral, which may fail. *)
CollectFee(s, call) ==
  IF call.outcome = "uncollected" THEN s ELSE [s EXCEPT !.charged[call.key] = @ + 1]

(* What may become of an intent in a call: its signer is neither the account *)
(* nor, any longer, its delegate; it has expired; the prices, the market's   *)
(* status and the service accept it or refuse; it is accepted but the fee    *)
(* cannot be collected.  (Refused and not charged for, a market intent ends  *)
(* as an expired one does, a limit intent as a badly signed one.)            *)
IntentOutcomes == {"badSignature", "expired", "accepted", "refused", "uncollected"}

(* A wrong variant, for IntentsOnce to notice: only a success is marked, and *)
(* a market order that failed may be sent, and charged for, again.           *)
ExecuteIntentMarkingFilled(s, call) ==
  LET k == call.key
      size == Filled(s, k.intent)
      done == call.outcome # "refused" /\ MarketAllows(size)
      marked == [s EXCEPT !.executed = @ \cup {k}]
  IN  IF k \in s.executed \/ call.outcome = "badSignature" THEN s
      ELSE IF ~PreValidate(s, call) THEN marked
      ELSE CollectFee(IF done THEN [marked EXCEPT !.filled[k] = @ + 1,
                                                  !.position[k.intent.account] = size]
                      ELSE s, call)

(* One turn of the loop of execute: a replayed or badly signed intent is     *)
(* skipped; one that fails pre-validation is used up, free of charge; one    *)
(* that succeeds, and a market order that does not, is used up; a limit      *)
(* order that fails may be tried again, each attempt charged for.            *)
ExecuteIntent(s, call) ==
  LET k == call.key
      size == Filled(s, k.intent)
      done == call.outcome # "refused" /\ MarketAllows(size)
      marked == [s EXCEPT !.executed = @ \cup {k}]
  IN  IF k \in s.executed \/ call.outcome = "badSignature" THEN s
      ELSE IF ~PreValidate(s, call) THEN marked
      ELSE CollectFee(IF done THEN [marked EXCEPT !.filled[k] = @ + 1,
                                                  !.position[k.intent.account] = size]
                      ELSE IF k.intent.market THEN marked ELSE s, call)

IntentCalls == [key : Keys, outcome : IntentOutcomes]

(* IntentHandler.execute *)
Execute(calls) ==
  LET end == Through(calls, ExecuteIntent, IntentStorage)
  IN  /\ \A k \in {j \in Keys : ~j.intent.market} : end.charged[k] <= MaxAttempts
      /\ executedIntents' = end.executed
      /\ filled' = end.filled /\ charged' = end.charged
      /\ position' = end.position

SetIntentLimit(limit) == intentLimit' = limit /\ UNCHANGED <<intentVars, position>>
=============================================================================
