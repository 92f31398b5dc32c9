------------------------------- MODULE Custody -------------------------------
(* What the vault promises, told without its books: for each token, how much *)
(* it holds for others (held) and how much it owes them (owed).  A step may, *)
(* for each token independently, take tokens in, hand tokens out against     *)
(* exactly that much of what is owed, or settle between claimants, which     *)
(* leaves both alone.  Nothing else: no settlement creates or destroys a     *)
(* claim, and nothing is handed out that is not owed.                        *)
EXTENDS Integers

CONSTANT Tokens

VARIABLES held, owed

custodyVars == <<held, owed>>

CustodyInit == held = [t \in Tokens |-> 0] /\ owed = [t \in Tokens |-> 0]

(* Tokens come in; no more is newly owed than came. *)
TakesIn(t) ==
  /\ owed'[t] >= owed[t]
  /\ held'[t] - held[t] >= owed'[t] - owed[t]

(* Tokens go out, and the claims on them with them. *)
HandsOut(t) ==
  /\ held'[t] < held[t]
  /\ held[t] - held'[t] = owed[t] - owed'[t]
  /\ owed'[t] >= 0

CustodyNext == \A t \in Tokens : TakesIn(t) \/ HandsOut(t)

CustodySpec == CustodyInit /\ [][CustodyNext]_custodyVars
=============================================================================
