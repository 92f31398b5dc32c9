-------------------------------- MODULE Sums --------------------------------
(* Sums of integer-valued functions over a finite set: the totals the        *)
(* contracts never store but that their mappings must add up to (all         *)
(* sub-accounts' balances of a token, all sub-accounts' debts).  And loops   *)
(* over a list.  Both are recursive functions rather than RECURSIVE          *)
(* operators, so that SumsProofs can prove about them what the invariants of *)
(* the ledger and of the orders need.                                        *)
EXTENDS Integers, Sequences

Pick(T) == CHOOSE x \in T : TRUE

(* The sum of f[x] over the elements x of the finite set S. *)
SumOver(S, f) ==
  LET s[T \in SUBSET S] ==
        IF T = {} THEN 0 ELSE f[Pick(T)] + s[T \ {Pick(T)}]
  IN  s[S]

(* A loop over a list, in order: the state after the last leg. *)
Through(list, Leg(_, _), start) ==
  LET after[i \in 0 .. Len(list)] ==
        IF i = 0 THEN start ELSE Leg(after[i - 1], list[i])
  IN  after[Len(list)]
=============================================================================
