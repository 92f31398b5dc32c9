---------------------------- MODULE MCVaultLedger ----------------------------
(* The instance of VaultLedger for TLC: two tokens, so that a settlement     *)
(* crosses tokens, one of which may be worth three times the other, so that  *)
(* payments round.                                                           *)
EXTENDS VaultLedger, TLC

CONSTANTS t1, t2, alice, bob

TwoTokens == {t1, t2}
Traders == {alice, bob}

TwoAssets == <<t2, t1>>

(* The only fee on one token that is not rounded away takes it all. *)
NoneOrAll == {0, 2}
Apart == {(t1 :> 1 @@ t2 :> 1), (t1 :> 1 @@ t2 :> 3)}

OneFee == {1}

(* One of each token, or two of the first, so that a fee may be shared. *)
OneEachOrTwo == {[t \in Tokens |-> 1], (t1 :> 2 @@ t2 :> 0)}

Bill(pnl, funding, borrowing, trading) ==
  [pnl |-> pnl, funding |-> funding, borrowing |-> borrowing, trading |-> trading]

(* A profit with funding to receive; a loss and every fee due, between them. *)
FewBills == {Bill(1, -1, 0, 0), Bill(0, 1, 0, 1), Bill(-1, 0, 1, 0)}
=============================================================================
