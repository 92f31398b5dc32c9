--------------------------- MODULE RebalanceProofs ---------------------------
(* Theorems about Rebalance, for every set of tokens and of order keys,      *)
(* every deposit and withdrawal, whatever GMX delivers and whichever         *)
(* callbacks run out of gas.  A callback is followed operator by operator:   *)
(* each is shown to free some tokens on hold and to send some of the         *)
(* service's tokens to the vault (Stage), and the stages of a callback add   *)
(* up to exactly what the order took.                                        *)
EXTENDS Rebalance, VaultLedgerProofs

Sane(v) == Good(v) /\ Covered(v)

(* What is on hold in v is what is on hold in w, and freed besides. *)
Frees(v, w, freed) ==
  \A u \in Tokens : v.hlpLiquidityOnHold[u] = w.hlpLiquidityOnHold[u] + freed[u]

-----------------------------------------------------------------------------
(* The vault's operators that the rebalancers use. *)

(* What a sane vault's covered books mean for one token. *)
LEMMA CoveredToken ==
  ASSUME NEW v, Sane(v), NEW u \in Tokens
  PROVE  /\ v.balanceOf[u] \in Nat /\ v.totalAmount[u] \in Nat
         /\ v.hlpLiquidityOnHold[u] \in Nat /\ Owed(v, u) \in Nat
         /\ v.hlpLiquidity[u] \in Nat /\ v.hlpLiquidity[u] <= Owed(v, u)
         /\ Owed(v, u) + v.hlpLiquidityOnHold[u] <= v.totalAmount[u]
         /\ v.totalAmount[u] <= v.balanceOf[u] + v.hlpLiquidityOnHold[u]
         /\ PullDelta(v, u) \in Nat
<1>1. v \in Vaults BY DEF Sane, Good
<1>2. /\ v.balanceOf[u] \in Nat /\ v.totalAmount[u] \in Nat
      /\ v.hlpLiquidityOnHold[u] \in Nat /\ v.hlpLiquidity[u] \in Nat
      /\ Owed(v, u) \in Nat /\ v.hlpLiquidity[u] <= Owed(v, u)
  BY <1>1, EntriesNat, OwedNat
<1>3. /\ Owed(v, u) + v.hlpLiquidityOnHold[u] <= v.totalAmount[u]
      /\ v.totalAmount[u] <= v.balanceOf[u] + v.hlpLiquidityOnHold[u]
  BY DEF Sane, Covered
<1> QED BY <1>2, <1>3 DEF PullDelta

(* Tokens arriving in the vault leave it sane and are there to be pulled. *)
LEMMA ReceiveSane ==
  ASSUME NEW v, Sane(v), NEW t \in Tokens, NEW n \in Nat, NEW w, w = Receive(v, t, n)
  PROVE  /\ Sane(w) /\ w.hlpLiquidityOnHold = v.hlpLiquidityOnHold
         /\ n <= PullDelta(w, t)
<1>1. /\ Good(w) /\ OwesMore(v, w, t, 0)
      /\ w.balanceOf = [v.balanceOf EXCEPT ![t] = @ + n]
      /\ w.totalAmount = v.totalAmount /\ w.hlpLiquidityOnHold = v.hlpLiquidityOnHold
  BY ReceiveIs DEF Sane
<1>2. v.balanceOf \in PerToken BY DEF Sane, Good, Vaults
<1>3. \A u \in Tokens : w.balanceOf[u] = v.balanceOf[u] + (IF u = t THEN n ELSE 0)
  <2> TAKE u \in Tokens
  <2>1. v.balanceOf[u] \in Nat BY CoveredToken
  <2> QED BY <1>1, <1>2, <2>1 DEF PerToken
<1>4. Covered(w)
  <2> SUFFICES ASSUME NEW u \in Tokens
               PROVE  /\ Owed(w, u) + w.hlpLiquidityOnHold[u] <= w.totalAmount[u]
                      /\ w.totalAmount[u] <= w.balanceOf[u] + w.hlpLiquidityOnHold[u]
    BY DEF Covered
  <2>1. Owed(w, u) = Owed(v, u) + 0 BY <1>1 DEF OwesMore
  <2> QED BY <1>1, <1>3, <2>1, CoveredToken
<1>5. n <= PullDelta(w, t)
  <2>1. PullDelta(v, t) \in Nat /\ v.balanceOf[t] \in Nat /\ v.totalAmount[t] \in Nat
        /\ v.hlpLiquidityOnHold[t] \in Nat
    BY CoveredToken
  <2> QED BY <1>1, <1>3, <2>1 DEF PullDelta
<1> QED BY <1>1, <1>4, <1>5 DEF Sane

(* Pulled tokens booked to the pool, no more than was pulled. *)
LEMMA BookSane ==
  ASSUME NEW v, Sane(v), NEW t \in Tokens, NEW n \in Nat, n <= PullDelta(v, t),
         NEW w, w = AddHLPLiquidity(PullToken(v, t), t, n)
  PROVE  Sane(w) /\ w.hlpLiquidityOnHold = v.hlpLiquidityOnHold
<1> DEFINE x == PullToken(v, t)
<1>1. /\ Good(x) /\ OwesMore(v, x, t, 0) /\ x.balanceOf = v.balanceOf
      /\ x.totalAmount = [v.totalAmount EXCEPT ![t] = v.balanceOf[t] + v.hlpLiquidityOnHold[t]]
      /\ x.hlpLiquidityOnHold = v.hlpLiquidityOnHold
  BY PullTokenIs DEF Sane
<1> HIDE DEF x
<1>2. x.hlpLiquidity[t] + n >= 0 /\ x.protocolFees[t] + 0 >= 0 /\ x.devFees[t] + 0 >= 0
      /\ x.fundingFeeReserve[t] + 0 >= 0 /\ x.hlpLiquidityDebt + 0 >= 0
  BY <1>1, EntriesNat DEF Good
<1>3. w = Gains(x, t, n, 0, 0, 0, 0)
  <2>1. w = [x EXCEPT !.hlpLiquidity[t] = @ + n] BY DEF AddHLPLiquidity, x
  <2> QED BY <1>1, <2>1, SingleGains DEF Good
<1>4. Good(w) /\ SameTokens(x, w) /\ OwesMore(x, w, t, n + 0 + 0 + 0)
  BY <1>1, <1>2, <1>3, GainsIs
<1>5. v.totalAmount \in PerToken BY DEF Sane, Good, Vaults
<1>6. Covered(w)
  <2> SUFFICES ASSUME NEW u \in Tokens
               PROVE  /\ Owed(w, u) + w.hlpLiquidityOnHold[u] <= w.totalAmount[u]
                      /\ w.totalAmount[u] <= w.balanceOf[u] + w.hlpLiquidityOnHold[u]
    BY DEF Covered
  <2>1. Owed(x, u) = Owed(v, u) + 0 BY <1>1 DEF OwesMore
  <2>2. Owed(w, u) = Owed(x, u) + (IF u = t THEN n + 0 + 0 + 0 ELSE 0)
    BY <1>4 DEF OwesMore
  <2>3. /\ w.balanceOf[u] = v.balanceOf[u]
        /\ w.hlpLiquidityOnHold[u] = v.hlpLiquidityOnHold[u]
        /\ w.totalAmount[u] = IF u = t THEN v.balanceOf[u] + v.hlpLiquidityOnHold[u]
                              ELSE v.totalAmount[u]
    BY <1>1, <1>4, <1>5 DEF SameTokens, PerToken
  <2>4. /\ v.balanceOf[u] \in Nat /\ v.totalAmount[u] \in Nat
        /\ v.hlpLiquidityOnHold[u] \in Nat /\ Owed(v, u) \in Nat
        /\ Owed(v, u) + v.hlpLiquidityOnHold[u] <= v.totalAmount[u]
        /\ v.totalAmount[u] <= v.balanceOf[u] + v.hlpLiquidityOnHold[u]
    BY CoveredToken
  <2>5. CASE u # t BY <2>1, <2>2, <2>3, <2>4, <2>5
  <2>6. CASE u = t
    <3>1. n <= v.balanceOf[u] + v.hlpLiquidityOnHold[u] - v.totalAmount[u]
      BY <2>6 DEF PullDelta
    <3> QED BY <2>1, <2>2, <2>3, <2>4, <2>6, <3>1
  <2> QED BY <2>5, <2>6
<1> QED BY <1>1, <1>4, <1>6 DEF Sane, SameTokens

(* clearOnHold takes the same off the total and off what is on hold. *)
LEMMA ClearOnHoldIs ==
  ASSUME NEW v, Sane(v), NEW t \in Tokens, NEW n \in Nat, CanClearOnHold(v, t, n),
         NEW w, w = ClearOnHold(v, t, n)
  PROVE  Sane(w) /\ Frees(v, w, Some(t, n))
<1> DEFINE total == [v.totalAmount EXCEPT ![t] = @ - n]
           hold == [v.hlpLiquidityOnHold EXCEPT ![t] = @ - n]
<1>1. v \in Vaults BY DEF Sane, Good
<1>2. total \in PerToken /\ hold \in PerToken
  BY <1>1 DEF Vaults, PerToken, CanClearOnHold
<1>3. \A u \in Tokens : /\ total[u] = v.totalAmount[u] - (IF u = t THEN n ELSE 0)
                        /\ hold[u] = v.hlpLiquidityOnHold[u] - (IF u = t THEN n ELSE 0)
  <2>1. v.totalAmount \in [Tokens -> Nat] /\ v.hlpLiquidityOnHold \in [Tokens -> Nat]
    BY <1>1 DEF Vaults, PerToken
  <2>2. ASSUME NEW u \in Tokens PROVE total[u] = v.totalAmount[u] - (IF u = t THEN n ELSE 0)
    BY <2>1
  <2>3. ASSUME NEW u \in Tokens
        PROVE  hold[u] = v.hlpLiquidityOnHold[u] - (IF u = t THEN n ELSE 0)
    BY <2>1
  <2> QED BY <2>2, <2>3
<1>4. w = [v EXCEPT !.totalAmount = total, !.hlpLiquidityOnHold = hold]
  BY <1>1 DEF Vaults, ClearOnHold
<1> HIDE DEF total, hold
<1>5. w \in Vaults BY <1>1, <1>2, <1>4 DEF Vaults
<1>6. /\ SameBooks(v, w) /\ w.totalAmount = total /\ w.hlpLiquidityOnHold = hold
      /\ w.balanceOf = v.balanceOf /\ w.hlpLiquidity = v.hlpLiquidity
      /\ w.protocolFees = v.protocolFees /\ w.devFees = v.devFees
      /\ w.fundingFeeReserve = v.fundingFeeReserve
  BY <1>1, <1>4 DEF Vaults, SameBooks
<1>7. Good(w) BY <1>5, <1>6, PoolMoves DEF Sane
<1>8. \A u \in Tokens : Owed(w, u) = Owed(v, u)
  <2> TAKE u \in Tokens
  <2>1. /\ v.hlpLiquidity[u] \in Nat /\ v.fundingFeeReserve[u] \in Nat
        /\ v.protocolFees[u] \in Nat /\ v.devFees[u] \in Nat /\ Owed(v, u) \in Nat
    BY <1>1, OwedNat DEF Vaults, PerToken
  <2> QED BY <2>1, <1>5, <1>6, PoolMoves DEF Sane
<1>9. Covered(w)
  <2> SUFFICES ASSUME NEW u \in Tokens
               PROVE  /\ Owed(w, u) + w.hlpLiquidityOnHold[u] <= w.totalAmount[u]
                      /\ w.totalAmount[u] <= w.balanceOf[u] + w.hlpLiquidityOnHold[u]
    BY DEF Covered
  <2> QED BY <1>3, <1>6, <1>8, CoveredToken
<1>10. Frees(v, w, Some(t, n))
  <2> SUFFICES ASSUME NEW u \in Tokens
               PROVE  v.hlpLiquidityOnHold[u] = w.hlpLiquidityOnHold[u] + Some(t, n)[u]
    BY DEF Frees
  <2>1. v.hlpLiquidityOnHold[u] \in Nat BY CoveredToken
  <2> QED BY <1>3, <1>6, <2>1 DEF Some
<1> QED BY <1>7, <1>9, <1>10 DEF Sane

(* removeHLPLiquidityOnHold followed by pushToken: what was the pool's is on *)
(* hold and gone.                                                            *)
LEMMA DeployIs ==
  ASSUME NEW v, Sane(v), NEW t \in Tokens, NEW n \in Nat, CanDeploy(v, t, n),
         NEW w, w = Deploy(v, t, n)
  PROVE  Sane(w) /\ Frees(w, v, Some(t, n))
<1>0. v \in Vaults BY DEF Sane, Good
<1>1. CASE n = 0
  <2>1. \A u \in Tokens : v.hlpLiquidityOnHold[u] \in Nat BY CoveredToken
  <2> QED BY <1>1, <2>1 DEF Deploy, Frees, Some
<1>2. CASE n # 0
  <2> DEFINE hlp == [v.hlpLiquidity EXCEPT ![t] = @ - n]
             hold == [v.hlpLiquidityOnHold EXCEPT ![t] = @ + n]
             x == RemoveHLPLiquidityOnHold(v, t, n)
  <2>1. /\ v.pendingRewardDebt[t] + n <= v.hlpLiquidity[t] /\ n <= v.balanceOf[t]
        /\ w = PushToken(x, t, n)
    BY <1>2 DEF CanDeploy, CanRemoveHLPLiquidity, CanPush, Deploy
  <2>2. hlp \in PerToken /\ hold \in PerToken
    BY <1>0, <2>1 DEF Vaults, PerToken
  <2>3. \A u \in Tokens : /\ hlp[u] = v.hlpLiquidity[u] - (IF u = t THEN n ELSE 0)
                          /\ hold[u] = v.hlpLiquidityOnHold[u] + (IF u = t THEN n ELSE 0)
    BY <1>0 DEF Vaults, PerToken
  <2>4. x = [v EXCEPT !.hlpLiquidity = hlp, !.hlpLiquidityOnHold = hold]
    BY <1>0 DEF Vaults, RemoveHLPLiquidityOnHold
  <2> HIDE DEF hlp, hold, x
  <2>5. x \in Vaults BY <1>0, <2>2, <2>4 DEF Vaults
  <2>6. /\ SameBooks(v, x) /\ x.totalAmount = v.totalAmount /\ x.hlpLiquidityOnHold = hold
        /\ x.balanceOf = v.balanceOf /\ x.hlpLiquidity = hlp
        /\ x.protocolFees = v.protocolFees /\ x.devFees = v.devFees
        /\ x.fundingFeeReserve = v.fundingFeeReserve
    BY <1>0, <2>4 DEF Vaults, SameBooks
  <2>7. Good(x) BY <2>5, <2>6, PoolMoves DEF Sane
  <2>8. \A u \in Tokens : Owed(x, u) = Owed(v, u) - (IF u = t THEN n ELSE 0)
    <3> TAKE u \in Tokens
    <3>1. /\ v.hlpLiquidity[u] \in Nat /\ v.fundingFeeReserve[u] \in Nat
          /\ v.protocolFees[u] \in Nat /\ v.devFees[u] \in Nat /\ Owed(v, u) \in Nat
      BY <1>0, OwedNat DEF Vaults, PerToken
    <3>2. Owed(x, u) = Owed(v, u) + (x.hlpLiquidity[u] - v.hlpLiquidity[u])
                + (x.protocolFees[u] - v.protocolFees[u]) + (x.devFees[u] - v.devFees[u])
                + (x.fundingFeeReserve[u] - v.fundingFeeReserve[u])
      BY <2>5, <2>6, PoolMoves DEF Sane
    <3> QED BY <2>3, <2>6, <3>1, <3>2
  <2>9. /\ Good(w) /\ OwesMore(x, w, t, 0)
        /\ w.balanceOf = [x.balanceOf EXCEPT ![t] = @ - n]
        /\ w.totalAmount =
             [x.totalAmount EXCEPT ![t] = x.balanceOf[t] - n + x.hlpLiquidityOnHold[t]]
        /\ w.hlpLiquidityOnHold = x.hlpLiquidityOnHold
    BY <2>1, <2>6, <2>7, PushTokenIs
  <2>10. v.balanceOf \in PerToken /\ v.totalAmount \in PerToken BY <1>0 DEF Vaults
  <2>11. Covered(w)
    <3> SUFFICES ASSUME NEW u \in Tokens
                 PROVE  /\ Owed(w, u) + w.hlpLiquidityOnHold[u] <= w.totalAmount[u]
                        /\ w.totalAmount[u] <= w.balanceOf[u] + w.hlpLiquidityOnHold[u]
      BY DEF Covered
    <3>1. Owed(w, u) = Owed(x, u) + (IF u = t THEN 0 ELSE 0) BY <2>9 DEF OwesMore
    <3>2. /\ v.balanceOf[u] \in Nat /\ v.totalAmount[u] \in Nat
          /\ v.hlpLiquidityOnHold[u] \in Nat /\ Owed(v, u) \in Nat
          /\ Owed(v, u) + v.hlpLiquidityOnHold[u] <= v.totalAmount[u]
          /\ v.totalAmount[u] <= v.balanceOf[u] + v.hlpLiquidityOnHold[u]
      BY CoveredToken
    <3>3. CASE u = t
      <4>1. /\ w.balanceOf[u] = v.balanceOf[u] - n
            /\ w.totalAmount[u] = v.balanceOf[u] - n + hold[u]
            /\ w.hlpLiquidityOnHold[u] = hold[u]
        BY <2>6, <2>9, <2>10, <3>3 DEF PerToken
      <4> QED BY <2>3, <2>8, <3>1, <3>2, <3>3, <4>1
    <3>4. CASE u # t
      <4>1. /\ w.balanceOf[u] = v.balanceOf[u]
            /\ w.totalAmount[u] = v.totalAmount[u]
            /\ w.hlpLiquidityOnHold[u] = hold[u]
        BY <2>6, <2>9, <2>10, <3>4 DEF PerToken
      <4> QED BY <2>3, <2>8, <3>1, <3>2, <3>4, <4>1
    <3> QED BY <3>3, <3>4
  <2>12. Frees(w, v, Some(t, n))
    <3> SUFFICES ASSUME NEW u \in Tokens
                 PROVE  w.hlpLiquidityOnHold[u] = v.hlpLiquidityOnHold[u] + Some(t, n)[u]
      BY DEF Frees
    <3> QED BY <2>3, <2>6, <2>9 DEF Some
  <2> QED BY <2>9, <2>11, <2>12 DEF Sane
<1> QED BY <1>1, <1>2

(* A sane vault's pool pays without underflow, and pushes what it paid. *)
LEMMA PaidOutSane ==
  ASSUME NEW v, Sane(v), NEW t \in Tokens, NEW n \in Nat,
         CanRemoveHLPLiquidity(v, t, n), CanPush(v, t, n),
         NEW w, w = PushToken(RemoveHLPLiquidity(v, t, n), t, n)
  PROVE  Sane(w) /\ w.hlpLiquidityOnHold = v.hlpLiquidityOnHold
<1> DEFINE x == RemoveHLPLiquidity(v, t, n)
<1>1. v \in Vaults /\ v.pendingRewardDebt[t] \in Nat /\ v.hlpLiquidity[t] \in Nat
      /\ v.protocolFees[t] \in Nat /\ v.devFees[t] \in Nat
      /\ v.fundingFeeReserve[t] \in Nat /\ v.hlpLiquidityDebt \in Nat
  BY EntriesNat DEF Sane, Good
<1>2. n <= v.hlpLiquidity[t] /\ n <= v.balanceOf[t]
  BY <1>1 DEF CanRemoveHLPLiquidity, CanPush
<1>3. x = Gains(v, t, 0 - n, 0, 0, 0, 0)
  <2>1. x = [v EXCEPT !.hlpLiquidity[t] = @ + (0 - n)]
    <3>1. v.hlpLiquidity[t] + (0 - n) = v.hlpLiquidity[t] - n BY <1>1
    <3> QED BY <3>1 DEF RemoveHLPLiquidity
  <2>2. 0 - n \in Int OBVIOUS
  <2> HIDE DEF x
  <2> QED BY <1>1, <2>1, <2>2, SingleGains
<1> HIDE DEF x
<1>4. /\ Good(x) /\ SameTokens(v, x) /\ OwesMore(v, x, t, (0 - n) + 0 + 0 + 0)
  <2>1. /\ v.hlpLiquidity[t] + (0 - n) >= 0 /\ v.protocolFees[t] + 0 >= 0
        /\ v.devFees[t] + 0 >= 0 /\ v.fundingFeeReserve[t] + 0 >= 0
        /\ v.hlpLiquidityDebt + 0 >= 0 /\ 0 - n \in Int
    BY <1>1, <1>2
  <2> QED BY <1>3, <2>1, GainsIs DEF Sane
<1>5. Good(v) /\ Covered(v) /\ (0 - n) + 0 + 0 + 0 = 0 - n /\ 0 - n \in Int
  BY DEF Sane
<1>6. Steps(v, w, t, 0 - n, 0 - n)
  <2>1. OwesMore(v, x, t, 0 - n) BY <1>4, <1>5
  <2>2. w = PushToken(x, t, n) BY DEF x
  <2> QED BY <1>2, <1>4, <1>5, <2>1, <2>2, PushSteps
<1>7. Sound(v, w) BY <1>5, <1>6, StepsSound
<1> QED BY <1>6, <1>7 DEF Sound, Steps, Sane

-----------------------------------------------------------------------------
(* The callbacks, stage by stage. *)

Callback(s) == s \in [v : {s.v}, held : {s.held}, ok : BOOLEAN]

(* A callback that is about to do something to a sane vault. *)
Underway(s) == s.ok /\ Sane(s.v) /\ s.held \in PerToken

(* From s to r a callback frees some tokens on hold and sends some of the    *)
(* service's.  It may revert, but not when that many are on hold and held.   *)
Stage(s, r, freed, sent) ==
  /\ Callback(r)
  /\ r.ok => s.ok
  /\ Underway(s) /\ r.ok =>
       /\ Sane(r.v) /\ Frees(s.v, r.v, freed)
       /\ r.held \in PerToken /\ \A u \in Tokens : s.held[u] = r.held[u] + sent[u]
  /\ Underway(s) /\ (\A u \in Tokens : /\ freed[u] <= s.v.hlpLiquidityOnHold[u]
                                       /\ sent[u] <= s.held[u]) => r.ok

(* Two stages, one after the other, free and send what they do together. *)
LEMMA StageThen ==
  ASSUME NEW s, NEW x, NEW r, NEW f \in PerToken, NEW g \in PerToken,
         NEW h \in PerToken, NEW o \in PerToken, Stage(s, x, f, g), Stage(x, r, h, o),
         NEW freed \in PerToken, \A u \in Tokens : freed[u] = f[u] + h[u],
         NEW sent \in PerToken, \A u \in Tokens : sent[u] = g[u] + o[u]
  PROVE  Stage(s, r, freed, sent)
<1>1. Callback(r) /\ (r.ok => s.ok) BY DEF Stage
<1>2. \A u \in Tokens : /\ f[u] \in Nat /\ g[u] \in Nat /\ h[u] \in Nat /\ o[u] \in Nat
                        /\ freed[u] = f[u] + h[u] /\ sent[u] = g[u] + o[u]
  BY DEF PerToken
<1>3. ASSUME Underway(s), x.ok
      PROVE  /\ Underway(x)
             /\ \A u \in Tokens :
                  /\ s.v.hlpLiquidityOnHold[u] = x.v.hlpLiquidityOnHold[u] + f[u]
                  /\ s.held[u] = x.held[u] + g[u]
                  /\ x.v.hlpLiquidityOnHold[u] \in Nat /\ x.held[u] \in Nat
  <2>1. /\ Sane(x.v) /\ Frees(s.v, x.v, f)
        /\ x.held \in PerToken /\ \A u \in Tokens : s.held[u] = x.held[u] + g[u]
    BY <1>3 DEF Stage
  <2>2. \A u \in Tokens : x.v.hlpLiquidityOnHold[u] \in Nat BY <2>1, CoveredToken
  <2> QED BY <1>3, <2>1, <2>2 DEF Underway, Frees, PerToken
<1>4. ASSUME Underway(s), r.ok
      PROVE  /\ Sane(r.v) /\ Frees(s.v, r.v, freed)
             /\ r.held \in PerToken /\ \A u \in Tokens : s.held[u] = r.held[u] + sent[u]
  <2>1. x.ok BY <1>4 DEF Stage
  <2>2. Underway(x) BY <1>3, <1>4, <2>1
  <2>3. /\ Sane(r.v) /\ Frees(x.v, r.v, h)
        /\ r.held \in PerToken /\ \A u \in Tokens : x.held[u] = r.held[u] + o[u]
    BY <1>4, <2>2 DEF Stage
  <2>4. ASSUME NEW u \in Tokens
        PROVE  /\ s.v.hlpLiquidityOnHold[u] = r.v.hlpLiquidityOnHold[u] + freed[u]
               /\ s.held[u] = r.held[u] + sent[u]
    <3>1. r.v.hlpLiquidityOnHold[u] \in Nat BY <2>3, CoveredToken
    <3>2. r.held[u] \in Nat BY <2>3 DEF PerToken
    <3>3. /\ x.v.hlpLiquidityOnHold[u] = r.v.hlpLiquidityOnHold[u] + h[u]
          /\ x.held[u] = r.held[u] + o[u]
      BY <2>3 DEF Frees
    <3>4. /\ s.v.hlpLiquidityOnHold[u] = x.v.hlpLiquidityOnHold[u] + f[u]
          /\ s.held[u] = x.held[u] + g[u]
      BY <1>3, <1>4, <2>1
    <3> QED BY <1>2, <3>1, <3>2, <3>3, <3>4
  <2> QED BY <2>3, <2>4 DEF Frees
<1>5. ASSUME Underway(s), \A u \in Tokens : /\ freed[u] <= s.v.hlpLiquidityOnHold[u]
                                            /\ sent[u] <= s.held[u]
      PROVE  r.ok
  <2>1. \A u \in Tokens : s.v.hlpLiquidityOnHold[u] \in Nat /\ s.held[u] \in Nat
    BY <1>5, CoveredToken DEF Underway, PerToken
  <2>2. \A u \in Tokens : f[u] <= s.v.hlpLiquidityOnHold[u] /\ g[u] <= s.held[u]
    BY <1>2, <1>5, <2>1
  <2>3. x.ok BY <1>5, <2>2 DEF Stage
  <2>4. \A u \in Tokens : h[u] <= x.v.hlpLiquidityOnHold[u] /\ o[u] <= x.held[u]
    BY <1>2, <1>3, <1>5, <2>3
  <2>5. Underway(x) BY <1>3, <1>5, <2>3
  <2> QED BY <2>4, <2>5 DEF Stage
<1> QED BY <1>1, <1>4, <1>5 DEF Stage

(* What Some and Zero are. *)
LEMMA SomeIs ==
  ASSUME NEW t \in Tokens, NEW n \in Nat
  PROVE  /\ Some(t, n) \in PerToken /\ Zero \in PerToken
         /\ \A u \in Tokens : /\ Some(t, n)[u] = (IF u = t THEN n ELSE 0)
                              /\ Zero[u] = 0
BY DEF Some, Zero, PerToken

LEMMA BothIs ==
  ASSUME NEW f \in PerToken, NEW g \in PerToken
  PROVE  Both(f, g) \in PerToken /\ \A u \in Tokens : Both(f, g)[u] = f[u] + g[u]
BY DEF Both, PerToken

(* A callback that skips a stage does nothing. *)
LEMMA SkipStage ==
  ASSUME NEW s, Callback(s), NEW f, NEW g, \A u \in Tokens : f[u] = 0 /\ g[u] = 0
  PROVE  Stage(s, s, f, g)
<1>1. Sane(s.v) => \A u \in Tokens : s.v.hlpLiquidityOnHold[u] \in Nat
  BY CoveredToken
<1> QED BY <1>1 DEF Stage, Underway, Frees, PerToken

(* Clearing what is on hold. *)
LEMMA ClearStage ==
  ASSUME NEW s, Callback(s), NEW t \in Tokens, NEW n \in Nat
  PROVE  Stage(s, Clear(s, t, n), Some(t, n), Zero)
<1> DEFINE r == Clear(s, t, n)
<1>0. \A u \in Tokens : Some(t, n)[u] = (IF u = t THEN n ELSE 0) /\ Zero[u] = 0
  BY SomeIs
<1>1. CASE n = 0
  <2>1. r = s BY <1>1 DEF Clear
  <2>2. \A u \in Tokens : Some(t, n)[u] = 0 /\ Zero[u] = 0 BY <1>0, <1>1
  <2> QED BY <2>1, <2>2, SkipStage
<1>2. CASE n # 0
  <2>1. /\ Callback(r) /\ r.v = ClearOnHold(s.v, t, n) /\ r.held = s.held
        /\ r.ok <=> s.ok /\ CanClearOnHold(s.v, t, n)
    <3>1. r = [s EXCEPT !.v = ClearOnHold(@, t, n), !.ok = @ /\ CanClearOnHold(s.v, t, n)]
      BY <1>2 DEF Clear
    <3>2. s.ok \in BOOLEAN /\ CanClearOnHold(s.v, t, n) \in BOOLEAN
      BY DEF CanClearOnHold, Callback
    <3> HIDE DEF r
    <3> QED BY <3>1, <3>2 DEF Callback
  <2> HIDE DEF r
  <2>2. ASSUME Underway(s), r.ok
        PROVE  /\ Sane(r.v) /\ Frees(s.v, r.v, Some(t, n)) /\ r.held \in PerToken
               /\ \A u \in Tokens : s.held[u] = r.held[u] + Zero[u]
    <3>1. Sane(r.v) /\ Frees(s.v, r.v, Some(t, n))
      BY <2>1, <2>2, ClearOnHoldIs DEF Underway
    <3> QED BY <1>0, <2>1, <2>2, <3>1 DEF Underway, PerToken
  <2>3. ASSUME Underway(s), \A u \in Tokens : Some(t, n)[u] <= s.v.hlpLiquidityOnHold[u]
        PROVE  r.ok
    <3>1. n <= s.v.hlpLiquidityOnHold[t] BY <1>0, <2>3
    <3>2. n <= s.v.totalAmount[t] BY <2>3, <3>1, CoveredToken DEF Underway
    <3> QED BY <2>1, <2>3, <3>1, <3>2 DEF CanClearOnHold, Underway
  <2>4. r.ok => s.ok BY <2>1
  <2> QED BY <2>1, <2>2, <2>3, <2>4 DEF Stage, r
<1> QED BY <1>1, <1>2

(* Sending the service's tokens to the vault. *)
LEMMA SendBackStage ==
  ASSUME NEW s, Callback(s), NEW t \in Tokens, NEW n \in Nat
  PROVE  LET r == SendBack(s, t, n)
         IN  /\ Stage(s, r, Zero, Some(t, n))
             /\ Underway(s) => n <= PullDelta(r.v, t)
<1> DEFINE r == SendBack(s, t, n)
<1>1. /\ r.v = Receive(s.v, t, n) /\ r.held = [s.held EXCEPT ![t] = @ - n]
      /\ (r.ok <=> s.ok /\ n <= s.held[t]) /\ Callback(r)
  <2>1. r = [v |-> Receive(s.v, t, n), held |-> [s.held EXCEPT ![t] = @ - n],
             ok |-> s.ok /\ n <= s.held[t]]
    BY DEF SendBack
  <2>2. (s.ok /\ n <= s.held[t]) \in BOOLEAN BY DEF Callback
  <2> HIDE DEF r
  <2> QED BY <2>1, <2>2 DEF Callback
<1>2. \A u \in Tokens : Some(t, n)[u] = (IF u = t THEN n ELSE 0) /\ Zero[u] = 0
  BY SomeIs
<1> HIDE DEF r
<1>3. ASSUME Underway(s)
      PROVE  /\ Sane(r.v) /\ r.v.hlpLiquidityOnHold = s.v.hlpLiquidityOnHold
             /\ n <= PullDelta(r.v, t)
  BY <1>1, <1>3, ReceiveSane DEF Underway
<1>4. ASSUME Underway(s) PROVE Frees(s.v, r.v, Zero)
  <2>1. \A u \in Tokens : r.v.hlpLiquidityOnHold[u] \in Nat BY <1>3, <1>4, CoveredToken
  <2> QED BY <1>2, <1>3, <1>4, <2>1 DEF Frees
<1>5. ASSUME Underway(s), r.ok
      PROVE  /\ r.held \in PerToken
             /\ \A u \in Tokens : s.held[u] = r.held[u] + Some(t, n)[u]
  BY <1>1, <1>2, <1>5 DEF Underway, PerToken
<1>6. ASSUME Underway(s), \A u \in Tokens : Some(t, n)[u] <= s.held[u]
      PROVE  r.ok
  BY <1>1, <1>2, <1>6 DEF Underway
<1>7. r.ok => s.ok BY <1>1
<1> QED BY <1>1, <1>3, <1>4, <1>5, <1>6, <1>7 DEF Stage, r

(* Booking what was sent, or all that is there to be pulled. *)
LEMMA BookStage ==
  ASSUME NEW s, Callback(s), NEW t \in Tokens, NEW n,
         Underway(s) => n \in Nat /\ n <= PullDelta(s.v, t)
  PROVE  Stage(s, Book(s, t, n), Zero, Zero)
<1> DEFINE r == Book(s, t, n)
<1>1. /\ r.v = AddHLPLiquidity(PullToken(s.v, t), t, n) /\ r.held = s.held
      /\ r.ok = s.ok /\ Callback(r)
  <2>1. r = [s EXCEPT !.v = AddHLPLiquidity(PullToken(s.v, t), t, n)]
    BY DEF Book
  <2> HIDE DEF r
  <2> QED BY <2>1 DEF Callback
<1> HIDE DEF r
<1>2. \A u \in Tokens : Zero[u] = 0 BY DEF Zero
<1>3. ASSUME Underway(s)
      PROVE  Sane(r.v) /\ r.v.hlpLiquidityOnHold = s.v.hlpLiquidityOnHold
  BY <1>1, <1>3, BookSane DEF Underway
<1>4. ASSUME Underway(s)
      PROVE  /\ Frees(s.v, r.v, Zero) /\ r.held \in PerToken
             /\ \A u \in Tokens : s.held[u] = r.held[u] + Zero[u]
  <2>1. \A u \in Tokens : r.v.hlpLiquidityOnHold[u] \in Nat BY <1>3, <1>4, CoveredToken
  <2>2. r.held \in PerToken /\ r.held = s.held BY <1>1, <1>4 DEF Underway
  <2> QED BY <1>2, <1>3, <1>4, <2>1, <2>2 DEF Frees, PerToken
<1>5. Underway(s) => r.ok BY <1>1 DEF Underway
<1> QED BY <1>1, <1>3, <1>4, <1>5 DEF Stage, r

(* Tokens sent to the vault and booked to the pool. *)
LEMMA TakeStage ==
  ASSUME NEW s, Callback(s), NEW t \in Tokens, NEW n \in Nat
  PROVE  Stage(s, Book(SendBack(s, t, n), t, n), Zero, Some(t, n))
<1> DEFINE x == SendBack(s, t, n)
<1>1. Stage(s, x, Zero, Some(t, n)) /\ (Underway(s) => n <= PullDelta(x.v, t))
  BY SendBackStage
<1>2. Callback(x) BY <1>1 DEF Stage
<1>3. ~ Underway(s) => Stage(s, Book(x, t, n), Zero, Some(t, n))
  <2>1. Callback(Book(x, t, n)) /\ Book(x, t, n).ok = x.ok
    <3> HIDE DEF x
    <3> QED BY <1>2 DEF Book, Callback
  <2>2. x.ok => s.ok BY <1>1 DEF Stage
  <2> HIDE DEF x
  <2> QED BY <2>1, <2>2 DEF Stage
<1>4. CASE Underway(s)
  <2>1. n <= PullDelta(x.v, t) BY <1>1, <1>4
  <2> HIDE DEF x
  <2>2. Stage(x, Book(x, t, n), Zero, Zero) BY <1>2, <2>1, BookStage
  <2>3. /\ Some(t, n) \in PerToken /\ Zero \in PerToken
        /\ \A u \in Tokens : /\ Zero[u] = Zero[u] + Zero[u]
                             /\ Some(t, n)[u] = Some(t, n)[u] + Zero[u]
    BY SomeIs
  <2> QED BY <1>1, <2>2, <2>3, StageThen DEF x
<1> QED BY <1>3, <1>4

(* Tokens sent to the vault, and whatever is there of token u booked. *)
LEMMA PullStage ==
  ASSUME NEW s, Callback(s), NEW t \in Tokens, NEW u \in Tokens, NEW n \in Nat
  PROVE  Stage(s, BookPulled(SendBack(s, t, n), u), Zero, Some(t, n))
<1> DEFINE x == SendBack(s, t, n)
<1>1. Stage(s, x, Zero, Some(t, n)) BY SendBackStage
<1> HIDE DEF x
<1>2. Callback(x) BY <1>1 DEF Stage
<1>3. Underway(x) => PullDelta(x.v, u) \in Nat /\ PullDelta(x.v, u) <= PullDelta(x.v, u)
  BY CoveredToken DEF Underway
<1>4. Stage(x, BookPulled(x, u), Zero, Zero) BY <1>2, <1>3, BookStage DEF BookPulled
<1>5. /\ Some(t, n) \in PerToken /\ Zero \in PerToken
      /\ \A q \in Tokens : /\ Zero[q] = Zero[q] + Zero[q]
                           /\ Some(t, n)[q] = Some(t, n)[q] + Zero[q]
  BY SomeIs
<1> QED BY <1>1, <1>4, <1>5, StageThen DEF x

-----------------------------------------------------------------------------
(* The callbacks whole. *)

(* What an order took from the pool. *)
DepositTook(d) ==
  Both(Some(d.longToken, d.longTokenAmount), Some(d.shortToken, d.shortTokenAmount))

WithdrawalTook(w) == Some(w.market, w.amount)

(* The parameters of an order are tokens and amounts. *)
LEMMA DepositIs ==
  ASSUME NEW d \in Deposits
  PROVE  /\ d.market \in Tokens /\ d.longToken \in Tokens /\ d.shortToken \in Tokens
         /\ d.longTokenAmount \in Nat /\ d.shortTokenAmount \in Nat
BY RebalanceAssumption

LEMMA WithdrawalIs ==
  ASSUME NEW w \in Withdrawals
  PROVE  /\ w.market \in Tokens /\ w.longToken \in Tokens /\ w.shortToken \in Tokens
         /\ w.amount \in Nat
BY RebalanceAssumption

(* An executed deposit frees what it took and sends the market tokens.       *)
LEMMA DepositExecuted ==
  ASSUME NEW s, Callback(s), NEW d \in Deposits, NEW gms \in Nat, gms > 0
  PROVE  Stage(s, AfterDepositExecution(s, d, gms), DepositTook(d), Some(d.market, gms))
<1> DEFINE x == Book(SendBack(s, d.market, gms), d.market, gms)
           y == Clear(x, d.longToken, d.longTokenAmount)
           z == Clear(y, d.shortToken, d.shortTokenAmount)
           r == AfterDepositExecution(s, d, gms)
           long == Some(d.longToken, d.longTokenAmount)
           short == Some(d.shortToken, d.shortTokenAmount)
           sent == Some(d.market, gms)
<1>1. /\ d.market \in Tokens /\ d.longToken \in Tokens /\ d.shortToken \in Tokens
      /\ d.longTokenAmount \in Nat /\ d.shortTokenAmount \in Nat
  BY DepositIs
<1>2. /\ long \in PerToken /\ short \in PerToken /\ sent \in PerToken /\ Zero \in PerToken
      /\ Both(long, short) \in PerToken
      /\ \A u \in Tokens : Both(long, short)[u] = long[u] + short[u] /\ Zero[u] = 0
  BY <1>1, SomeIs, BothIs
<1>3. \A u \in Tokens : long[u] \in Nat /\ short[u] \in Nat /\ sent[u] \in Nat
  BY <1>2 DEF PerToken
<1>4. r = [z EXCEPT !.ok = @ /\ gms > 0] BY DEF AfterDepositExecution
<1>5. Stage(s, x, Zero, sent) BY <1>1, TakeStage
<1> HIDE DEF x
<1>6. Stage(x, y, long, Zero) BY <1>1, <1>5, ClearStage DEF Stage
<1> HIDE DEF y
<1>7. Stage(y, z, short, Zero) BY <1>1, <1>6, ClearStage DEF Stage
<1> HIDE DEF z, r, long, short, sent
<1>8. Stage(s, y, long, sent) BY <1>2, <1>3, <1>5, <1>6, StageThen
<1>9. Stage(s, z, Both(long, short), sent) BY <1>2, <1>3, <1>7, <1>8, StageThen
<1>10. r = z
  <2>1. Callback(z) BY <1>9 DEF Stage
  <2> QED BY <1>4, <2>1 DEF Callback
<1> QED BY <1>9, <1>10 DEF DepositTook, r, long, short, sent

(* One token is freed, as many of token q are sent back, and what of the     *)
(* first is there is booked.                                                 *)
LEMMA ReturnStage ==
  ASSUME NEW s, Callback(s), NEW t \in Tokens, NEW q \in Tokens, NEW n \in Nat
  PROVE  Stage(s, BookPulled(SendBack(Clear(s, t, n), q, n), t), Some(t, n), Some(q, n))
<1> DEFINE x == Clear(s, t, n)
<1>1. Stage(s, x, Some(t, n), Zero) BY ClearStage
<1> HIDE DEF x
<1>2. Stage(x, BookPulled(SendBack(x, q, n), t), Zero, Some(q, n))
  BY <1>1, PullStage DEF Stage
<1>3. /\ Some(t, n) \in PerToken /\ Some(q, n) \in PerToken /\ Zero \in PerToken
      /\ \A u \in Tokens : Zero[u] = 0
  BY SomeIs
<1>4. \A u \in Tokens : /\ Some(t, n)[u] = Some(t, n)[u] + Zero[u]
                        /\ Some(q, n)[u] = Zero[u] + Some(q, n)[u]
  BY <1>3 DEF PerToken
<1> QED BY <1>1, <1>2, <1>3, <1>4, StageThen DEF x

(* A cancelled deposit frees what it took, and sends back as many tokens,    *)
(* all of them longToken.                                                    *)
LEMMA DepositCancelled ==
  ASSUME NEW s, Callback(s), NEW d \in Deposits
  PROVE  Stage(s, AfterDepositCancellation(s, d), DepositTook(d),
               Both(Some(d.longToken, d.longTokenAmount),
                    Some(d.longToken, d.shortTokenAmount)))
<1> DEFINE x == IF d.longTokenAmount > 0
                THEN BookPulled(SendBack(Clear(s, d.longToken, d.longTokenAmount),
                                         d.longToken, d.longTokenAmount), d.longToken)
                ELSE s
           r == IF d.shortTokenAmount > 0
                THEN BookPulled(SendBack(Clear(x, d.shortToken, d.shortTokenAmount),
                                         d.longToken, d.shortTokenAmount), d.shortToken)
                ELSE x
           long == Some(d.longToken, d.longTokenAmount)
           short == Some(d.shortToken, d.shortTokenAmount)
           wrong == Some(d.longToken, d.shortTokenAmount)
<1>1. /\ d.market \in Tokens /\ d.longToken \in Tokens /\ d.shortToken \in Tokens
      /\ d.longTokenAmount \in Nat /\ d.shortTokenAmount \in Nat
  BY DepositIs
<1>2. /\ long \in PerToken /\ short \in PerToken /\ wrong \in PerToken
      /\ Both(long, short) \in PerToken /\ Both(long, wrong) \in PerToken
      /\ \A u \in Tokens : /\ Both(long, short)[u] = long[u] + short[u]
                            /\ Both(long, wrong)[u] = long[u] + wrong[u]
  BY <1>1, SomeIs, BothIs
<1>3. r = AfterDepositCancellation(s, d) BY DEF AfterDepositCancellation
<1>4. Stage(s, x, long, long)
  <2>1. CASE d.longTokenAmount > 0 BY <1>1, <2>1, ReturnStage
  <2>2. CASE ~ (d.longTokenAmount > 0)
    <3>1. d.longTokenAmount = 0 BY <1>1, <2>2
    <3>2. x = s BY <2>2
    <3>3. \A u \in Tokens : long[u] = 0 BY <1>1, <3>1, SomeIs
    <3> HIDE DEF x, long
    <3> QED BY <3>2, <3>3, SkipStage
  <2> QED BY <2>1, <2>2
<1>5. Callback(x) BY <1>4 DEF Stage
<1> HIDE DEF x
<1>6. Stage(x, r, short, wrong)
  <2>1. CASE d.shortTokenAmount > 0 BY <1>1, <1>5, <2>1, ReturnStage
  <2>2. CASE ~ (d.shortTokenAmount > 0)
    <3>1. d.shortTokenAmount = 0 BY <1>1, <2>2
    <3>2. r = x BY <2>2
    <3>3. \A u \in Tokens : short[u] = 0 /\ wrong[u] = 0 BY <1>1, <3>1, SomeIs
    <3> HIDE DEF r, short, wrong
    <3> QED BY <1>5, <3>2, <3>3, SkipStage
  <2> QED BY <2>1, <2>2
<1> HIDE DEF r, long, short, wrong
<1>7. Stage(s, r, Both(long, short), Both(long, wrong))
  BY <1>2, <1>4, <1>6, StageThen
<1> QED BY <1>3, <1>7 DEF DepositTook, long, short, wrong

(* An executed withdrawal frees the market tokens and sends what it got.     *)
LEMMA WithdrawalExecuted ==
  ASSUME NEW s, Callback(s), NEW w \in Withdrawals, NEW m \in Nat, NEW n \in Nat
  PROVE  Stage(s, AfterWithdrawalExecution(s, w, m, n), WithdrawalTook(w),
               Both(Some(w.longToken, m), Some(w.shortToken, n)))
<1> DEFINE Take(r, t, amount) ==
             IF amount > 0 THEN Book(SendBack(r, t, amount), t, amount) ELSE r
           x == Take(s, w.longToken, m)
           y == Take(x, w.shortToken, n)
           r == Clear(y, w.market, w.amount)
           long == Some(w.longToken, m)
           short == Some(w.shortToken, n)
           took == Some(w.market, w.amount)
<1>1. /\ w.market \in Tokens /\ w.longToken \in Tokens /\ w.shortToken \in Tokens
      /\ w.amount \in Nat
  BY WithdrawalIs
<1>2. /\ long \in PerToken /\ short \in PerToken /\ took \in PerToken /\ Zero \in PerToken
      /\ Both(long, short) \in PerToken
      /\ \A u \in Tokens : /\ Both(long, short)[u] = long[u] + short[u] /\ Zero[u] = 0
                            /\ Zero[u] = Zero[u] + Zero[u]
                            /\ took[u] = Zero[u] + took[u]
                            /\ Both(long, short)[u] = Both(long, short)[u] + Zero[u]
  BY <1>1, SomeIs, BothIs
<1>3. ASSUME NEW q, Callback(q), NEW t \in Tokens, NEW amount \in Nat
      PROVE  Stage(q, Take(q, t, amount), Zero, Some(t, amount))
  <2>1. CASE amount > 0 BY <1>3, <2>1, TakeStage
  <2>2. CASE ~ (amount > 0)
    <3>1. amount = 0 /\ Take(q, t, amount) = q BY <1>3, <2>2
    <3>2. \A u \in Tokens : Zero[u] = 0 /\ Some(t, amount)[u] = 0 BY <3>1, SomeIs
    <3> QED BY <1>3, <3>1, <3>2, SkipStage
  <2> QED BY <2>1, <2>2
<1>4. r = AfterWithdrawalExecution(s, w, m, n) BY DEF AfterWithdrawalExecution
<1> HIDE DEF Take
<1>5. Stage(s, x, Zero, long) BY <1>1, <1>3
<1> HIDE DEF x
<1>6. Stage(x, y, Zero, short) BY <1>1, <1>3, <1>5 DEF Stage
<1> HIDE DEF y
<1>7. Stage(y, r, took, Zero) BY <1>1, <1>6, ClearStage DEF Stage
<1> HIDE DEF r, long, short, took
<1>8. Stage(s, y, Zero, Both(long, short)) BY <1>2, <1>5, <1>6, StageThen
<1>9. Stage(s, r, took, Both(long, short)) BY <1>2, <1>7, <1>8, StageThen
<1> QED BY <1>4, <1>9 DEF WithdrawalTook, long, short, took

(* A cancelled withdrawal frees the market tokens and sends them back.       *)
LEMMA WithdrawalCancelled ==
  ASSUME NEW s, Callback(s), NEW w \in Withdrawals
  PROVE  Stage(s, AfterWithdrawalCancellation(s, w), WithdrawalTook(w),
               Some(w.market, w.amount))
BY WithdrawalIs, ReturnStage DEF AfterWithdrawalCancellation, WithdrawalTook

-----------------------------------------------------------------------------
(* The inductive invariant. *)

(* The orders are typed; a key GMX has not used has nothing pending, and no  *)
(* key has both a deposit and a withdrawal.                                  *)
Orderly ==
  /\ pendingDeposit \in [Keys -> Deposits \cup {None}]
  /\ pendingWithdrawal \in [Keys -> Withdrawals \cup {None}]
  /\ gmx \in [Keys -> {"none", "open", "executed", "cancelled"}]
  /\ service \in PerToken /\ outside \in PerToken
  /\ \A k \in Keys : gmx[k] = "none" => pendingDeposit[k] = None /\ pendingWithdrawal[k] = None
  /\ \A k \in Keys : pendingDeposit[k] = None \/ pendingWithdrawal[k] = None

(* What is on hold is what pending orders took or what is out. *)
HoldsAccounted ==
  \A t \in Tokens : vault.hlpLiquidityOnHold[t] <= OnOrder(t) + outside[t]

RebalanceInv == Sane(vault) /\ Orderly /\ HeldExactly /\ HoldsAccounted

(* What a key's pending deposit d and withdrawal w took of token t. *)
TookBoth(d, w, t) ==
  (IF d # None THEN DepositTook(d)[t] ELSE 0) + (IF w # None THEN WithdrawalTook(w)[t] ELSE 0)

LEMMA TookIs ==
  ASSUME NEW d \in Deposits \cup {None}, NEW w \in Withdrawals \cup {None}, NEW t \in Tokens
  PROVE  /\ TookBoth(d, w, t) \in Nat
         /\ TookBoth(d, w, t) =
              (IF d # None /\ d.longToken = t THEN d.longTokenAmount ELSE 0)
              + (IF d # None /\ d.shortToken = t THEN d.shortTokenAmount ELSE 0)
              + (IF w # None /\ w.market = t THEN w.amount ELSE 0)
<1>1. /\ (d # None => d \in Deposits)
      /\ (w # None => w \in Withdrawals)
  OBVIOUS
<1>2. d # None =>
        /\ d.longTokenAmount \in Nat /\ d.shortTokenAmount \in Nat
        /\ DepositTook(d)[t] = (IF d.longToken = t THEN d.longTokenAmount ELSE 0)
                              + (IF d.shortToken = t THEN d.shortTokenAmount ELSE 0)
  <2> SUFFICES ASSUME d # None
               PROVE  /\ d.longTokenAmount \in Nat /\ d.shortTokenAmount \in Nat
                      /\ DepositTook(d)[t]
                           = (IF d.longToken = t THEN d.longTokenAmount ELSE 0)
                             + (IF d.shortToken = t THEN d.shortTokenAmount ELSE 0)
    OBVIOUS
  <2>1. d \in Deposits OBVIOUS
  <2>2. d.longTokenAmount \in Nat /\ d.shortTokenAmount \in Nat BY <2>1, DepositIs
  <2> QED BY <2>2 DEF DepositTook, Both, Some
<1>3. w # None => /\ w.amount \in Nat
                  /\ WithdrawalTook(w)[t] = (IF w.market = t THEN w.amount ELSE 0)
  <2> SUFFICES ASSUME w # None
               PROVE  /\ w.amount \in Nat
                      /\ WithdrawalTook(w)[t] = (IF w.market = t THEN w.amount ELSE 0)
    OBVIOUS
  <2>1. w \in Withdrawals OBVIOUS
  <2>2. w.amount \in Nat BY <2>1, WithdrawalIs
  <2> QED BY <2>2 DEF WithdrawalTook, Some
<1> QED BY <1>2, <1>3 DEF TookBoth

(* What is on order is a natural number, at least what each key took.        *)
LEMMA OnOrderNat ==
  ASSUME Orderly, NEW t \in Tokens
  PROVE  /\ OnOrder(t) \in Nat
         /\ \A k \in Keys : /\ TakenBy(k, t) \in Nat /\ TakenBy(k, t) <= OnOrder(t)
                            /\ TakenBy(k, t) =
                                 TookBoth(pendingDeposit[k], pendingWithdrawal[k], t)
<1> DEFINE f == [k \in Keys |-> TakenBy(k, t)]
<1>1. ASSUME NEW k \in Keys
      PROVE  /\ TakenBy(k, t) = TookBoth(pendingDeposit[k], pendingWithdrawal[k], t)
             /\ TakenBy(k, t) \in Nat
  <2>1. /\ pendingDeposit[k] \in Deposits \cup {None}
        /\ pendingWithdrawal[k] \in Withdrawals \cup {None}
    BY DEF Orderly
  <2>2. TookBoth(pendingDeposit[k], pendingWithdrawal[k], t) \in Nat BY <2>1, TookIs
  <2>3. TakenBy(k, t) = TookBoth(pendingDeposit[k], pendingWithdrawal[k], t)
    BY <2>1, TookIs DEF TakenBy
  <2> QED BY <2>2, <2>3
<1>2. f \in [Keys -> Nat] /\ f \in [Keys -> Int] BY <1>1
<1>3. \A k \in Keys : f[k] >= 0 /\ f[k] = TakenBy(k, t) BY <1>1
<1>4. OnOrder(t) = SumOver(Keys, f) BY DEF OnOrder
<1>5. IsFiniteSet(Keys) BY RebalanceAssumption
<1> HIDE DEF f
<1>6. SumOver(Keys, f) \in Nat BY <1>2, <1>5, SumNat
<1>7. \A k \in Keys : f[k] <= SumOver(Keys, f) BY <1>2, <1>3, <1>5, SumAtLeastTerm
<1> QED BY <1>1, <1>3, <1>4, <1>6, <1>7

(* When one key's orders change, what is on order changes as much. *)
LEMMA OnOrderMoves ==
  ASSUME Orderly, Orderly', NEW k \in Keys,
         \A j \in Keys : j # k => /\ pendingDeposit'[j] = pendingDeposit[j]
                                 /\ pendingWithdrawal'[j] = pendingWithdrawal[j],
         NEW t \in Tokens
  PROVE  /\ OnOrder(t)' \in Nat
         /\ OnOrder(t)' = OnOrder(t) - TookBoth(pendingDeposit[k], pendingWithdrawal[k], t)
                            + TookBoth(pendingDeposit'[k], pendingWithdrawal'[k], t)
<1> DEFINE f == [j \in Keys |-> TookBoth(pendingDeposit[j], pendingWithdrawal[j], t)]
           h == [j \in Keys |-> TookBoth(pendingDeposit'[j], pendingWithdrawal'[j], t)]
<1>1. \A j \in Keys : /\ pendingDeposit[j] \in Deposits \cup {None}
                      /\ pendingWithdrawal[j] \in Withdrawals \cup {None}
                      /\ pendingDeposit'[j] \in Deposits \cup {None}
                      /\ pendingWithdrawal'[j] \in Withdrawals \cup {None}
  BY DEF Orderly
<1>2. f \in [Keys -> Nat] /\ h \in [Keys -> Nat] BY <1>1, TookIs
<1>3. f \in [Keys -> Int] /\ h \in [Keys -> Int] BY <1>2
<1>4. [j \in Keys |-> TakenBy(j, t)] = f BY <1>1, TookIs DEF TakenBy
<1>5. [j \in Keys |-> TakenBy(j, t)]' = h BY <1>1, TookIs DEF TakenBy
<1>6. \A j \in Keys : j # k => h[j] = f[j] OBVIOUS
<1>7. /\ f[k] = TookBoth(pendingDeposit[k], pendingWithdrawal[k], t)
      /\ h[k] = TookBoth(pendingDeposit'[k], pendingWithdrawal'[k], t)
  OBVIOUS
<1>8. OnOrder(t) = SumOver(Keys, f) BY <1>4 DEF OnOrder
<1>9. OnOrder(t)' = SumOver(Keys, h) BY <1>5 DEF OnOrder
<1>10. IsFiniteSet(Keys) BY RebalanceAssumption
<1> HIDE DEF f, h
<1>11. SumOver(Keys, h) = SumOver(Keys, f) - f[k] + h[k]
  BY <1>3, <1>6, <1>10, SumUpdate
<1>12. SumOver(Keys, h) \in Nat BY <1>2, <1>10, SumNat
<1> QED BY <1>7, <1>8, <1>9, <1>11, <1>12

(* Steps in which holds follow the orders of one key keep the invariant.     *)
LEMMA HoldsFollow ==
  ASSUME RebalanceInv, Orderly', Sane(vault'), outside' = outside, NEW k \in Keys,
         \A j \in Keys : j # k => /\ pendingDeposit'[j] = pendingDeposit[j]
                                 /\ pendingWithdrawal'[j] = pendingWithdrawal[j],
         \A t \in Tokens :
            vault'.hlpLiquidityOnHold[t] = vault.hlpLiquidityOnHold[t]
              - TookBoth(pendingDeposit[k], pendingWithdrawal[k], t)
              + TookBoth(pendingDeposit'[k], pendingWithdrawal'[k], t)
  PROVE  RebalanceInv'
<1>1. ASSUME NEW t \in Tokens
      PROVE  /\ t \notin Removable => vault'.hlpLiquidityOnHold[t] = OnOrder(t)'
             /\ vault'.hlpLiquidityOnHold[t] <= OnOrder(t)' + outside'[t]
  <2>1. /\ Orderly /\ Sane(vault)
        /\ t \notin Removable => vault.hlpLiquidityOnHold[t] = OnOrder(t)
        /\ vault.hlpLiquidityOnHold[t] <= OnOrder(t) + outside[t]
    BY DEF RebalanceInv, HeldExactly, HoldsAccounted
  <2>2. OnOrder(t)' = OnOrder(t) - TookBoth(pendingDeposit[k], pendingWithdrawal[k], t)
                        + TookBoth(pendingDeposit'[k], pendingWithdrawal'[k], t)
    BY <2>1, OnOrderMoves
  <2>3. OnOrder(t) \in Nat BY <2>1, OnOrderNat
  <2>4. /\ pendingDeposit[k] \in Deposits \cup {None}
        /\ pendingWithdrawal[k] \in Withdrawals \cup {None}
        /\ pendingDeposit'[k] \in Deposits \cup {None}
        /\ pendingWithdrawal'[k] \in Withdrawals \cup {None}
        /\ outside[t] \in Nat
    BY <2>1 DEF Orderly, PerToken
  <2>5. /\ TookBoth(pendingDeposit[k], pendingWithdrawal[k], t) \in Nat
        /\ TookBoth(pendingDeposit'[k], pendingWithdrawal'[k], t) \in Nat
    BY <2>4, TookIs
  <2>6. vault.hlpLiquidityOnHold[t] \in Nat BY <2>1, CoveredToken
  <2> QED BY <2>1, <2>2, <2>3, <2>4, <2>5, <2>6
<1> QED BY <1>1 DEF RebalanceInv, HeldExactly, HoldsAccounted

-----------------------------------------------------------------------------
(* The actions. *)

(* Nothing of the pool's own transactions touches what is on hold. *)
LEMMA PoolHolds ==
  ASSUME Sane(vault), PoolStep
  PROVE  Sane(vault') /\ vault'.hlpLiquidityOnHold = vault.hlpLiquidityOnHold
<1>1. vault \in Vaults BY DEF Sane, Good
<1>2. PICK t \in Tokens :
        \/ Vest(t)
        \/ \E amount \in Amounts :
              \/ Donate(t, amount)
              \/ Feed(t, amount)
              \/ \E rate \in LpFeeBPS :
                    AddLiquidity(t, amount, rate) \/ RemoveLiquidity(t, amount, rate)
  BY DEF PoolStep
<1>3. ASSUME Vest(t) PROVE vault'.hlpLiquidityOnHold = vault.hlpLiquidityOnHold
  BY <1>1, <1>3 DEF Vest, Vaults
<1>4. ASSUME NEW amount \in Amounts, Donate(t, amount)
      PROVE  vault'.hlpLiquidityOnHold = vault.hlpLiquidityOnHold
  BY <1>1, <1>4 DEF Donate, Becomes, Receive, Vaults
<1>5. ASSUME NEW amount \in Amounts, Feed(t, amount)
      PROVE  vault'.hlpLiquidityOnHold = vault.hlpLiquidityOnHold
  BY <1>1, <1>5 DEF Feed, Becomes, FeedReward, PullToken, AddHLPLiquidity, Receive, Vaults
<1>6. ASSUME NEW amount \in Amounts, NEW rate \in LpFeeBPS, AddLiquidity(t, amount, rate)
      PROVE  vault'.hlpLiquidityOnHold = vault.hlpLiquidityOnHold
  BY <1>1, <1>6 DEF AddLiquidity, Becomes, CollectFee, AddFee, AddDevFee, PullToken,
                    AddHLPLiquidity, Receive, Vaults
<1>7. ASSUME NEW amount \in Amounts, NEW rate \in LpFeeBPS, RemoveLiquidity(t, amount, rate)
      PROVE  vault'.hlpLiquidityOnHold = vault.hlpLiquidityOnHold
  BY <1>1, <1>7 DEF RemoveLiquidity, Becomes, CollectFee, AddFee, AddDevFee, PushToken,
                    RemoveHLPLiquidity, Vaults
<1>8. Sound(vault, vault')
  <2>1. LedgerInv /\ LedgerNext BY DEF LedgerInv, LedgerNext, Sane
  <2> QED BY <2>1, StepSound DEF Correct
<1> QED BY <1>2, <1>3, <1>4, <1>5, <1>6, <1>7, <1>8 DEF Sound, Sane

(* So the pool's transactions keep the invariant.                            *)
LEMMA PoolKeeps ==
  ASSUME RebalanceInv, Sane(vault'), UNCHANGED <<orders, outside>>,
         vault'.hlpLiquidityOnHold = vault.hlpLiquidityOnHold
  PROVE  RebalanceInv'
<1>1. /\ pendingDeposit' = pendingDeposit /\ pendingWithdrawal' = pendingWithdrawal
      /\ gmx' = gmx /\ service' = service /\ outside' = outside
  BY DEF orders
<1>2. Orderly' BY <1>1 DEF RebalanceInv, Orderly
<1>3. ASSUME NEW t \in Tokens PROVE OnOrder(t)' = OnOrder(t)
  BY <1>1 DEF OnOrder, TakenBy
<1> QED BY <1>1, <1>2, <1>3 DEF RebalanceInv, HeldExactly, HoldsAccounted

(* A new deposit puts on hold what it takes. *)
LEMMA CreateDepositKeeps ==
  ASSUME RebalanceInv, NEW k \in Keys, NEW d \in Deposits, CreateDepositOrder(k, d)
  PROVE  RebalanceInv'
<1> DEFINE x == Deploy(vault, d.longToken, d.longTokenAmount)
           long == Some(d.longToken, d.longTokenAmount)
           short == Some(d.shortToken, d.shortTokenAmount)
<1>1. /\ gmx[k] = "none" /\ CanDeploy(vault, d.longToken, d.longTokenAmount)
      /\ CanDeploy(x, d.shortToken, d.shortTokenAmount)
      /\ vault' = Deploy(x, d.shortToken, d.shortTokenAmount)
      /\ pendingDeposit' = [pendingDeposit EXCEPT ![k] = d]
      /\ gmx' = [gmx EXCEPT ![k] = "open"]
      /\ pendingWithdrawal' = pendingWithdrawal /\ service' = service /\ outside' = outside
  BY DEF CreateDepositOrder
<1>2. /\ d.market \in Tokens /\ d.longToken \in Tokens /\ d.shortToken \in Tokens
      /\ d.longTokenAmount \in Nat /\ d.shortTokenAmount \in Nat /\ d # None
  BY DepositIs, RebalanceAssumption
<1>3. Orderly /\ Sane(vault) BY DEF RebalanceInv
<1>4. Orderly' BY <1>1, <1>3 DEF Orderly
<1>5. pendingDeposit[k] = None /\ pendingWithdrawal[k] = None
      /\ pendingDeposit'[k] = d /\ pendingWithdrawal'[k] = None
  BY <1>1, <1>3 DEF Orderly
<1>6. Sane(x) /\ Frees(x, vault, long) BY <1>1, <1>2, <1>3, DeployIs
<1> HIDE DEF x
<1>7. Sane(vault') /\ Frees(vault', x, short) BY <1>1, <1>2, <1>6, DeployIs
<1>8. \A j \in Keys : j # k => /\ pendingDeposit'[j] = pendingDeposit[j]
                              /\ pendingWithdrawal'[j] = pendingWithdrawal[j]
  BY <1>1, <1>3 DEF Orderly
<1>9. ASSUME NEW t \in Tokens
      PROVE  vault'.hlpLiquidityOnHold[t] = vault.hlpLiquidityOnHold[t]
               - TookBoth(pendingDeposit[k], pendingWithdrawal[k], t)
               + TookBoth(pendingDeposit'[k], pendingWithdrawal'[k], t)
  <2>1. /\ vault'.hlpLiquidityOnHold[t] = x.hlpLiquidityOnHold[t] + short[t]
        /\ x.hlpLiquidityOnHold[t] = vault.hlpLiquidityOnHold[t] + long[t]
    BY <1>6, <1>7 DEF Frees
  <2>2. TookBoth(None, None, t) = 0 BY DEF TookBoth
  <2>3. TookBoth(d, None, t) = long[t] + short[t]
    <3>1. DepositTook(d)[t] = long[t] + short[t] BY DEF DepositTook, Both
    <3>2. long[t] \in Nat /\ short[t] \in Nat BY <1>2 DEF Some
    <3> HIDE DEF long, short
    <3> QED BY <1>2, <3>1, <3>2 DEF TookBoth
  <2>4. vault.hlpLiquidityOnHold[t] \in Nat BY <1>3, CoveredToken
  <2>5. long[t] \in Nat /\ short[t] \in Nat BY <1>2 DEF Some
  <2> HIDE DEF long, short
  <2> QED BY <1>5, <2>1, <2>2, <2>3, <2>4, <2>5
<1> QED BY <1>1, <1>4, <1>7, <1>8, <1>9, HoldsFollow

(* So does a new withdrawal. *)
LEMMA CreateWithdrawalKeeps ==
  ASSUME RebalanceInv, NEW k \in Keys, NEW w \in Withdrawals, CreateWithdrawalOrder(k, w)
  PROVE  RebalanceInv'
<1>1. /\ gmx[k] = "none" /\ CanDeploy(vault, w.market, w.amount)
      /\ vault' = Deploy(vault, w.market, w.amount)
      /\ pendingWithdrawal' = [pendingWithdrawal EXCEPT ![k] = w]
      /\ gmx' = [gmx EXCEPT ![k] = "open"]
      /\ pendingDeposit' = pendingDeposit /\ service' = service /\ outside' = outside
  BY DEF CreateWithdrawalOrder
<1>2. w.market \in Tokens /\ w.amount \in Nat /\ w # None
  BY WithdrawalIs, RebalanceAssumption
<1>3. Orderly /\ Sane(vault) BY DEF RebalanceInv
<1>4. Orderly' BY <1>1, <1>3 DEF Orderly
<1>5. /\ pendingDeposit[k] = None /\ pendingWithdrawal[k] = None
      /\ pendingDeposit'[k] = None /\ pendingWithdrawal'[k] = w
  BY <1>1, <1>3 DEF Orderly
<1>6. Sane(vault') /\ Frees(vault', vault, WithdrawalTook(w))
  BY <1>1, <1>2, <1>3, DeployIs DEF WithdrawalTook
<1>7. \A j \in Keys : j # k => /\ pendingDeposit'[j] = pendingDeposit[j]
                              /\ pendingWithdrawal'[j] = pendingWithdrawal[j]
  BY <1>1, <1>3 DEF Orderly
<1>8. ASSUME NEW t \in Tokens
      PROVE  vault'.hlpLiquidityOnHold[t] = vault.hlpLiquidityOnHold[t]
               - TookBoth(pendingDeposit[k], pendingWithdrawal[k], t)
               + TookBoth(pendingDeposit'[k], pendingWithdrawal'[k], t)
  <2>1. vault'.hlpLiquidityOnHold[t] = vault.hlpLiquidityOnHold[t] + WithdrawalTook(w)[t]
    BY <1>6 DEF Frees
  <2>2. WithdrawalTook(w)[t] \in Nat BY <1>2 DEF WithdrawalTook, Some
  <2>3. TookBoth(None, None, t) = 0 /\ TookBoth(None, w, t) = WithdrawalTook(w)[t]
    BY <1>2, <2>2 DEF TookBoth
  <2>4. vault.hlpLiquidityOnHold[t] \in Nat BY <1>3, CoveredToken
  <2> QED BY <1>5, <2>1, <2>2, <2>3, <2>4
<1> QED BY <1>1, <1>4, <1>6, <1>7, <1>8, HoldsFollow

(* GMX delivers to a service that has no debts to anyone. *)
LEMMA DeliveredIs ==
  ASSUME Sane(vault), Orderly, NEW more \in PerToken
  PROVE  /\ Callback(Delivered(more)) /\ Underway(Delivered(more))
         /\ Delivered(more).v = vault
         /\ \A u \in Tokens : Delivered(more).held[u] = service[u] + more[u]
<1> DEFINE held == [t \in Tokens |-> service[t] + more[t]]
<1>1. held \in PerToken BY DEF Orderly, PerToken
<1>2. Delivered(more) = [v |-> vault, ok |-> TRUE, held |-> held] BY DEF Delivered
<1>3. \A u \in Tokens : held[u] = service[u] + more[u] OBVIOUS
<1> HIDE DEF held
<1> QED BY <1>1, <1>2, <1>3 DEF Callback, Underway

(* However GMX finishes a deposit, and whether the callback goes through or  *)
(* is undone, holds and orders stay in step.                                 *)
LEMMA DepositFinishes ==
  ASSUME RebalanceInv, NEW k \in Keys, pendingDeposit[k] # None,
         NEW outcome \in {"executed", "cancelled"}, NEW more \in PerToken,
         NEW sent, NEW after,
         Stage(Delivered(more), after, DepositTook(pendingDeposit[k]), sent),
         Finish(k, outcome, pendingDeposit, Delivered(more), after),
         pendingWithdrawal' = pendingWithdrawal
  PROVE  RebalanceInv'
<1> DEFINE d == pendingDeposit[k]
           start == Delivered(more)
<1>1. Orderly /\ Sane(vault) BY DEF RebalanceInv
<1>2. Underway(start) /\ start.v = vault /\ start.held \in PerToken
  BY <1>1, DeliveredIs DEF Underway
<1> HIDE DEF start
<1>3. gmx' = [gmx EXCEPT ![k] = outcome] /\ gmx[k] = "open" /\ outside' = outside
  BY DEF Finish
<1>4. CASE /\ after.ok
           /\ vault' = after.v /\ service' = after.held
           /\ pendingDeposit' = [pendingDeposit EXCEPT ![k] = None]
  <2>1. /\ Sane(vault') /\ Frees(vault, vault', DepositTook(d)) /\ service' \in PerToken
    BY <1>2, <1>4 DEF Stage, start
  <2>2. Orderly' BY <1>1, <1>3, <1>4, <2>1 DEF Orderly
  <2>3. \A j \in Keys : j # k => /\ pendingDeposit'[j] = pendingDeposit[j]
                                /\ pendingWithdrawal'[j] = pendingWithdrawal[j]
    BY <1>1, <1>4 DEF Orderly
  <2>4. /\ d \in Deposits /\ pendingWithdrawal[k] \in Withdrawals \cup {None}
        /\ pendingDeposit'[k] = None /\ pendingWithdrawal'[k] = pendingWithdrawal[k]
    BY <1>1, <1>4 DEF Orderly
  <2>5. ASSUME NEW t \in Tokens
        PROVE  vault'.hlpLiquidityOnHold[t] = vault.hlpLiquidityOnHold[t]
                 - TookBoth(d, pendingWithdrawal[k], t)
                 + TookBoth(pendingDeposit'[k], pendingWithdrawal'[k], t)
    <3>1. vault.hlpLiquidityOnHold[t] = vault'.hlpLiquidityOnHold[t] + DepositTook(d)[t]
      BY <2>1 DEF Frees
    <3>2. TookBoth(d, None, t) \in Nat /\ TookBoth(None, pendingWithdrawal[k], t) \in Nat
      BY <2>4, TookIs
    <3>3. vault'.hlpLiquidityOnHold[t] \in Nat BY <2>1, CoveredToken
    <3>4. d # None BY RebalanceAssumption
    <3>5. DepositTook(d)[t] \in Nat
      <4>1. /\ d.longToken \in Tokens /\ d.shortToken \in Tokens
            /\ d.longTokenAmount \in Nat /\ d.shortTokenAmount \in Nat
        BY <2>4, DepositIs
      <4>2. DepositTook(d) \in PerToken BY <4>1, SomeIs, BothIs DEF DepositTook
      <4> QED BY <4>2 DEF PerToken
    <3>6. pendingWithdrawal[k] # None => WithdrawalTook(pendingWithdrawal[k])[t] \in Nat
      <4> SUFFICES ASSUME pendingWithdrawal[k] # None
                   PROVE  WithdrawalTook(pendingWithdrawal[k])[t] \in Nat
        OBVIOUS
      <4>1. pendingWithdrawal[k] \in Withdrawals BY <2>4
      <4>2. /\ pendingWithdrawal[k].market \in Tokens /\ pendingWithdrawal[k].amount \in Nat
        BY <4>1, WithdrawalIs
      <4> QED BY <4>2 DEF WithdrawalTook, Some
    <3>7. TookBoth(d, pendingWithdrawal[k], t)
            = DepositTook(d)[t] + TookBoth(None, pendingWithdrawal[k], t)
      <4> HIDE DEF d
      <4> QED BY <3>4, <3>5, <3>6 DEF TookBoth
    <3> QED BY <2>4, <3>1, <3>2, <3>3, <3>5, <3>7
  <2> QED BY <1>3, <2>1, <2>2, <2>3, <2>5, HoldsFollow
<1>5. CASE /\ OutOfGas \/ ~ after.ok
           /\ service' = start.held
           /\ vault' = vault /\ pendingDeposit' = pendingDeposit
  <2>1. Orderly' BY <1>1, <1>2, <1>3, <1>5 DEF Orderly
  <2>2. ASSUME NEW t \in Tokens PROVE OnOrder(t)' = OnOrder(t)
    BY <1>5 DEF OnOrder, TakenBy
  <2> QED BY <1>1, <1>3, <1>5, <2>1, <2>2 DEF RebalanceInv, HeldExactly, HoldsAccounted
<1> QED BY <1>4, <1>5 DEF Finish, start

(* And however it finishes a withdrawal. *)
LEMMA WithdrawalFinishes ==
  ASSUME RebalanceInv, NEW k \in Keys, pendingWithdrawal[k] # None,
         NEW outcome \in {"executed", "cancelled"}, NEW more \in PerToken,
         NEW sent, NEW after,
         Stage(Delivered(more), after, WithdrawalTook(pendingWithdrawal[k]), sent),
         Finish(k, outcome, pendingWithdrawal, Delivered(more), after),
         pendingDeposit' = pendingDeposit
  PROVE  RebalanceInv'
<1> DEFINE w == pendingWithdrawal[k]
           start == Delivered(more)
<1>1. Orderly /\ Sane(vault) BY DEF RebalanceInv
<1>2. Underway(start) /\ start.v = vault /\ start.held \in PerToken
  BY <1>1, DeliveredIs DEF Underway
<1> HIDE DEF start
<1>3. gmx' = [gmx EXCEPT ![k] = outcome] /\ gmx[k] = "open" /\ outside' = outside
  BY DEF Finish
<1>4. CASE /\ after.ok
           /\ vault' = after.v /\ service' = after.held
           /\ pendingWithdrawal' = [pendingWithdrawal EXCEPT ![k] = None]
  <2>1. /\ Sane(vault') /\ Frees(vault, vault', WithdrawalTook(w)) /\ service' \in PerToken
    BY <1>2, <1>4 DEF Stage, start
  <2>2. Orderly' BY <1>1, <1>3, <1>4, <2>1 DEF Orderly
  <2>3. \A j \in Keys : j # k => /\ pendingDeposit'[j] = pendingDeposit[j]
                                /\ pendingWithdrawal'[j] = pendingWithdrawal[j]
    BY <1>1, <1>4 DEF Orderly
  <2>4. /\ w \in Withdrawals /\ pendingDeposit[k] \in Deposits \cup {None}
        /\ pendingWithdrawal'[k] = None /\ pendingDeposit'[k] = pendingDeposit[k]
    BY <1>1, <1>4 DEF Orderly
  <2>5. ASSUME NEW t \in Tokens
        PROVE  vault'.hlpLiquidityOnHold[t] = vault.hlpLiquidityOnHold[t]
                 - TookBoth(pendingDeposit[k], w, t)
                 + TookBoth(pendingDeposit'[k], pendingWithdrawal'[k], t)
    <3>1. vault.hlpLiquidityOnHold[t] = vault'.hlpLiquidityOnHold[t] + WithdrawalTook(w)[t]
      BY <2>1 DEF Frees
    <3>2. TookBoth(pendingDeposit[k], None, t) \in Nat BY <2>4, TookIs
    <3>3. vault'.hlpLiquidityOnHold[t] \in Nat BY <2>1, CoveredToken
    <3>4. w # None BY RebalanceAssumption
    <3>5. WithdrawalTook(w)[t] \in Nat
      <4>1. w.market \in Tokens /\ w.amount \in Nat BY <2>4, WithdrawalIs
      <4> QED BY <4>1 DEF WithdrawalTook, Some
    <3>6. pendingDeposit[k] # None => DepositTook(pendingDeposit[k])[t] \in Nat
      <4> SUFFICES ASSUME pendingDeposit[k] # None
                   PROVE  DepositTook(pendingDeposit[k])[t] \in Nat
        OBVIOUS
      <4>1. pendingDeposit[k] \in Deposits BY <2>4
      <4>2. /\ pendingDeposit[k].longToken \in Tokens
            /\ pendingDeposit[k].shortToken \in Tokens
            /\ pendingDeposit[k].longTokenAmount \in Nat
            /\ pendingDeposit[k].shortTokenAmount \in Nat
        BY <4>1, DepositIs
      <4>3. DepositTook(pendingDeposit[k]) \in PerToken
        BY <4>2, SomeIs, BothIs DEF DepositTook
      <4> QED BY <4>3 DEF PerToken
    <3>7. TookBoth(pendingDeposit[k], w, t)
            = TookBoth(pendingDeposit[k], None, t) + WithdrawalTook(w)[t]
      <4> HIDE DEF w
      <4> QED BY <3>4, <3>5, <3>6 DEF TookBoth
    <3> QED BY <2>4, <3>1, <3>2, <3>3, <3>5, <3>7
  <2> QED BY <1>3, <2>1, <2>2, <2>3, <2>5, HoldsFollow
<1>5. CASE /\ OutOfGas \/ ~ after.ok
           /\ service' = start.held
           /\ vault' = vault /\ pendingWithdrawal' = pendingWithdrawal
  <2>1. Orderly' BY <1>1, <1>2, <1>3, <1>5 DEF Orderly
  <2>2. ASSUME NEW t \in Tokens PROVE OnOrder(t)' = OnOrder(t)
    BY <1>5 DEF OnOrder, TakenBy
  <2> QED BY <1>1, <1>3, <1>5, <2>1, <2>2 DEF RebalanceInv, HeldExactly, HoldsAccounted
<1> QED BY <1>4, <1>5 DEF Finish, start

(* What it takes for every callback to go through: callbacks have the gas    *)
(* they need, a deposit of shortToken is one of longToken (which is what its *)
(* cancellation sends back), and the external rebalancer's executors leave   *)
(* the tokens of orders alone.                                               *)
Undisturbed ==
  /\ ~ OutOfGas
  /\ \A d \in Deposits :
        /\ d.shortTokenAmount > 0 => d.shortToken = d.longToken
        /\ d.longToken \notin Removable /\ d.shortToken \notin Removable
  /\ \A w \in Withdrawals : w.market \notin Removable

(* Some deposit, or withdrawal, of key k is finished. *)
DepositFinish(k, outcome, more, sent, after) ==
  /\ pendingDeposit[k] # None /\ pendingWithdrawal' = pendingWithdrawal
  /\ Stage(Delivered(more), after, DepositTook(pendingDeposit[k]), sent)
  /\ Finish(k, outcome, pendingDeposit, Delivered(more), after)

WithdrawalFinish(k, outcome, more, sent, after) ==
  /\ pendingWithdrawal[k] # None /\ pendingDeposit' = pendingDeposit
  /\ Stage(Delivered(more), after, WithdrawalTook(pendingWithdrawal[k]), sent)
  /\ Finish(k, outcome, pendingWithdrawal, Delivered(more), after)

(* Each of GMX's four answers is such a finish, and sends just what was      *)
(* delivered if nothing disturbs it.                                         *)
LEMMA FinishesIs ==
  ASSUME RebalanceInv, NEW k \in Keys, Finishes(k)
  PROVE  \E outcome \in {"executed", "cancelled"}, more \in PerToken : \E sent, after :
            /\ Undisturbed => \A u \in Tokens : sent[u] = more[u]
            /\ \/ DepositFinish(k, outcome, more, sent, after)
               \/ WithdrawalFinish(k, outcome, more, sent, after)
<1>1. Orderly /\ Sane(vault) BY DEF RebalanceInv
<1>2. /\ pendingDeposit[k] \in Deposits \cup {None}
      /\ pendingWithdrawal[k] \in Withdrawals \cup {None}
  BY <1>1 DEF Orderly
<1>3. CASE ExecuteDeposit(k)
  <2> DEFINE d == pendingDeposit[k]
  <2>1. d \in Deposits /\ d # None BY <1>2, <1>3 DEF ExecuteDeposit
  <2>2. PICK gms \in Received \ {0} :
          Finish(k, "executed", pendingDeposit, Delivered(Some(d.market, gms)),
                 AfterDepositExecution(Delivered(Some(d.market, gms)), d, gms))
    BY <1>3 DEF ExecuteDeposit
  <2>3. gms \in Nat /\ gms > 0 BY RebalanceAssumption
  <2>4. Some(d.market, gms) \in PerToken BY <2>1, <2>3, DepositIs, SomeIs
  <2>5. Callback(Delivered(Some(d.market, gms))) BY <1>1, <2>4, DeliveredIs
  <2>6. Stage(Delivered(Some(d.market, gms)),
              AfterDepositExecution(Delivered(Some(d.market, gms)), d, gms),
              DepositTook(d), Some(d.market, gms))
    <3> HIDE DEF d
    <3> QED BY <2>1, <2>3, <2>5, DepositExecuted
  <2>7. pendingWithdrawal' = pendingWithdrawal BY <1>3 DEF ExecuteDeposit
  <2> DEFINE more == Some(d.market, gms)
             after == AfterDepositExecution(Delivered(more), d, gms)
  <2>8. DepositFinish(k, "executed", more, more, after)
    BY <2>1, <2>2, <2>6, <2>7 DEF DepositFinish
  <2> HIDE DEF d, more, after
  <2> QED BY <2>4, <2>8 DEF more
<1>4. CASE CancelDeposit(k)
  <2> DEFINE d == pendingDeposit[k]
             more == Both(Some(d.longToken, d.longTokenAmount),
                          Some(d.shortToken, d.shortTokenAmount))
             wrong == Both(Some(d.longToken, d.longTokenAmount),
                           Some(d.longToken, d.shortTokenAmount))
  <2>1. d \in Deposits /\ d # None BY <1>2, <1>4 DEF CancelDeposit
  <2>2. Finish(k, "cancelled", pendingDeposit, Delivered(more),
               AfterDepositCancellation(Delivered(more), d))
    BY <1>4 DEF CancelDeposit
  <2>3. more \in PerToken BY <2>1, DepositIs, SomeIs, BothIs
  <2> HIDE DEF more
  <2>4. Callback(Delivered(more)) BY <1>1, <2>3, DeliveredIs
  <2>5. Stage(Delivered(more), AfterDepositCancellation(Delivered(more), d),
              DepositTook(d), wrong)
    <3> HIDE DEF d
    <3> QED BY <2>1, <2>4, DepositCancelled
  <2>6. pendingWithdrawal' = pendingWithdrawal BY <1>4 DEF CancelDeposit
  <2> DEFINE after == AfterDepositCancellation(Delivered(more), d)
  <2>7. DepositFinish(k, "cancelled", more, wrong, after)
    BY <2>1, <2>2, <2>5, <2>6 DEF DepositFinish
  <2>8. Undisturbed => \A u \in Tokens : wrong[u] = more[u]
    <3> SUFFICES ASSUME Undisturbed, NEW u \in Tokens PROVE wrong[u] = more[u]
      OBVIOUS
    <3> HIDE DEF d
    <3>1. /\ d.longToken \in Tokens /\ d.shortToken \in Tokens
          /\ d.longTokenAmount \in Nat /\ d.shortTokenAmount \in Nat
      BY <2>1, DepositIs
    <3>2. d.shortTokenAmount > 0 => d.shortToken = d.longToken BY <2>1 DEF Undisturbed
    <3>3. Some(d.longToken, d.shortTokenAmount)[u] = Some(d.shortToken, d.shortTokenAmount)[u]
      BY <3>1, <3>2, SomeIs
    <3> QED BY <3>3 DEF Both, more, wrong
  <2> HIDE DEF wrong, d, after
  <2> QED BY <2>3, <2>7, <2>8
<1>5. CASE ExecuteWithdrawal(k)
  <2> DEFINE w == pendingWithdrawal[k]
             more(m, n) == Both(Some(w.longToken, m), Some(w.shortToken, n))
  <2>1. w \in Withdrawals /\ w # None BY <1>2, <1>5 DEF ExecuteWithdrawal
  <2>2. PICK m \in Received, n \in Received :
          Finish(k, "executed", pendingWithdrawal, Delivered(more(m, n)),
                 AfterWithdrawalExecution(Delivered(more(m, n)), w, m, n))
    BY <1>5 DEF ExecuteWithdrawal
  <2>3. m \in Nat /\ n \in Nat BY RebalanceAssumption
  <2>4. more(m, n) \in PerToken BY <2>1, <2>3, WithdrawalIs, SomeIs, BothIs
  <2>5. Callback(Delivered(more(m, n))) BY <1>1, <2>4, DeliveredIs
  <2>6. Stage(Delivered(more(m, n)), AfterWithdrawalExecution(Delivered(more(m, n)), w, m, n),
              WithdrawalTook(w), more(m, n))
    <3> HIDE DEF w
    <3> QED BY <2>1, <2>3, <2>5, WithdrawalExecuted
  <2>7. pendingDeposit' = pendingDeposit BY <1>5 DEF ExecuteWithdrawal
  <2> DEFINE got == more(m, n)
             after == AfterWithdrawalExecution(Delivered(got), w, m, n)
  <2>8. WithdrawalFinish(k, "executed", got, got, after)
    BY <2>1, <2>2, <2>6, <2>7 DEF WithdrawalFinish
  <2> HIDE DEF w, got, after
  <2> QED BY <2>4, <2>8 DEF got
<1>6. CASE CancelWithdrawal(k)
  <2> DEFINE w == pendingWithdrawal[k]
             more == Some(w.market, w.amount)
  <2>1. w \in Withdrawals /\ w # None BY <1>2, <1>6 DEF CancelWithdrawal
  <2>2. Finish(k, "cancelled", pendingWithdrawal, Delivered(more),
               AfterWithdrawalCancellation(Delivered(more), w))
    BY <1>6 DEF CancelWithdrawal
  <2>3. more \in PerToken BY <2>1, WithdrawalIs, SomeIs
  <2>4. Callback(Delivered(more)) BY <1>1, <2>3, DeliveredIs
  <2>5. Stage(Delivered(more), AfterWithdrawalCancellation(Delivered(more), w),
              WithdrawalTook(w), more)
    <3> HIDE DEF w
    <3> QED BY <2>1, <2>4, WithdrawalCancelled
  <2>6. pendingDeposit' = pendingDeposit BY <1>6 DEF CancelWithdrawal
  <2> DEFINE after == AfterWithdrawalCancellation(Delivered(more), w)
  <2>7. WithdrawalFinish(k, "cancelled", more, more, after)
    BY <2>1, <2>2, <2>5, <2>6 DEF WithdrawalFinish
  <2> HIDE DEF w, more, after
  <2> QED BY <2>3, <2>7
<1> QED BY <1>3, <1>4, <1>5, <1>6 DEF Finishes

(* So GMX's answers keep the invariant. *)
LEMMA FinishesKeep ==
  ASSUME RebalanceInv, NEW k \in Keys, Finishes(k)
  PROVE  RebalanceInv'
<1>1. PICK outcome \in {"executed", "cancelled"}, more \in PerToken :
        \E sent, after : \/ DepositFinish(k, outcome, more, sent, after)
                         \/ WithdrawalFinish(k, outcome, more, sent, after)
  BY FinishesIs
<1>2. PICK sent, after : \/ DepositFinish(k, outcome, more, sent, after)
                         \/ WithdrawalFinish(k, outcome, more, sent, after)
  BY <1>1
<1>3. CASE DepositFinish(k, outcome, more, sent, after)
  BY <1>3, DepositFinishes DEF DepositFinish
<1>4. CASE WithdrawalFinish(k, outcome, more, sent, after)
  BY <1>4, WithdrawalFinishes DEF WithdrawalFinish
<1> QED BY <1>2, <1>3, <1>4

(* A rebalance that begins puts on hold what goes outside. *)
LEMMA StartKeeps ==
  ASSUME RebalanceInv, NEW t \in Removable, NEW n \in Nat, StartRebalance(t, n)
  PROVE  RebalanceInv'
<1>1. /\ CanDeploy(vault, t, n) /\ vault' = Deploy(vault, t, n)
      /\ outside' = [outside EXCEPT ![t] = @ + n]
      /\ pendingDeposit' = pendingDeposit /\ pendingWithdrawal' = pendingWithdrawal
      /\ gmx' = gmx /\ service' = service
  BY DEF StartRebalance, orders
<1>2. Orderly /\ Sane(vault) /\ t \in Tokens BY RebalanceAssumption DEF RebalanceInv
<1>3. Sane(vault') /\ Frees(vault', vault, Some(t, n)) BY <1>1, <1>2, DeployIs
<1>4. Orderly' BY <1>1, <1>2 DEF Orderly, PerToken
<1>5. ASSUME NEW u \in Tokens
      PROVE  /\ u \notin Removable => vault'.hlpLiquidityOnHold[u] = OnOrder(u)'
             /\ vault'.hlpLiquidityOnHold[u] <= OnOrder(u)' + outside'[u]
  <2>1. OnOrder(u)' = OnOrder(u) BY <1>1 DEF OnOrder, TakenBy
  <2>2. vault'.hlpLiquidityOnHold[u] =
          vault.hlpLiquidityOnHold[u] + (IF u = t THEN n ELSE 0)
    BY <1>3 DEF Frees, Some
  <2>3. outside'[u] = outside[u] + (IF u = t THEN n ELSE 0) /\ outside[u] \in Nat
    BY <1>1, <1>2 DEF Orderly, PerToken
  <2>4. /\ u \notin Removable => vault.hlpLiquidityOnHold[u] = OnOrder(u)
        /\ vault.hlpLiquidityOnHold[u] <= OnOrder(u) + outside[u]
    BY DEF RebalanceInv, HeldExactly, HoldsAccounted
  <2>5. OnOrder(u) \in Nat /\ vault.hlpLiquidityOnHold[u] \in Nat
    BY <1>2, OnOrderNat, CoveredToken
  <2> QED BY <2>1, <2>2, <2>3, <2>4, <2>5
<1> QED BY <1>3, <1>4, <1>5 DEF RebalanceInv, HeldExactly, HoldsAccounted

(* One that is completed clears all that is on hold and all that is outside. *)
LEMMA CompleteKeeps ==
  ASSUME RebalanceInv, NEW t \in Removable, NEW u \in Tokens, NEW n \in Nat,
         CompleteRebalance(t, u, n)
  PROVE  RebalanceInv'
<1> DEFINE onHold == vault.hlpLiquidityOnHold[t]
           x == ClearOnHold(vault, t, onHold)
           y == Receive(x, u, n)
<1>1. /\ CanClearOnHold(vault, t, onHold)
      /\ vault' = AddHLPLiquidity(PullToken(y, u), u, n)
      /\ outside' = [outside EXCEPT ![t] = 0]
      /\ pendingDeposit' = pendingDeposit /\ pendingWithdrawal' = pendingWithdrawal
      /\ gmx' = gmx /\ service' = service
  BY DEF CompleteRebalance, orders, Becomes
<1>2. Orderly /\ Sane(vault) /\ t \in Tokens BY RebalanceAssumption DEF RebalanceInv
<1>3. onHold \in Nat BY <1>2, CoveredToken
<1>4. Sane(x) /\ Frees(vault, x, Some(t, onHold)) BY <1>1, <1>2, <1>3, ClearOnHoldIs
<1> HIDE DEF x
<1>5. Sane(y) /\ y.hlpLiquidityOnHold = x.hlpLiquidityOnHold /\ n <= PullDelta(y, u)
  BY <1>4, ReceiveSane
<1> HIDE DEF y
<1>6. Sane(vault') /\ vault'.hlpLiquidityOnHold = y.hlpLiquidityOnHold
  BY <1>1, <1>5, BookSane
<1>7. Orderly' BY <1>1, <1>2 DEF Orderly, PerToken
<1>8. ASSUME NEW q \in Tokens
      PROVE  /\ q \notin Removable => vault'.hlpLiquidityOnHold[q] = OnOrder(q)'
             /\ vault'.hlpLiquidityOnHold[q] <= OnOrder(q)' + outside'[q]
  <2>1. OnOrder(q)' = OnOrder(q) BY <1>1 DEF OnOrder, TakenBy
  <2>2. vault.hlpLiquidityOnHold[q] =
          vault'.hlpLiquidityOnHold[q] + (IF q = t THEN onHold ELSE 0)
    BY <1>4, <1>5, <1>6 DEF Frees, Some
  <2>3. /\ OnOrder(q) \in Nat /\ vault.hlpLiquidityOnHold[q] \in Nat
        /\ vault'.hlpLiquidityOnHold[q] \in Nat
    BY <1>2, <1>6, OnOrderNat, CoveredToken
  <2>4. outside'[q] = (IF q = t THEN 0 ELSE outside[q]) /\ outside[q] \in Nat
    BY <1>1, <1>2 DEF Orderly, PerToken
  <2>5. /\ q \notin Removable => vault.hlpLiquidityOnHold[q] = OnOrder(q)
        /\ vault.hlpLiquidityOnHold[q] <= OnOrder(q) + outside[q]
    BY DEF RebalanceInv, HeldExactly, HoldsAccounted
  <2>6. CASE q = t BY <2>1, <2>2, <2>3, <2>4, <2>6
  <2>7. CASE q # t
    <3> HIDE DEF onHold
    <3> QED BY <2>1, <2>2, <2>3, <2>4, <2>5, <2>7
  <2> QED BY <2>6, <2>7
<1> QED BY <1>6, <1>7, <1>8 DEF RebalanceInv, HeldExactly, HoldsAccounted

(* A swap leaves what is on hold alone. *)
LEMMA SwapKeeps ==
  ASSUME RebalanceInv, NEW t \in Tokens, NEW u \in Tokens, NEW m \in Nat, NEW n \in Nat,
         Swap(t, u, m, n)
  PROVE  RebalanceInv'
<1> DEFINE x == PushToken(RemoveHLPLiquidity(vault, t, m), t, m)
           y == Receive(x, u, n)
<1>1. /\ CanRemoveHLPLiquidity(vault, t, m) /\ CanPush(vault, t, m)
      /\ vault' = AddHLPLiquidity(PullToken(y, u), u, n)
      /\ UNCHANGED <<orders, outside>>
  BY DEF Swap, Becomes
<1>2. Sane(vault) BY DEF RebalanceInv
<1>3. Sane(x) /\ x.hlpLiquidityOnHold = vault.hlpLiquidityOnHold
  BY <1>1, <1>2, PaidOutSane
<1> HIDE DEF x
<1>4. Sane(y) /\ y.hlpLiquidityOnHold = x.hlpLiquidityOnHold /\ n <= PullDelta(y, u)
  BY <1>3, ReceiveSane
<1> HIDE DEF y
<1>5. Sane(vault') /\ vault'.hlpLiquidityOnHold = y.hlpLiquidityOnHold
  BY <1>1, <1>4, BookSane
<1> QED BY <1>1, <1>3, <1>4, <1>5, PoolKeeps

-----------------------------------------------------------------------------
(* The theorems. *)

LEMMA RebalanceInitInv ==
  ASSUME RebalanceInit
  PROVE  RebalanceInv
<1>1. VaultInit /\ vault = EmptyVault BY DEF RebalanceInit, VaultInit
<1>2. Sane(vault) BY <1>1, InitInv DEF LedgerInv, Sane
<1>3. Orderly BY DEF RebalanceInit, Orderly, Zero, PerToken
<1>4. ASSUME NEW t \in Tokens PROVE OnOrder(t) = 0
  <2>1. [k \in Keys |-> TakenBy(k, t)] = [k \in Keys |-> 0]
    BY DEF RebalanceInit, TakenBy
  <2>2. IsFiniteSet(Keys) BY RebalanceAssumption
  <2> QED BY <2>1, <2>2, SumZero DEF OnOrder
<1>5. \A t \in Tokens : vault.hlpLiquidityOnHold[t] = 0 /\ outside[t] = 0
  BY <1>1 DEF RebalanceInit, EmptyVault, Zero
<1> QED BY <1>2, <1>3, <1>4, <1>5 DEF RebalanceInv, HeldExactly, HoldsAccounted

LEMMA RebalanceStepKeeps ==
  ASSUME RebalanceInv, RebalanceNext
  PROVE  RebalanceInv'
<1>1. Sane(vault) BY DEF RebalanceInv
<1>2. \A amount \in Amounts : amount \in Nat BY LedgerAssumption DEF Amounts
<1>3. CASE PoolStep /\ UNCHANGED <<orders, outside>>
  BY <1>1, <1>3, PoolHolds, PoolKeeps
<1>4. CASE OrderStep
  BY <1>4, CreateDepositKeeps, CreateWithdrawalKeeps DEF OrderStep
<1>5. CASE \E k \in Keys : Finishes(k)
  BY <1>5, FinishesKeep
<1>6. CASE RebalancerStep
  BY <1>2, <1>6, StartKeeps, CompleteKeeps DEF RebalancerStep
<1>7. CASE SwapStep
  BY <1>2, <1>7, SwapKeeps DEF SwapStep
<1> QED BY <1>3, <1>4, <1>5, <1>6, <1>7 DEF RebalanceNext

(* The invariant is inductive. *)
THEOREM RebalanceInvariance == RebalanceSpec => []RebalanceInv
<1>1. RebalanceInit => RebalanceInv BY RebalanceInitInv
<1>2. RebalanceInv /\ [RebalanceNext]_rebalanceVars => RebalanceInv'
  <2> SUFFICES ASSUME RebalanceInv, [RebalanceNext]_rebalanceVars PROVE RebalanceInv'
    OBVIOUS
  <2>1. CASE RebalanceNext BY <2>1, RebalanceStepKeeps
  <2>2. CASE UNCHANGED rebalanceVars
    <3>1. vault' = vault /\ UNCHANGED <<orders, outside>> BY <2>2 DEF rebalanceVars
    <3> QED BY <3>1, PoolKeeps DEF RebalanceInv
  <2> QED BY <2>1, <2>2
<1> QED BY <1>1, <1>2, PTL DEF RebalanceSpec

(* No subtraction of the vault or of the service ever underflows.            *)
THEOREM RebalanceTypeCorrect == RebalanceSpec => []RebalanceTypeOK
<1>1. RebalanceInv => RebalanceTypeOK
  BY DEF RebalanceInv, Sane, Good, Orderly, RebalanceTypeOK, TypeOK
<1> QED BY <1>1, RebalanceInvariance, PTL

(* Also with the pool's tokens travelling, and whatever callbacks revert,    *)
(* the vault holds what its books say it owes.                               *)
THEOREM RebalanceSolvent == RebalanceSpec => []BooksCovered
<1>1. RebalanceInv => BooksCovered BY DEF RebalanceInv, Sane, BooksCovered
<1> QED BY <1>1, RebalanceInvariance, PTL

(* In the tokens the external rebalancer leaves alone, what is on hold is    *)
(* exactly what pending orders took.                                         *)
THEOREM HoldsExact == RebalanceSpec => []HeldExactly
<1>1. RebalanceInv => HeldExactly BY DEF RebalanceInv
<1> QED BY <1>1, RebalanceInvariance, PTL

(* A pending order is one GMX still has or one whose callback failed.        *)
LEMMA OnOrderSplits ==
  ASSUME Orderly, NEW t \in Tokens
  PROVE  OnOrder(t) = InFlight(t) + Stranded(t)
<1> DEFINE h == [k \in Keys |-> TakenBy(k, t)]
           f == [k \in Keys |-> IF gmx[k] = "open" THEN TakenBy(k, t) ELSE 0]
           g == [k \in Keys |-> IF gmx[k] = "open" THEN 0 ELSE TakenBy(k, t)]
<1>1. \A k \in Keys : TakenBy(k, t) \in Int BY OnOrderNat
<1>2. f \in [Keys -> Int] /\ g \in [Keys -> Int] /\ h \in [Keys -> Int] BY <1>1
<1>3. \A k \in Keys : h[k] = f[k] + 1 * g[k] BY <1>1
<1>4. OnOrder(t) = SumOver(Keys, h) BY DEF OnOrder
<1>5. InFlight(t) = SumOver(Keys, f) BY DEF InFlight
<1>6. Stranded(t) = SumOver(Keys, g) BY DEF Stranded
<1>7. IsFiniteSet(Keys) /\ 1 \in Int BY RebalanceAssumption
<1> HIDE DEF f, g, h
<1>8. SumOver(Keys, h) = SumOver(Keys, f) + 1 * SumOver(Keys, g)
  BY ONLY <1>2, <1>3, <1>7, SumScaled
<1>9. SumOver(Keys, g) \in Int BY <1>2, <1>7, SumInt
<1> QED BY <1>4, <1>5, <1>6, <1>8, <1>9

(* In all tokens, what is on hold traces back to an order GMX still has, to  *)
(* a rebalance that is out or to a callback that failed, however the two     *)
(* protocols interleave.                                                     *)
THEOREM HoldsAreTraced == RebalanceSpec => []HoldsTraced
<1>1. RebalanceInv => HoldsTraced
  BY OnOrderSplits DEF RebalanceInv, HoldsAccounted, HoldsTraced
<1> QED BY <1>1, RebalanceInvariance, PTL

-----------------------------------------------------------------------------
(* When GMX and the service are settled after every transaction. *)

(* Enough is on hold for every pending order to be freed.                    *)
LEMMA EnoughOnHold ==
  ASSUME RebalanceInv, Undisturbed, NEW k \in Keys, NEW t \in Tokens
  PROVE  TookBoth(pendingDeposit[k], pendingWithdrawal[k], t) <= vault.hlpLiquidityOnHold[t]
<1> DEFINE d == pendingDeposit[k]
           w == pendingWithdrawal[k]
<1>1. Orderly /\ Sane(vault) BY DEF RebalanceInv
<1>2. d \in Deposits \cup {None} /\ w \in Withdrawals \cup {None} BY <1>1 DEF Orderly
<1>3. vault.hlpLiquidityOnHold[t] \in Nat BY <1>1, CoveredToken
<1>4. CASE t \in Removable
  <2>1. /\ d # None => d.longToken # t /\ d.shortToken # t
        /\ w # None => w.market # t
    BY <1>2, <1>4 DEF Undisturbed
  <2> HIDE DEF d, w
  <2>2. TookBoth(d, w, t) = 0 BY <1>2, <2>1, TookIs
  <2> QED BY <1>3, <2>2 DEF d, w
<1>5. CASE t \notin Removable
  <2>1. /\ TakenBy(k, t) <= OnOrder(t) /\ TakenBy(k, t) = TookBoth(d, w, t)
    BY <1>1, OnOrderNat
  <2>2. vault.hlpLiquidityOnHold[t] = OnOrder(t) BY <1>5 DEF RebalanceInv, HeldExactly
  <2> QED BY <2>1, <2>2
<1> QED BY <1>4, <1>5

(* A callback that has to send just what was delivered goes through, and     *)
(* leaves nothing in the service.                                            *)
LEMMA GoesThrough ==
  ASSUME RebalanceInv, service = Zero, NEW more \in PerToken, NEW after,
         NEW freed, NEW sent, Stage(Delivered(more), after, freed, sent),
         \A u \in Tokens : freed[u] <= vault.hlpLiquidityOnHold[u] /\ sent[u] = more[u]
  PROVE  after.ok /\ after.held = Zero
<1> DEFINE start == Delivered(more)
<1>1. Orderly /\ Sane(vault) BY DEF RebalanceInv
<1>2. /\ Underway(start) /\ start.v = vault
      /\ \A u \in Tokens : start.held[u] = service[u] + more[u]
  BY <1>1, DeliveredIs
<1>3. \A u \in Tokens : more[u] \in Nat /\ service[u] = 0 BY DEF PerToken, Zero
<1> HIDE DEF start
<1>4. \A u \in Tokens : sent[u] = start.held[u] BY <1>2, <1>3
<1>5. after.ok
  <2>1. \A u \in Tokens : sent[u] <= start.held[u] BY <1>2, <1>3, <1>4
  <2> QED BY <1>2, <2>1 DEF Stage, start
<1>6. after.held \in PerToken /\ \A u \in Tokens : start.held[u] = after.held[u] + sent[u]
  BY <1>2, <1>5 DEF Stage, start
<1>7. \A u \in Tokens : after.held[u] = 0 BY <1>2, <1>3, <1>4, <1>6 DEF PerToken
<1> QED BY <1>5, <1>6, <1>7 DEF PerToken, Zero

(* So a deposit GMX finishes is settled. *)
LEMMA DepositSettles ==
  ASSUME RebalanceInv, SettledWithGmx, Undisturbed, NEW k \in Keys,
         pendingDeposit[k] # None, NEW outcome \in {"executed", "cancelled"},
         NEW more \in PerToken, NEW sent, NEW after,
         Stage(Delivered(more), after, DepositTook(pendingDeposit[k]), sent),
         \A u \in Tokens : sent[u] = more[u],
         Finish(k, outcome, pendingDeposit, Delivered(more), after),
         pendingWithdrawal' = pendingWithdrawal
  PROVE  SettledWithGmx'
<1>1. Orderly /\ service = Zero BY DEF RebalanceInv, SettledWithGmx
<1>2. pendingWithdrawal[k] = None BY <1>1 DEF Orderly
<1>3. \A u \in Tokens : DepositTook(pendingDeposit[k])[u] <= vault.hlpLiquidityOnHold[u]
  <2> TAKE u \in Tokens
  <2>1. pendingDeposit[k] \in Deposits BY <1>1 DEF Orderly
  <2>2. DepositTook(pendingDeposit[k]) \in PerToken
    BY <2>1, DepositIs, SomeIs, BothIs DEF DepositTook
  <2>3. DepositTook(pendingDeposit[k])[u] \in Nat BY <2>2 DEF PerToken
  <2>4. TookBoth(pendingDeposit[k], None, u) = DepositTook(pendingDeposit[k])[u]
    BY <2>3 DEF TookBoth
  <2> QED BY <1>2, <2>4, EnoughOnHold
<1>4. after.ok /\ after.held = Zero BY <1>1, <1>3, GoesThrough
<1>5. /\ service' = Zero /\ gmx' = [gmx EXCEPT ![k] = outcome]
      /\ pendingDeposit' = [pendingDeposit EXCEPT ![k] = None]
  BY <1>4 DEF Finish, Undisturbed
<1> QED BY <1>1, <1>2, <1>5 DEF SettledWithGmx, Orderly

(* And a withdrawal. *)
LEMMA WithdrawalSettles ==
  ASSUME RebalanceInv, SettledWithGmx, Undisturbed, NEW k \in Keys,
         pendingWithdrawal[k] # None, NEW outcome \in {"executed", "cancelled"},
         NEW more \in PerToken, NEW sent, NEW after,
         Stage(Delivered(more), after, WithdrawalTook(pendingWithdrawal[k]), sent),
         \A u \in Tokens : sent[u] = more[u],
         Finish(k, outcome, pendingWithdrawal, Delivered(more), after),
         pendingDeposit' = pendingDeposit
  PROVE  SettledWithGmx'
<1>1. Orderly /\ service = Zero BY DEF RebalanceInv, SettledWithGmx
<1>2. pendingDeposit[k] = None BY <1>1 DEF Orderly
<1>3. \A u \in Tokens : WithdrawalTook(pendingWithdrawal[k])[u] <= vault.hlpLiquidityOnHold[u]
  <2> TAKE u \in Tokens
  <2>1. pendingWithdrawal[k] \in Withdrawals BY <1>1 DEF Orderly
  <2>2. WithdrawalTook(pendingWithdrawal[k])[u] \in Nat
    BY <2>1, WithdrawalIs DEF WithdrawalTook, Some
  <2>3. TookBoth(None, pendingWithdrawal[k], u) = WithdrawalTook(pendingWithdrawal[k])[u]
    BY <2>2 DEF TookBoth
  <2> QED BY <1>2, <2>3, EnoughOnHold
<1>4. after.ok /\ after.held = Zero BY <1>1, <1>3, GoesThrough
<1>5. /\ service' = Zero /\ gmx' = [gmx EXCEPT ![k] = outcome]
      /\ pendingWithdrawal' = [pendingWithdrawal EXCEPT ![k] = None]
  BY <1>4 DEF Finish, Undisturbed
<1> QED BY <1>1, <1>2, <1>5 DEF SettledWithGmx, Orderly

(* So every answer of GMX's does. *)
LEMMA FinishesSettle ==
  ASSUME RebalanceInv, SettledWithGmx, Undisturbed, NEW k \in Keys, Finishes(k)
  PROVE  SettledWithGmx'
<1>1. PICK outcome \in {"executed", "cancelled"}, more \in PerToken :
        \E sent, after :
           /\ \A u \in Tokens : sent[u] = more[u]
           /\ \/ DepositFinish(k, outcome, more, sent, after)
              \/ WithdrawalFinish(k, outcome, more, sent, after)
  BY FinishesIs
<1>2. PICK sent, after :
        /\ \A u \in Tokens : sent[u] = more[u]
        /\ \/ DepositFinish(k, outcome, more, sent, after)
           \/ WithdrawalFinish(k, outcome, more, sent, after)
  BY <1>1
<1>3. CASE DepositFinish(k, outcome, more, sent, after)
  BY <1>2, <1>3, DepositSettles DEF DepositFinish
<1>4. CASE WithdrawalFinish(k, outcome, more, sent, after)
  BY <1>2, <1>4, WithdrawalSettles DEF WithdrawalFinish
<1> QED BY <1>2, <1>3, <1>4

(* No step leaves the service with a token, or an order pending that GMX has *)
(* finished.                                                                 *)
LEMMA StepSettles ==
  ASSUME RebalanceInv, SettledWithGmx, Undisturbed, RebalanceNext
  PROVE  SettledWithGmx'
<1>1. Orderly /\ service = Zero BY DEF RebalanceInv, SettledWithGmx
<1>2. ASSUME UNCHANGED orders PROVE SettledWithGmx'
  BY <1>2 DEF orders, SettledWithGmx
<1>3. CASE PoolStep /\ UNCHANGED <<orders, outside>> BY <1>2, <1>3
<1>4. ASSUME NEW k \in Keys, NEW d \in Deposits, CreateDepositOrder(k, d)
      PROVE  SettledWithGmx'
  <2>1. d # None BY RebalanceAssumption
  <2> QED BY <1>1, <1>4, <2>1 DEF CreateDepositOrder, SettledWithGmx, Orderly
<1>5. ASSUME NEW k \in Keys, NEW w \in Withdrawals, CreateWithdrawalOrder(k, w)
      PROVE  SettledWithGmx'
  <2>1. w # None BY RebalanceAssumption
  <2> QED BY <1>1, <1>5, <2>1 DEF CreateWithdrawalOrder, SettledWithGmx, Orderly
<1>6. CASE OrderStep BY <1>4, <1>5, <1>6 DEF OrderStep
<1>7. CASE \E k \in Keys : Finishes(k) BY <1>7, FinishesSettle
<1>8. CASE RebalancerStep
  BY <1>2, <1>8 DEF RebalancerStep, StartRebalance, CompleteRebalance
<1>9. CASE SwapStep BY <1>2, <1>9 DEF SwapStep, Swap
<1> QED BY <1>3, <1>6, <1>7, <1>8, <1>9 DEF RebalanceNext

(* Where nothing disturbs GMX's callbacks, an order is pending exactly while *)
(* GMX has it open, and the service never keeps a token.                     *)
THEOREM Settles ==
  ASSUME Undisturbed
  PROVE  RebalanceSpec => []SettledWithGmx
<1>1. RebalanceInit => SettledWithGmx
  BY DEF RebalanceInit, SettledWithGmx
<1>2. RebalanceInv /\ SettledWithGmx /\ [RebalanceNext]_rebalanceVars => SettledWithGmx'
  <2> SUFFICES ASSUME RebalanceInv, SettledWithGmx, [RebalanceNext]_rebalanceVars
               PROVE  SettledWithGmx'
    OBVIOUS
  <2>1. CASE RebalanceNext BY <2>1, StepSettles
  <2>2. CASE UNCHANGED rebalanceVars BY <2>2 DEF rebalanceVars, orders, SettledWithGmx
  <2> QED BY <2>1, <2>2
<1> QED BY <1>1, <1>2, RebalanceInvariance, PTL DEF RebalanceSpec
=============================================================================
