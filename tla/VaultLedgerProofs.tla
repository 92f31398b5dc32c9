-------------------------- MODULE VaultLedgerProofs --------------------------
(* Theorems about VaultLedger, for every set of tokens and of traders, every *)
(* oracle price, fee rate and bound: lemmas on VaultStorage, lemmas on       *)
(* TradeHelper, and the transactions built from them.                        *)
EXTENDS VaultLedger, SumsProofs, SequenceTheorems

-----------------------------------------------------------------------------
(* What each operator of VaultStorage leaves true, for every set of tokens   *)
(* and of sub-accounts: the vault stays well formed (Good), and its balance, *)
(* its total, what is on hold and what it owes move as stated.  The ledger's *)
(* theorems follow from these lemmas by arithmetic.                          *)

(* A vault whose fields are natural numbers, whose global debts are the sums *)
(* of the traders' and whose token lists are exact.  The three need each     *)
(* other: a global debt can be lowered by a trader's share because it is the *)
(* sum, and a list is appended to because the token is not on it.            *)
Good(v) == v \in Vaults /\ DebtsAddUp(v) /\ ListedExactly(v)

(* w differs from v at most in fields other than the traders' books. *)
SameBooks(v, w) ==
  /\ w.traderBalances = v.traderBalances /\ w.traderTokens = v.traderTokens
  /\ w.debt = v.debt /\ w.globalDebt = v.globalDebt

(* w differs from v at most in whose the tokens are, or in the debts. *)
SameTokens(v, w) ==
  /\ w.balanceOf = v.balanceOf /\ w.totalAmount = v.totalAmount
  /\ w.hlpLiquidityOnHold = v.hlpLiquidityOnHold

(* What w owes is what v owes, and extra more of t (less if negative). *)
OwesMore(v, w, t, extra) ==
  \A u \in Tokens : Owed(w, u) = Owed(v, u) + (IF u = t THEN extra ELSE 0)

(* Every entry of a vault's books is a natural number. *)
LEMMA EntriesNat ==
  ASSUME NEW v \in Vaults, NEW t \in Tokens
  PROVE  /\ v.balanceOf[t] \in Nat /\ v.totalAmount[t] \in Nat
         /\ v.hlpLiquidityOnHold[t] \in Nat /\ v.hlpLiquidity[t] \in Nat
         /\ v.protocolFees[t] \in Nat /\ v.devFees[t] \in Nat
         /\ v.fundingFeeReserve[t] \in Nat /\ v.pendingRewardDebt[t] \in Nat
         /\ v.hlpLiquidityDebt \in Nat
         /\ \A a \in SubAccounts :
               /\ v.traderBalances[a][t] \in Nat
               /\ \A kind \in DebtKinds : v.debt[kind][a] \in Nat
<1>1. /\ v.balanceOf[t] \in Nat /\ v.totalAmount[t] \in Nat
      /\ v.hlpLiquidityOnHold[t] \in Nat /\ v.hlpLiquidity[t] \in Nat
      /\ v.protocolFees[t] \in Nat /\ v.devFees[t] \in Nat
      /\ v.fundingFeeReserve[t] \in Nat /\ v.pendingRewardDebt[t] \in Nat
      /\ v.hlpLiquidityDebt \in Nat
  BY DEF Vaults, PerToken
<1>2. ASSUME NEW a \in SubAccounts
      PROVE  /\ v.traderBalances[a][t] \in Nat
             /\ \A kind \in DebtKinds : v.debt[kind][a] \in Nat
  BY DEF Vaults, PerToken
<1> QED BY <1>1, <1>2

(* The collateral in a token is a natural number. *)
LEMMA CollateralNat ==
  ASSUME NEW v, v.traderBalances \in [SubAccounts -> PerToken], NEW t \in Tokens
  PROVE  Collateral(v, t) \in Nat
<1> DEFINE f == [a \in SubAccounts |-> v.traderBalances[a][t]]
<1>1. f \in [SubAccounts -> Nat] BY DEF PerToken
<1> HIDE DEF f
<1>2. SumOver(SubAccounts, f) \in Nat BY <1>1, SumNat, VaultAssumption
<1> QED BY <1>2 DEF Collateral, f

(* What a vault owes is a natural number, at least each of its parts. *)
LEMMA OwedNat ==
  ASSUME NEW v \in Vaults, NEW t \in Tokens
  PROVE  /\ Owed(v, t) \in Nat /\ Collateral(v, t) \in Nat
         /\ v.hlpLiquidity[t] <= Owed(v, t) /\ v.fundingFeeReserve[t] <= Owed(v, t)
         /\ v.protocolFees[t] <= Owed(v, t) /\ v.devFees[t] <= Owed(v, t)
<1>1. Collateral(v, t) \in Nat BY CollateralNat DEF Vaults
<1>2. /\ v.hlpLiquidity[t] \in Nat /\ v.fundingFeeReserve[t] \in Nat
      /\ v.protocolFees[t] \in Nat /\ v.devFees[t] \in Nat
  BY DEF Vaults, PerToken
<1> QED BY <1>1, <1>2 DEF Owed

(* A change outside the traders' books keeps a vault good. *)
LEMMA SameBooksGood ==
  ASSUME NEW v, NEW w \in Vaults, Good(v), SameBooks(v, w)
  PROVE  Good(w) /\ \A t \in Tokens : Collateral(w, t) = Collateral(v, t)
BY DEF Good, SameBooks, DebtsAddUp, ListedExactly, Collateral

(* The balances with a's of t moved by n. *)
BalancesPlus(v, a, t, n) == [v.traderBalances EXCEPT ![a][t] = @ + n]

(* The balances a vault may have after a move that leaves none negative.     *)
LEMMA BalancesPlusIs ==
  ASSUME NEW v \in Vaults, NEW a \in SubAccounts, NEW t \in Tokens, NEW n \in Int,
         v.traderBalances[a][t] + n >= 0
  PROVE  LET b == BalancesPlus(v, a, t, n) IN
         /\ b \in [SubAccounts -> PerToken]
         /\ b[a][t] = v.traderBalances[a][t] + n
         /\ \A u \in Tokens : u # t => b[a][u] = v.traderBalances[a][u]
         /\ \A c \in SubAccounts : c # a => b[c] = v.traderBalances[c]
<1> DEFINE mine == [v.traderBalances[a] EXCEPT ![t] = @ + n]
           b == [v.traderBalances EXCEPT ![a] = mine]
<1>1. v.traderBalances \in [SubAccounts -> PerToken] BY DEF Vaults
<1>2. /\ mine \in PerToken /\ mine[t] = v.traderBalances[a][t] + n
      /\ \A u \in Tokens : u # t => mine[u] = v.traderBalances[a][u]
  BY <1>1 DEF PerToken
<1>3. BalancesPlus(v, a, t, n) = b BY <1>1 DEF BalancesPlus
<1> HIDE DEF mine
<1> QED BY <1>1, <1>2, <1>3

(* When one balance moves, the collateral in that token moves with it. *)
LEMMA CollateralMoves ==
  ASSUME NEW v \in Vaults, NEW w, NEW a \in SubAccounts, NEW t \in Tokens, NEW n \in Int,
         v.traderBalances[a][t] + n >= 0,
         w.traderBalances = BalancesPlus(v, a, t, n)
  PROVE  \A u \in Tokens : Collateral(w, u) = Collateral(v, u) + (IF u = t THEN n ELSE 0)
<1> TAKE u \in Tokens
<1> DEFINE x == BalancesPlus(v, a, t, n)
           f == [b \in SubAccounts |-> v.traderBalances[b][u]]
           h == [b \in SubAccounts |-> x[b][u]]
<1>1. /\ x \in [SubAccounts -> PerToken]
      /\ x[a][t] = v.traderBalances[a][t] + n
      /\ \A s \in Tokens : s # t => x[a][s] = v.traderBalances[a][s]
      /\ \A c \in SubAccounts : c # a => x[c] = v.traderBalances[c]
  BY BalancesPlusIs
<1>2. v.traderBalances \in [SubAccounts -> PerToken] BY DEF Vaults
<1>3. Collateral(v, u) = SumOver(SubAccounts, f) /\ Collateral(w, u) = SumOver(SubAccounts, h)
  BY DEF Collateral
<1> HIDE DEF x
<1>4. f \in [SubAccounts -> Int] /\ h \in [SubAccounts -> Int]
  BY <1>1, <1>2 DEF PerToken
<1>5. \A b \in SubAccounts : b # a => h[b] = f[b]
  BY <1>1
<1>6. f[a] \in Int /\ h[a] = f[a] + (IF u = t THEN n ELSE 0)
  <2>1. v.traderBalances[a][u] \in Nat BY <1>2 DEF PerToken
  <2>2. CASE u = t BY <1>1, <2>1, <2>2
  <2>3. CASE u # t BY <1>1, <2>1, <2>3
  <2> QED BY <2>2, <2>3
<1> HIDE DEF f, h
<1>7. SumOver(SubAccounts, h) = SumOver(SubAccounts, f) - f[a] + h[a]
  BY <1>4, <1>5, SumUpdate, VaultAssumption
<1>8. SumOver(SubAccounts, f) \in Int BY <1>4, SumInt, VaultAssumption
<1> QED BY <1>3, <1>6, <1>7, <1>8

-----------------------------------------------------------------------------
(* Operators outside the traders' books. *)

(* A well-formed vault that has the traders' books of a good one is good,    *)
(* and owes more by what the pool, the fees and the reserve have gained.     *)
LEMMA PoolMoves ==
  ASSUME NEW v, Good(v), NEW w \in Vaults, SameBooks(v, w)
  PROVE  /\ Good(w)
         /\ \A u \in Tokens :
               Owed(w, u) = Owed(v, u) + (w.hlpLiquidity[u] - v.hlpLiquidity[u])
                  + (w.protocolFees[u] - v.protocolFees[u]) + (w.devFees[u] - v.devFees[u])
                  + (w.fundingFeeReserve[u] - v.fundingFeeReserve[u])
<1>1. v \in Vaults BY DEF Good
<1>2. Good(w) /\ \A u \in Tokens : Collateral(w, u) = Collateral(v, u)
  BY SameBooksGood
<1>3. ASSUME NEW u \in Tokens
      PROVE  Owed(w, u) = Owed(v, u) + (w.hlpLiquidity[u] - v.hlpLiquidity[u])
                  + (w.protocolFees[u] - v.protocolFees[u]) + (w.devFees[u] - v.devFees[u])
                  + (w.fundingFeeReserve[u] - v.fundingFeeReserve[u])
  <2>1. /\ v.hlpLiquidity[u] \in Nat /\ v.fundingFeeReserve[u] \in Nat
        /\ v.protocolFees[u] \in Nat /\ v.devFees[u] \in Nat
    BY <1>1 DEF Vaults, PerToken
  <2>2. /\ w.hlpLiquidity[u] \in Nat /\ w.fundingFeeReserve[u] \in Nat
        /\ w.protocolFees[u] \in Nat /\ w.devFees[u] \in Nat
    BY DEF Vaults, PerToken
  <2>3. Collateral(v, u) \in Nat BY <1>1, OwedNat
  <2> QED BY <2>1, <2>2, <2>3, <1>2 DEF Owed
<1> QED BY <1>2, <1>3

(* An ERC-20 transfer raises the balance only. *)
LEMMA ReceiveIs ==
  ASSUME NEW v, Good(v), NEW t \in Tokens, NEW n \in Nat,
         NEW w, w = Receive(v, t, n)
  PROVE  /\ Good(w) /\ SameBooks(v, w) /\ OwesMore(v, w, t, 0)
         /\ w.balanceOf = [v.balanceOf EXCEPT ![t] = @ + n]
         /\ w.totalAmount = v.totalAmount
         /\ w.hlpLiquidityOnHold = v.hlpLiquidityOnHold
         /\ w.hlpLiquidity = v.hlpLiquidity
<1> DEFINE b == [v.balanceOf EXCEPT ![t] = @ + n]
<1>1. v \in Vaults BY DEF Good
<1>2. b \in PerToken BY <1>1 DEF Vaults, PerToken
<1>3. w = [v EXCEPT !.balanceOf = b]
  BY <1>1 DEF Vaults, Receive
<1> HIDE DEF b
<1>4. w \in Vaults BY <1>1, <1>2, <1>3 DEF Vaults
<1>5. /\ SameBooks(v, w)
      /\ w.balanceOf = b /\ w.totalAmount = v.totalAmount
      /\ w.hlpLiquidityOnHold = v.hlpLiquidityOnHold /\ w.hlpLiquidity = v.hlpLiquidity
      /\ w.protocolFees = v.protocolFees /\ w.devFees = v.devFees
      /\ w.fundingFeeReserve = v.fundingFeeReserve
  BY <1>1, <1>3 DEF Vaults, SameBooks
<1>6. Good(w) BY <1>4, <1>5, PoolMoves
<1>7. OwesMore(v, w, t, 0)
  <2> SUFFICES ASSUME NEW u \in Tokens
               PROVE  Owed(w, u) = Owed(v, u) + (IF u = t THEN 0 ELSE 0)
    BY DEF OwesMore
  <2>1. /\ v.hlpLiquidity[u] \in Nat /\ v.fundingFeeReserve[u] \in Nat
        /\ v.protocolFees[u] \in Nat /\ v.devFees[u] \in Nat /\ Owed(v, u) \in Nat
    BY <1>1, OwedNat DEF Vaults, PerToken
  <2> QED BY <2>1, <1>4, <1>5, PoolMoves
<1> QED BY <1>5, <1>6, <1>7 DEF b

(* pullToken sets the total to what is here and what is on hold. *)
LEMMA PullTokenIs ==
  ASSUME NEW v, Good(v), NEW t \in Tokens, NEW w, w = PullToken(v, t)
  PROVE  /\ Good(w) /\ SameBooks(v, w) /\ OwesMore(v, w, t, 0)
         /\ w.balanceOf = v.balanceOf
         /\ w.totalAmount =
              [v.totalAmount EXCEPT ![t] = v.balanceOf[t] + v.hlpLiquidityOnHold[t]]
         /\ w.hlpLiquidityOnHold = v.hlpLiquidityOnHold
         /\ w.hlpLiquidity = v.hlpLiquidity
<1> DEFINE b == [v.totalAmount EXCEPT ![t] = v.balanceOf[t] + v.hlpLiquidityOnHold[t]]
<1>1. v \in Vaults BY DEF Good
<1>2. b \in PerToken BY <1>1 DEF Vaults, PerToken
<1>3. w = [v EXCEPT !.totalAmount = b]
  BY <1>1 DEF Vaults, PullToken
<1> HIDE DEF b
<1>4. w \in Vaults BY <1>1, <1>2, <1>3 DEF Vaults
<1>5. /\ SameBooks(v, w)
      /\ w.totalAmount = b /\ w.balanceOf = v.balanceOf
      /\ w.hlpLiquidityOnHold = v.hlpLiquidityOnHold /\ w.hlpLiquidity = v.hlpLiquidity
      /\ w.protocolFees = v.protocolFees /\ w.devFees = v.devFees
      /\ w.fundingFeeReserve = v.fundingFeeReserve
  BY <1>1, <1>3 DEF Vaults, SameBooks
<1>6. Good(w) BY <1>4, <1>5, PoolMoves
<1>7. OwesMore(v, w, t, 0)
  <2> SUFFICES ASSUME NEW u \in Tokens
               PROVE  Owed(w, u) = Owed(v, u) + (IF u = t THEN 0 ELSE 0)
    BY DEF OwesMore
  <2>1. /\ v.hlpLiquidity[u] \in Nat /\ v.fundingFeeReserve[u] \in Nat
        /\ v.protocolFees[u] \in Nat /\ v.devFees[u] \in Nat /\ Owed(v, u) \in Nat
    BY <1>1, OwedNat DEF Vaults, PerToken
  <2> QED BY <2>1, <1>4, <1>5, PoolMoves
<1> QED BY <1>5, <1>6, <1>7 DEF b

(* pushToken lowers the balance and sets the total to what is left. *)
LEMMA PushTokenIs ==
  ASSUME NEW v, Good(v), NEW t \in Tokens, NEW n \in Nat, n <= v.balanceOf[t],
         NEW w, w = PushToken(v, t, n)
  PROVE  /\ Good(w) /\ SameBooks(v, w) /\ OwesMore(v, w, t, 0)
         /\ w.balanceOf = [v.balanceOf EXCEPT ![t] = @ - n]
         /\ w.totalAmount =
              [v.totalAmount EXCEPT ![t] = v.balanceOf[t] - n + v.hlpLiquidityOnHold[t]]
         /\ w.hlpLiquidityOnHold = v.hlpLiquidityOnHold
         /\ w.hlpLiquidity = v.hlpLiquidity
<1> DEFINE c == [v.balanceOf EXCEPT ![t] = @ - n]
           b == [v.totalAmount EXCEPT ![t] = v.balanceOf[t] - n + v.hlpLiquidityOnHold[t]]
<1>1. v \in Vaults BY DEF Good
<1>2. b \in PerToken /\ c \in PerToken BY <1>1 DEF Vaults, PerToken
<1>3. w = [v EXCEPT !.balanceOf = c, !.totalAmount = b]
  BY <1>1 DEF Vaults, PushToken
<1> HIDE DEF b, c
<1>4. w \in Vaults BY <1>1, <1>2, <1>3 DEF Vaults
<1>5. /\ SameBooks(v, w)
      /\ w.totalAmount = b /\ w.balanceOf = c
      /\ w.hlpLiquidityOnHold = v.hlpLiquidityOnHold /\ w.hlpLiquidity = v.hlpLiquidity
      /\ w.protocolFees = v.protocolFees /\ w.devFees = v.devFees
      /\ w.fundingFeeReserve = v.fundingFeeReserve
  BY <1>1, <1>3 DEF Vaults, SameBooks
<1>6. Good(w) BY <1>4, <1>5, PoolMoves
<1>7. OwesMore(v, w, t, 0)
  <2> SUFFICES ASSUME NEW u \in Tokens
               PROVE  Owed(w, u) = Owed(v, u) + (IF u = t THEN 0 ELSE 0)
    BY DEF OwesMore
  <2>1. /\ v.hlpLiquidity[u] \in Nat /\ v.fundingFeeReserve[u] \in Nat
        /\ v.protocolFees[u] \in Nat /\ v.devFees[u] \in Nat /\ Owed(v, u) \in Nat
    BY <1>1, OwedNat DEF Vaults, PerToken
  <2> QED BY <2>1, <1>4, <1>5, PoolMoves
<1> QED BY <1>5, <1>6, <1>7 DEF b, c

(* One entry of a field moves by n. *)
Plus(f, t, n) == [f EXCEPT ![t] = @ + n]

(* It may move by any amount that keeps it natural. *)
LEMMA PlusIs ==
  ASSUME NEW f \in PerToken, NEW t \in Tokens, NEW n \in Int, f[t] + n >= 0
  PROVE  /\ Plus(f, t, n) \in PerToken
         /\ \A u \in Tokens : Plus(f, t, n)[u] = f[u] + (IF u = t THEN n ELSE 0)
BY DEF PerToken, Plus

(* The pool, the fees, the reserve and the pool's debt replaced. *)
Filled(v, hlp, fee, dev, reserve, debt) ==
  [v EXCEPT !.hlpLiquidity = hlp, !.protocolFees = fee, !.devFees = dev,
            !.fundingFeeReserve = reserve, !.hlpLiquidityDebt = debt]

(* Fields of the right type put into a vault leave a vault. *)
LEMMA FilledIn ==
  ASSUME NEW v \in Vaults, NEW hlp \in PerToken, NEW fee \in PerToken,
         NEW dev \in PerToken, NEW reserve \in PerToken, NEW debt \in Nat
  PROVE  Filled(v, hlp, fee, dev, reserve, debt) \in Vaults
<1> DEFINE v1 == [v EXCEPT !.hlpLiquidity = hlp]
           v2 == [v1 EXCEPT !.protocolFees = fee]
           v3 == [v2 EXCEPT !.devFees = dev]
           v4 == [v3 EXCEPT !.fundingFeeReserve = reserve]
           v5 == [v4 EXCEPT !.hlpLiquidityDebt = debt]
<1>1. Filled(v, hlp, fee, dev, reserve, debt) = v5 BY DEF Filled, Vaults
<1>2. v1 \in Vaults BY DEF Vaults
<1> HIDE DEF v1
<1>3. v2 \in Vaults BY <1>2 DEF Vaults
<1> HIDE DEF v2
<1>4. v3 \in Vaults BY <1>3 DEF Vaults
<1> HIDE DEF v3
<1>5. v4 \in Vaults BY <1>4 DEF Vaults
<1> HIDE DEF v4
<1>6. v5 \in Vaults BY <1>5 DEF Vaults
<1> QED BY <1>1, <1>6

(* Each of them gains an integer. *)
Gains(v, t, hlp, fee, dev, reserve, debt) ==
  Filled(v, Plus(v.hlpLiquidity, t, hlp), Plus(v.protocolFees, t, fee),
         Plus(v.devFees, t, dev), Plus(v.fundingFeeReserve, t, reserve),
         v.hlpLiquidityDebt + debt)

(* As long as none of them becomes negative the vault stays good, its tokens *)
(* stay where they are, and it owes more by the sum.                         *)
LEMMA GainsIs ==
  ASSUME NEW v, Good(v), NEW t \in Tokens, NEW hlp \in Int, NEW fee \in Int,
         NEW dev \in Int, NEW reserve \in Int, NEW debt \in Int,
         v.hlpLiquidity[t] + hlp >= 0, v.protocolFees[t] + fee >= 0,
         v.devFees[t] + dev >= 0, v.fundingFeeReserve[t] + reserve >= 0,
         v.hlpLiquidityDebt + debt >= 0,
         NEW w, w = Gains(v, t, hlp, fee, dev, reserve, debt)
  PROVE  /\ Good(w) /\ SameBooks(v, w) /\ SameTokens(v, w)
         /\ OwesMore(v, w, t, hlp + fee + dev + reserve)
         /\ w.hlpLiquidity = Plus(v.hlpLiquidity, t, hlp)
         /\ w.fundingFeeReserve = Plus(v.fundingFeeReserve, t, reserve)
         /\ w.hlpLiquidityDebt = v.hlpLiquidityDebt + debt
<1> DEFINE h == Plus(v.hlpLiquidity, t, hlp)
           f == Plus(v.protocolFees, t, fee)
           d == Plus(v.devFees, t, dev)
           r == Plus(v.fundingFeeReserve, t, reserve)
           b == v.hlpLiquidityDebt + debt
<1>1. v \in Vaults BY DEF Good
<1>2. /\ v.hlpLiquidity \in PerToken /\ v.protocolFees \in PerToken
      /\ v.devFees \in PerToken /\ v.fundingFeeReserve \in PerToken
      /\ v.hlpLiquidityDebt \in Nat
  BY <1>1 DEF Vaults
<1>3. w = [v EXCEPT !.hlpLiquidity = h, !.protocolFees = f, !.devFees = d,
                    !.fundingFeeReserve = r, !.hlpLiquidityDebt = b]
  BY <1>1 DEF Vaults, Gains, Filled
<1>4. /\ h \in PerToken /\ f \in PerToken /\ d \in PerToken /\ r \in PerToken /\ b \in Nat
      /\ \A u \in Tokens :
             /\ h[u] = v.hlpLiquidity[u] + (IF u = t THEN hlp ELSE 0)
             /\ f[u] = v.protocolFees[u] + (IF u = t THEN fee ELSE 0)
             /\ d[u] = v.devFees[u] + (IF u = t THEN dev ELSE 0)
             /\ r[u] = v.fundingFeeReserve[u] + (IF u = t THEN reserve ELSE 0)
  <2>1. h \in PerToken /\ \A u \in Tokens : h[u] = v.hlpLiquidity[u] + (IF u = t THEN hlp ELSE 0)
    BY <1>2, PlusIs
  <2>2. f \in PerToken /\ \A u \in Tokens : f[u] = v.protocolFees[u] + (IF u = t THEN fee ELSE 0)
    BY <1>2, PlusIs
  <2>3. d \in PerToken /\ \A u \in Tokens : d[u] = v.devFees[u] + (IF u = t THEN dev ELSE 0)
    BY <1>2, PlusIs
  <2>4. r \in PerToken
        /\ \A u \in Tokens : r[u] = v.fundingFeeReserve[u] + (IF u = t THEN reserve ELSE 0)
    BY <1>2, PlusIs
  <2>5. b \in Nat BY <1>2
  <2> HIDE DEF h, f, d, r, b
  <2> QED BY <2>1, <2>2, <2>3, <2>4, <2>5
<1> HIDE DEF h, f, d, r, b
<1>5. w \in Vaults
  <2>1. h \in PerToken /\ f \in PerToken /\ d \in PerToken /\ r \in PerToken /\ b \in Nat
    BY <1>4
  <2>2. w = Filled(v, h, f, d, r, b) BY <1>3 DEF Filled
  <2> QED BY <1>1, <2>1, <2>2, FilledIn
<1>6. /\ SameBooks(v, w) /\ SameTokens(v, w)
      /\ w.hlpLiquidity = h /\ w.protocolFees = f /\ w.devFees = d
      /\ w.fundingFeeReserve = r /\ w.hlpLiquidityDebt = b
  BY <1>1, <1>3 DEF Vaults, SameBooks, SameTokens
<1>7. Good(w) BY <1>5, <1>6, PoolMoves
<1>8. OwesMore(v, w, t, hlp + fee + dev + reserve)
  <2> SUFFICES ASSUME NEW u \in Tokens
               PROVE  Owed(w, u) = Owed(v, u)
                                     + (IF u = t THEN hlp + fee + dev + reserve ELSE 0)
    BY DEF OwesMore
  <2>1. /\ v.hlpLiquidity[u] \in Nat /\ v.fundingFeeReserve[u] \in Nat
        /\ v.protocolFees[u] \in Nat /\ v.devFees[u] \in Nat /\ Owed(v, u) \in Nat
    BY <1>1, OwedNat DEF Vaults, PerToken
  <2>2. Owed(w, u) = Owed(v, u) + (h[u] - v.hlpLiquidity[u])
            + (f[u] - v.protocolFees[u]) + (d[u] - v.devFees[u])
            + (r[u] - v.fundingFeeReserve[u])
    BY <1>5, <1>6, PoolMoves
  <2> QED BY <2>1, <2>2, <1>4
<1> QED BY <1>6, <1>7, <1>8 DEF h, r, b

-----------------------------------------------------------------------------
(* Debts. *)

(* Both sides of a trader's debt move by n. *)
DebtPlus(v, kind, a, n) ==
  [v EXCEPT !.debt[kind][a] = @ + n, !.globalDebt[kind] = @ + n]

(* From v to w nobody's debts moved but a's of one kind, by n. *)
DebtMoved(v, w, kind, a, n) ==
  /\ w.traderBalances = v.traderBalances
  /\ w.debt[kind][a] = v.debt[kind][a] + n
  /\ \A k \in DebtKinds, b \in SubAccounts :
        k # kind \/ b # a => w.debt[k][b] = v.debt[k][b]

(* What is not a matter of tokens' owners stays in a change of debts. *)
SamePool(v, w) ==
  /\ w.hlpLiquidity = v.hlpLiquidity /\ w.protocolFees = v.protocolFees
  /\ w.devFees = v.devFees /\ w.fundingFeeReserve = v.fundingFeeReserve

(* The debt may move by any amount that keeps the trader's side natural: the *)
(* global side, the sum of all, is then natural too.                         *)
LEMMA DebtPlusIs ==
  ASSUME NEW v, Good(v), NEW kind \in DebtKinds, NEW a \in SubAccounts, NEW n \in Int,
         v.debt[kind][a] + n >= 0, NEW w, w = DebtPlus(v, kind, a, n)
  PROVE  /\ Good(w) /\ SameTokens(v, w) /\ SamePool(v, w)
         /\ w.hlpLiquidityDebt = v.hlpLiquidityDebt
         /\ DebtMoved(v, w, kind, a, n)
         /\ \A t \in Tokens : Owed(w, t) = Owed(v, t)
<1> DEFINE mine == [v.debt[kind] EXCEPT ![a] = @ + n]
           debt == [v.debt EXCEPT ![kind] = mine]
           global == [v.globalDebt EXCEPT ![kind] = @ + n]
<1>1. v \in Vaults BY DEF Good
<1>2. v.debt \in [DebtKinds -> [SubAccounts -> Nat]] /\ v.globalDebt \in [DebtKinds -> Nat]
  BY <1>1 DEF Vaults
<1>3. mine \in [SubAccounts -> Nat] BY <1>2
<1>4. debt \in [DebtKinds -> [SubAccounts -> Nat]] BY <1>2, <1>3
<1>5. SumOver(SubAccounts, mine) = SumOver(SubAccounts, v.debt[kind]) + n
  <2>1. v.debt[kind] \in [SubAccounts -> Int] /\ mine \in [SubAccounts -> Int]
    BY <1>2, <1>3
  <2>2. mine[a] = v.debt[kind][a] + n /\ \A b \in SubAccounts : b # a => mine[b] = v.debt[kind][b]
    BY <1>2
  <2>3. v.debt[kind][a] \in Nat BY <1>2
  <2> HIDE DEF mine
  <2>4. SumOver(SubAccounts, mine)
          = SumOver(SubAccounts, v.debt[kind]) - v.debt[kind][a] + mine[a]
    BY <2>1, <2>2, SumUpdate, VaultAssumption
  <2>5. SumOver(SubAccounts, v.debt[kind]) \in Int BY <2>1, SumInt, VaultAssumption
  <2> QED BY <2>2, <2>3, <2>4, <2>5
<1>6. global[kind] = SumOver(SubAccounts, mine) /\ global[kind] \in Nat
  <2>1. v.globalDebt[kind] = SumOver(SubAccounts, v.debt[kind]) BY DEF Good, DebtsAddUp
  <2>2. global[kind] = v.globalDebt[kind] + n BY <1>2
  <2> HIDE DEF mine, global
  <2>3. SumOver(SubAccounts, mine) \in Nat BY <1>3, SumNat, VaultAssumption
  <2> QED BY <2>1, <2>2, <2>3, <1>5
<1>7. global \in [DebtKinds -> Nat] BY <1>2, <1>6
<1>8. w = [v EXCEPT !.debt = debt, !.globalDebt = global]
  BY <1>1 DEF Vaults, DebtPlus
<1>9. \A k \in DebtKinds : global[k] = SumOver(SubAccounts, debt[k])
  <2> SUFFICES ASSUME NEW k \in DebtKinds PROVE global[k] = SumOver(SubAccounts, debt[k])
    OBVIOUS
  <2>1. CASE k = kind
    <3>1. debt[k] = mine BY <1>2, <2>1
    <3> HIDE DEF mine, debt, global
    <3> QED BY <1>6, <2>1, <3>1
  <2>2. CASE k # kind
    <3>1. debt[k] = v.debt[k] /\ global[k] = v.globalDebt[k] BY <1>2, <2>2
    <3>2. v.globalDebt[k] = SumOver(SubAccounts, v.debt[k]) BY DEF Good, DebtsAddUp
    <3> HIDE DEF mine, debt, global
    <3> QED BY <3>1, <3>2
  <2> QED BY <2>1, <2>2
<1>14. /\ debt[kind][a] = v.debt[kind][a] + n
       /\ \A k \in DebtKinds, b \in SubAccounts :
             k # kind \/ b # a => debt[k][b] = v.debt[k][b]
  BY <1>2
<1> HIDE DEF mine, debt, global
<1>10. w \in Vaults BY <1>1, <1>4, <1>7, <1>8 DEF Vaults
<1>11. /\ w.debt = debt /\ w.globalDebt = global
       /\ w.traderBalances = v.traderBalances /\ w.traderTokens = v.traderTokens
       /\ w.hlpLiquidityDebt = v.hlpLiquidityDebt
       /\ SameTokens(v, w) /\ SamePool(v, w)
  BY <1>1, <1>8 DEF Vaults, SameTokens, SamePool
<1>12. Good(w)
  BY <1>9, <1>10, <1>11 DEF Good, DebtsAddUp, ListedExactly
<1>13. \A t \in Tokens : Owed(w, t) = Owed(v, t)
  BY <1>11 DEF Owed, Collateral, SamePool
<1>15. DebtMoved(v, w, kind, a, n) BY <1>11, <1>14 DEF DebtMoved
<1> QED BY <1>11, <1>12, <1>13, <1>15

-----------------------------------------------------------------------------
(* Collateral. *)

(* A list in which each token occurs once. *)
Distinct(s) == \A i, j \in DOMAIN s : s[i] = s[j] => i = j

(* Swap-and-pop removes the token and no other, and makes no duplicate. *)
LEMMA SwapAndPopIs ==
  ASSUME NEW s \in Seq(Tokens), Distinct(s), NEW t \in Tokens, Listed(s, t)
  PROVE  LET r == SwapAndPop(s, t) IN
         /\ r \in Seq(Tokens) /\ Distinct(r)
         /\ \A u \in Tokens : Listed(r, u) <=> u # t /\ Listed(s, u)
<1> DEFINE n == Len(s)
           First(i) == i \in DOMAIN s /\ s[i] = t /\ \A j \in 1 .. i - 1 : s[j] # t
           k == CHOOSE i \in DOMAIN s : s[i] = t /\ \A j \in 1 .. i - 1 : s[j] # t
           r == SwapAndPop(s, t)
<1>1. n \in Nat /\ DOMAIN s = 1 .. n /\ \A i \in 1 .. n : s[i] \in Tokens
  OBVIOUS
<1>2. PICK m \in 1 .. n : s[m] = t BY <1>1 DEF Listed
<1>3. First(m)
  <2> SUFFICES ASSUME NEW j \in 1 .. m - 1 PROVE s[j] # t
    BY <1>1, <1>2
  <2>1. j \in DOMAIN s /\ m \in DOMAIN s /\ j # m BY <1>1
  <2> QED BY <1>2, <2>1 DEF Distinct
<1>4. k \in 1 .. n /\ s[k] = t BY <1>1, <1>3
<1>5. r = [j \in 1 .. n - 1 |-> IF j = k THEN s[n] ELSE s[j]]
  BY DEF SwapAndPop
<1> HIDE DEF n, First, k, r
<1>6. n - 1 \in Nat BY <1>1, <1>4
<1>7. \A j \in 1 .. n - 1 : r[j] = (IF j = k THEN s[n] ELSE s[j]) /\ r[j] \in Tokens
  BY <1>1, <1>4, <1>5
<1>8. r \in [1 .. n - 1 -> Tokens] BY <1>5, <1>7
<1>9. r \in Seq(Tokens) /\ Len(r) = n - 1 /\ DOMAIN r = 1 .. n - 1
  BY <1>6, <1>8
<1>10. Distinct(r)
  <2> SUFFICES ASSUME NEW i \in 1 .. n - 1, NEW j \in 1 .. n - 1, r[i] = r[j] PROVE i = j
    BY <1>9 DEF Distinct
  <2>1. i \in 1 .. n /\ j \in 1 .. n /\ i # n /\ j # n /\ n \in 1 .. n BY <1>1, <1>6
  <2> QED BY <2>1, <1>1, <1>7 DEF Distinct
<1>11. ASSUME NEW u \in Tokens, Listed(r, u) PROVE u # t /\ Listed(s, u)
  <2>1. PICK j \in 1 .. n - 1 : r[j] = u BY <1>9, <1>11 DEF Listed
  <2>2. j \in 1 .. n /\ n \in 1 .. n /\ j # n BY <1>1, <1>6
  <2>3. CASE j = k
    <3>1. u = s[n] /\ k # n BY <1>7, <2>1, <2>2, <2>3
    <3> QED BY <1>1, <1>4, <2>2, <3>1 DEF Listed, Distinct
  <2>4. CASE j # k
    <3>1. u = s[j] BY <1>7, <2>1, <2>4
    <3> QED BY <1>1, <1>4, <2>2, <2>4, <3>1 DEF Listed, Distinct
  <2> QED BY <2>3, <2>4
<1>12. ASSUME NEW u \in Tokens, u # t, Listed(s, u) PROVE Listed(r, u)
  <2>1. PICK j \in 1 .. n : s[j] = u BY <1>1, <1>12 DEF Listed
  <2>2. j # k BY <1>4, <1>12, <2>1
  <2>3. CASE j = n
    <3>1. k \in 1 .. n - 1 BY <1>1, <1>4, <2>2, <2>3
    <3>2. r[k] = u BY <1>7, <2>1, <2>3, <3>1
    <3> QED BY <1>9, <3>1, <3>2 DEF Listed
  <2>4. CASE j # n
    <3>1. j \in 1 .. n - 1 BY <1>1, <2>4
    <3>2. r[j] = u BY <1>7, <2>1, <2>2, <3>1
    <3> QED BY <1>9, <3>1, <3>2 DEF Listed
  <2> QED BY <2>3, <2>4
<1> QED BY <1>9, <1>10, <1>11, <1>12 DEF r

(* A balance moved by n, and a list made for it. *)
Rebooked(v, a, t, n, list) ==
  [v EXCEPT !.traderBalances = BalancesPlus(v, a, t, n), !.traderTokens[a] = list]

(* What holds of a vault in which a's balance of t has moved by n. *)
TraderMoved(v, w, a, t, n) ==
  /\ Good(w) /\ SameTokens(v, w) /\ SamePool(v, w)
  /\ w.debt = v.debt /\ w.globalDebt = v.globalDebt
  /\ w.hlpLiquidityDebt = v.hlpLiquidityDebt
  /\ w.traderBalances = BalancesPlus(v, a, t, n)
  /\ OwesMore(v, w, t, n)

(* With the pool and the fees unmoved, what is owed moves as collateral does. *)
LEMMA OwedMoves ==
  ASSUME NEW v \in Vaults, NEW w \in Vaults, SamePool(v, w),
         NEW t \in Tokens, NEW n \in Int,
         \A u \in Tokens : Collateral(w, u) = Collateral(v, u) + (IF u = t THEN n ELSE 0)
  PROVE  OwesMore(v, w, t, n)
<1> SUFFICES ASSUME NEW u \in Tokens
             PROVE  Owed(w, u) = Owed(v, u) + (IF u = t THEN n ELSE 0)
  BY DEF OwesMore
<1>1. /\ v.hlpLiquidity[u] \in Nat /\ v.fundingFeeReserve[u] \in Nat
      /\ v.protocolFees[u] \in Nat /\ v.devFees[u] \in Nat
  BY DEF Vaults, PerToken
<1>2. Collateral(v, u) \in Nat /\ Collateral(w, u) \in Nat BY OwedNat
<1>3. Collateral(w, u) = Collateral(v, u) + (IF u = t THEN n ELSE 0) OBVIOUS
<1> QED BY <1>1, <1>2, <1>3 DEF Owed, SamePool

(* A vault with a balance moved and an exact list for it is good again. *)
LEMMA RebookedIs ==
  ASSUME NEW v, Good(v), NEW a \in SubAccounts, NEW t \in Tokens, NEW n \in Int,
         v.traderBalances[a][t] + n >= 0,
         NEW list \in Seq(Tokens), Distinct(list),
         \A u \in Tokens : Listed(list, u) <=> BalancesPlus(v, a, t, n)[a][u] > 0,
         NEW w, w = Rebooked(v, a, t, n, list)
  PROVE  TraderMoved(v, w, a, t, n)
<1> DEFINE b == BalancesPlus(v, a, t, n)
           lists == [v.traderTokens EXCEPT ![a] = list]
<1>1. v \in Vaults BY DEF Good
<1>2. /\ v.traderTokens \in [SubAccounts -> Seq(Tokens)]
      /\ v.traderBalances \in [SubAccounts -> PerToken]
  BY <1>1 DEF Vaults
<1>3. /\ b \in [SubAccounts -> PerToken]
      /\ b[a][t] = v.traderBalances[a][t] + n
      /\ \A c \in SubAccounts : c # a => b[c] = v.traderBalances[c]
  BY <1>1, BalancesPlusIs
<1>4. /\ lists \in [SubAccounts -> Seq(Tokens)] /\ lists[a] = list
      /\ \A c \in SubAccounts : c # a => lists[c] = v.traderTokens[c]
  BY <1>2
<1>5. w = [v EXCEPT !.traderBalances = b, !.traderTokens = lists]
  BY <1>1 DEF Vaults, Rebooked
<1>6. \A u \in Tokens : Listed(list, u) <=> b[a][u] > 0 OBVIOUS
<1> HIDE DEF b, lists
<1>8. w \in Vaults
  <2> DEFINE v1 == [v EXCEPT !.traderBalances = b]
  <2>1. w = [v1 EXCEPT !.traderTokens = lists] BY <1>1, <1>5 DEF Vaults
  <2>2. v1 \in Vaults BY <1>1, <1>3 DEF Vaults
  <2> HIDE DEF v1
  <2> QED BY <1>4, <2>1, <2>2 DEF Vaults
<1>9. /\ w.traderBalances = b /\ w.traderTokens = lists
      /\ w.debt = v.debt /\ w.globalDebt = v.globalDebt
      /\ w.hlpLiquidityDebt = v.hlpLiquidityDebt
      /\ SameTokens(v, w) /\ SamePool(v, w)
  BY <1>1, <1>5 DEF Vaults, SameTokens, SamePool
<1>10. ListedExactly(w)
  <2> SUFFICES ASSUME NEW c \in SubAccounts
               PROVE  /\ \A u \in Tokens : Listed(lists[c], u) <=> b[c][u] > 0
                      /\ Distinct(lists[c])
    BY <1>9 DEF ListedExactly, Distinct
  <2>1. CASE c = a BY <1>4, <1>6, <2>1
  <2>2. CASE c # a
    <3>1. lists[c] = v.traderTokens[c] /\ b[c] = v.traderBalances[c] BY <1>3, <1>4, <2>2
    <3> QED BY <3>1 DEF Good, ListedExactly, Distinct
  <2> QED BY <2>1, <2>2
<1>11. Good(w) BY <1>8, <1>9, <1>10 DEF Good, DebtsAddUp
<1>12. \A u \in Tokens : Collateral(w, u) = Collateral(v, u) + (IF u = t THEN n ELSE 0)
  BY <1>1, <1>9, CollateralMoves DEF b
<1>13. OwesMore(v, w, t, n) BY <1>1, <1>8, <1>9, <1>12, OwedMoves
<1> QED BY <1>9, <1>11, <1>13 DEF TraderMoved, b

(* Nothing moved: a balance moved by zero. *)
LEMMA NotMoved ==
  ASSUME NEW v, Good(v), NEW a \in SubAccounts, NEW t \in Tokens
  PROVE  TraderMoved(v, v, a, t, 0)
<1>1. v \in Vaults BY DEF Good
<1>2. BalancesPlus(v, a, t, 0) = v.traderBalances
  <2>1. v.traderBalances \in [SubAccounts -> PerToken] BY <1>1 DEF Vaults
  <2>2. [v.traderBalances[a] EXCEPT ![t] = @ + 0] = v.traderBalances[a]
    BY <2>1 DEF PerToken
  <2> QED BY <2>1, <2>2 DEF BalancesPlus
<1>3. OwesMore(v, v, t, 0)
  <2>1. \A u \in Tokens : Owed(v, u) \in Nat BY <1>1, OwedNat
  <2> QED BY <2>1 DEF OwesMore
<1> QED BY <1>2, <1>3 DEF TraderMoved, SameTokens, SamePool

(* _increaseTraderBalance: the balance rises by n, and the list follows. *)
LEMMA IncreaseIs ==
  ASSUME NEW v, Good(v), NEW a \in SubAccounts, NEW t \in Tokens, NEW n \in Nat,
         NEW w, w = IncreaseTraderBalance(v, a, t, n)
  PROVE  TraderMoved(v, w, a, t, n)
<1> DEFINE s == v.traderTokens[a]
           list == IF v.traderBalances[a][t] = 0 THEN Append(s, t) ELSE s
<1>1. v \in Vaults BY DEF Good
<1>2. v.traderBalances[a][t] \in Nat /\ s \in Seq(Tokens) BY <1>1 DEF Vaults, PerToken
<1>3. CASE n = 0 BY <1>3, NotMoved DEF IncreaseTraderBalance
<1>4. CASE n # 0
  <2>1. w = Rebooked(v, a, t, n, list)
    BY <1>1, <1>4 DEF IncreaseTraderBalance, Rebooked, BalancesPlus, Vaults
  <2>2. /\ BalancesPlus(v, a, t, n)[a][t] = v.traderBalances[a][t] + n
        /\ \A u \in Tokens : u # t => BalancesPlus(v, a, t, n)[a][u] = v.traderBalances[a][u]
    BY <1>1, <1>2, BalancesPlusIs
  <2>3. Distinct(s) /\ \A u \in Tokens : Listed(s, u) <=> v.traderBalances[a][u] > 0
    BY DEF Good, ListedExactly, Distinct
  <2>4. /\ list \in Seq(Tokens) /\ Distinct(list)
        /\ \A u \in Tokens : Listed(list, u) <=> (u = t \/ Listed(s, u))
    <3>1. CASE v.traderBalances[a][t] = 0
      <4>1. list = Append(s, t) BY <3>1
      <4>2. ~ Listed(s, t) BY <2>3, <3>1
      <4> HIDE DEF s, list
      <4> DEFINE n1 == Len(s)
      <4>3. /\ n1 \in Nat /\ DOMAIN s = 1 .. n1 /\ list \in Seq(Tokens)
            /\ DOMAIN list = 1 .. n1 + 1 /\ list[n1 + 1] = t
            /\ \A i \in 1 .. n1 : list[i] = s[i]
        BY <1>2, <4>1
      <4> HIDE DEF n1
      <4>4. \A i \in 1 .. n1 + 1 : i \in 1 .. n1 \/ i = n1 + 1 BY <4>3
      <4>5. \A i \in 1 .. n1 : i \in 1 .. n1 + 1 BY <4>3
      <4>6. n1 + 1 \in 1 .. n1 + 1 BY <4>3
      <4>7. Distinct(list) BY <4>2, <4>3, <4>4, <2>3 DEF Distinct, Listed
      <4>8. \A u \in Tokens : Listed(list, u) <=> (u = t \/ Listed(s, u))
        BY <4>3, <4>4, <4>5, <4>6 DEF Listed
      <4> QED BY <4>3, <4>7, <4>8
    <3>2. CASE v.traderBalances[a][t] # 0
      <4>1. list = s BY <3>2
      <4>2. Listed(s, t) BY <1>2, <2>3, <3>2
      <4> QED BY <1>2, <2>3, <4>1, <4>2
    <3> QED BY <3>1, <3>2
  <2> HIDE DEF list, s
  <2>5. \A u \in Tokens : Listed(list, u) <=> BalancesPlus(v, a, t, n)[a][u] > 0
    BY <1>2, <1>4, <2>2, <2>3, <2>4
  <2>6. v.traderBalances[a][t] + n >= 0 BY <1>2
  <2> QED BY <2>1, <2>4, <2>5, <2>6, RebookedIs
<1> QED BY <1>3, <1>4

(* _deductTraderBalance: the balance falls by n, and the list follows. *)
LEMMA DeductIs ==
  ASSUME NEW v, Good(v), NEW a \in SubAccounts, NEW t \in Tokens, NEW n \in Nat,
         n <= v.traderBalances[a][t],
         NEW w, w = DeductTraderBalance(v, a, t, n)
  PROVE  TraderMoved(v, w, a, t, 0 - n)
<1> DEFINE s == v.traderTokens[a]
           list == IF v.traderBalances[a][t] = n /\ Listed(s, t) THEN SwapAndPop(s, t) ELSE s
<1>1. v \in Vaults BY DEF Good
<1>2. v.traderBalances[a][t] \in Nat /\ s \in Seq(Tokens) BY <1>1 DEF Vaults, PerToken
<1>3. CASE n = 0
  <2>1. w = v BY <1>3 DEF DeductTraderBalance
  <2>2. 0 - n = 0 BY <1>3
  <2> QED BY <2>1, <2>2, NotMoved
<1>4. CASE n # 0
  <2>1. w = Rebooked(v, a, t, 0 - n, list)
    <3>1. v.traderBalances[a][t] - n = v.traderBalances[a][t] + (0 - n) BY <1>2
    <3> QED BY <1>1, <1>4, <3>1 DEF DeductTraderBalance, Rebooked, BalancesPlus, Vaults
  <2>2. /\ BalancesPlus(v, a, t, 0 - n)[a][t] = v.traderBalances[a][t] + (0 - n)
        /\ \A u \in Tokens : u # t => BalancesPlus(v, a, t, 0 - n)[a][u] = v.traderBalances[a][u]
    <3>1. 0 - n \in Int /\ v.traderBalances[a][t] + (0 - n) >= 0 BY <1>2
    <3> QED BY <1>1, <3>1, BalancesPlusIs
  <2>3. Distinct(s) /\ \A u \in Tokens : Listed(s, u) <=> v.traderBalances[a][u] > 0
    BY DEF Good, ListedExactly, Distinct
  <2>4. Listed(s, t) BY <1>2, <1>4, <2>3
  <2>5. /\ list \in Seq(Tokens) /\ Distinct(list)
        /\ \A u \in Tokens :
              Listed(list, u) <=> (IF u = t /\ v.traderBalances[a][t] = n
                                   THEN FALSE ELSE Listed(s, u))
    <3>1. CASE v.traderBalances[a][t] = n
      <4>1. list = SwapAndPop(s, t) BY <2>4, <3>1
      <4> HIDE DEF s, list
      <4> QED BY <1>2, <2>3, <2>4, <3>1, <4>1, SwapAndPopIs
    <3>2. CASE v.traderBalances[a][t] # n
      <4>1. list = s BY <3>2
      <4> HIDE DEF s, list
      <4> QED BY <1>2, <2>3, <3>2, <4>1
    <3> QED BY <3>1, <3>2
  <2> HIDE DEF list, s
  <2>6. \A u \in Tokens : Listed(list, u) <=> BalancesPlus(v, a, t, 0 - n)[a][u] > 0
    BY <1>2, <1>4, <2>2, <2>3, <2>4, <2>5
  <2>7. v.traderBalances[a][t] + (0 - n) >= 0 /\ 0 - n \in Int BY <1>2
  <2> QED BY <2>1, <2>5, <2>6, <2>7, RebookedIs
<1> QED BY <1>3, <1>4

-----------------------------------------------------------------------------
(* Claims changing hands. *)

(* w is v with claims moved between claimants: the tokens are where they     *)
(* were and as much is owed of each.                                         *)
Settled(v, w) ==
  Good(w) /\ SameTokens(v, w) /\ \A u \in Tokens : Owed(w, u) = Owed(v, u)

(* Settling twice is settling. *)
LEMMA SettledTwice ==
  ASSUME NEW v, NEW x, NEW w, Settled(v, x), Settled(x, w)
  PROVE  Settled(v, w)
BY DEF Settled, SameTokens

(* A field to which nothing is added is the same. *)
LEMMA PlusZero ==
  ASSUME NEW f \in PerToken, NEW t \in Tokens
  PROVE  Plus(f, t, 0) = f
BY DEF PerToken, Plus

(* Each single addition is one of the five gains, the others being zero.     *)
LEMMA SingleGains ==
  ASSUME NEW v \in Vaults, NEW t \in Tokens, NEW n \in Int
  PROVE  /\ [v EXCEPT !.hlpLiquidity[t] = @ + n] = Gains(v, t, n, 0, 0, 0, 0)
         /\ [v EXCEPT !.protocolFees[t] = @ + n] = Gains(v, t, 0, n, 0, 0, 0)
         /\ [v EXCEPT !.devFees[t] = @ + n] = Gains(v, t, 0, 0, n, 0, 0)
         /\ [v EXCEPT !.fundingFeeReserve[t] = @ + n] = Gains(v, t, 0, 0, 0, n, 0)
         /\ [v EXCEPT !.hlpLiquidityDebt = @ + n] = Gains(v, t, 0, 0, 0, 0, n)
<1>1. /\ v.hlpLiquidity \in PerToken /\ v.protocolFees \in PerToken
      /\ v.devFees \in PerToken /\ v.fundingFeeReserve \in PerToken
      /\ v.hlpLiquidityDebt \in Nat
  BY DEF Vaults
<1>2. /\ Plus(v.hlpLiquidity, t, 0) = v.hlpLiquidity
      /\ Plus(v.protocolFees, t, 0) = v.protocolFees
      /\ Plus(v.devFees, t, 0) = v.devFees
      /\ Plus(v.fundingFeeReserve, t, 0) = v.fundingFeeReserve
      /\ v.hlpLiquidityDebt + 0 = v.hlpLiquidityDebt
  BY <1>1, PlusZero
<1>3. [v EXCEPT !.hlpLiquidity[t] = @ + n] = Gains(v, t, n, 0, 0, 0, 0)
  <2>1. [v EXCEPT !.hlpLiquidity[t] = @ + n]
          = Filled(v, Plus(v.hlpLiquidity, t, n), v.protocolFees, v.devFees,
                   v.fundingFeeReserve, v.hlpLiquidityDebt)
    BY DEF Filled, Plus, Vaults
  <2> QED BY <1>2, <2>1 DEF Gains
<1>4. [v EXCEPT !.protocolFees[t] = @ + n] = Gains(v, t, 0, n, 0, 0, 0)
  <2>1. [v EXCEPT !.protocolFees[t] = @ + n]
          = Filled(v, v.hlpLiquidity, Plus(v.protocolFees, t, n), v.devFees,
                   v.fundingFeeReserve, v.hlpLiquidityDebt)
    BY DEF Filled, Plus, Vaults
  <2> QED BY <1>2, <2>1 DEF Gains
<1>5. [v EXCEPT !.devFees[t] = @ + n] = Gains(v, t, 0, 0, n, 0, 0)
  <2>1. [v EXCEPT !.devFees[t] = @ + n]
          = Filled(v, v.hlpLiquidity, v.protocolFees, Plus(v.devFees, t, n),
                   v.fundingFeeReserve, v.hlpLiquidityDebt)
    BY DEF Filled, Plus, Vaults
  <2> QED BY <1>2, <2>1 DEF Gains
<1>6. [v EXCEPT !.fundingFeeReserve[t] = @ + n] = Gains(v, t, 0, 0, 0, n, 0)
  <2>1. [v EXCEPT !.fundingFeeReserve[t] = @ + n]
          = Filled(v, v.hlpLiquidity, v.protocolFees, v.devFees,
                   Plus(v.fundingFeeReserve, t, n), v.hlpLiquidityDebt)
    BY DEF Filled, Plus, Vaults
  <2> QED BY <1>2, <2>1 DEF Gains
<1>7. [v EXCEPT !.hlpLiquidityDebt = @ + n] = Gains(v, t, 0, 0, 0, 0, n)
  <2>1. [v EXCEPT !.hlpLiquidityDebt = @ + n]
          = Filled(v, v.hlpLiquidity, v.protocolFees, v.devFees,
                   v.fundingFeeReserve, v.hlpLiquidityDebt + n)
    BY DEF Filled, Vaults
  <2> QED BY <1>2, <2>1 DEF Gains
<1> QED BY <1>3, <1>4, <1>5, <1>6, <1>7

(* Gaining nothing leaves each of the five as it is. *)
LEMMA NoGain ==
  ASSUME NEW v \in Vaults, NEW t \in Tokens
  PROVE  /\ Plus(v.hlpLiquidity, t, 0) = v.hlpLiquidity
         /\ Plus(v.protocolFees, t, 0) = v.protocolFees
         /\ Plus(v.devFees, t, 0) = v.devFees
         /\ Plus(v.fundingFeeReserve, t, 0) = v.fundingFeeReserve
         /\ v.hlpLiquidityDebt + 0 = v.hlpLiquidityDebt
<1>1. /\ v.hlpLiquidity \in PerToken /\ v.protocolFees \in PerToken
      /\ v.devFees \in PerToken /\ v.fundingFeeReserve \in PerToken
      /\ v.hlpLiquidityDebt \in Nat
  BY DEF Vaults
<1> QED BY <1>1, PlusZero

(* A payment out of a's balance: n goes from a's collateral in t to the      *)
(* pool, the fees or the reserve.                                            *)
Paid(v, w, a, t, n) ==
  /\ Settled(v, w)
  /\ w.debt = v.debt /\ w.globalDebt = v.globalDebt
  /\ w.traderBalances = BalancesPlus(v, a, t, 0 - n)

(* A deduction followed by gains that add up to it is a payment. *)
LEMMA DeductThenGain ==
  ASSUME NEW v, Good(v), NEW a \in SubAccounts, NEW t \in Tokens, NEW n \in Nat,
         n <= v.traderBalances[a][t],
         NEW hlp \in Nat, NEW fee \in Nat, NEW dev \in Nat, NEW reserve \in Nat,
         hlp + fee + dev + reserve = n,
         NEW debt \in Int, v.hlpLiquidityDebt + debt >= 0,
         NEW x, x = DeductTraderBalance(v, a, t, n),
         NEW w, w = Gains(x, t, hlp, fee, dev, reserve, debt)
  PROVE  Paid(v, w, a, t, n)
<1>1. TraderMoved(v, x, a, t, 0 - n) BY DeductIs
<1>2. Good(v) /\ Good(x) /\ v \in Vaults /\ x \in Vaults BY <1>1 DEF TraderMoved, Good
<1>3. /\ x.hlpLiquidity[t] + hlp >= 0 /\ x.protocolFees[t] + fee >= 0
      /\ x.devFees[t] + dev >= 0 /\ x.fundingFeeReserve[t] + reserve >= 0
  <2>1. /\ x.hlpLiquidity[t] \in Nat /\ x.protocolFees[t] \in Nat
        /\ x.devFees[t] \in Nat /\ x.fundingFeeReserve[t] \in Nat
    BY <1>2, EntriesNat
  <2> QED BY <2>1
<1>4. x.hlpLiquidityDebt + debt >= 0 BY <1>1 DEF TraderMoved
<1>5. /\ Good(w) /\ SameBooks(x, w) /\ SameTokens(x, w)
      /\ OwesMore(x, w, t, hlp + fee + dev + reserve)
  BY <1>2, <1>3, <1>4, GainsIs
<1>6. \A u \in Tokens : Owed(w, u) = Owed(v, u)
  <2> SUFFICES ASSUME NEW u \in Tokens PROVE Owed(w, u) = Owed(v, u)
    OBVIOUS
  <2>1. Owed(v, u) \in Nat BY <1>2, OwedNat
  <2>2. Owed(x, u) = Owed(v, u) + (IF u = t THEN 0 - n ELSE 0)
    BY <1>1 DEF TraderMoved, OwesMore
  <2>3. Owed(w, u) = Owed(x, u) + (IF u = t THEN n ELSE 0)
    BY <1>5 DEF OwesMore
  <2> QED BY <2>1, <2>2, <2>3
<1>7. SameTokens(v, w) BY <1>1, <1>5 DEF TraderMoved, SameTokens
<1> QED BY <1>1, <1>5, <1>6, <1>7 DEF Paid, Settled, TraderMoved, SameBooks

(* A payment into a's balance from the pool, the fees or the reserve. *)
Credited(v, w, a, t, n) ==
  /\ Settled(v, w)
  /\ w.debt = v.debt /\ w.globalDebt = v.globalDebt
  /\ w.hlpLiquidityDebt = v.hlpLiquidityDebt
  /\ w.traderBalances = BalancesPlus(v, a, t, n)

(* Losses of the pool or the reserve that add up to an increase are one. *)
LEMMA LoseThenIncrease ==
  ASSUME NEW v, Good(v), NEW a \in SubAccounts, NEW t \in Tokens, NEW n \in Nat,
         NEW hlp \in Int, NEW reserve \in Int, hlp + reserve = 0 - n,
         v.hlpLiquidity[t] + hlp >= 0, v.fundingFeeReserve[t] + reserve >= 0,
         NEW x, x = Gains(v, t, hlp, 0, 0, reserve, 0),
         NEW w, w = IncreaseTraderBalance(x, a, t, n)
  PROVE  Credited(v, w, a, t, n)
<1>1. v \in Vaults BY DEF Good
<1>2. v.protocolFees[t] + 0 >= 0 /\ v.devFees[t] + 0 >= 0 /\ v.hlpLiquidityDebt + 0 >= 0
  <2>1. v.protocolFees[t] \in Nat /\ v.devFees[t] \in Nat /\ v.hlpLiquidityDebt \in Nat
    BY <1>1, EntriesNat
  <2> QED BY <2>1
<1>3. /\ Good(x) /\ SameBooks(v, x) /\ SameTokens(v, x)
      /\ OwesMore(v, x, t, hlp + 0 + 0 + reserve)
      /\ x.hlpLiquidityDebt = v.hlpLiquidityDebt + 0
  BY <1>2, GainsIs
<1>4. TraderMoved(x, w, a, t, n) BY <1>3, IncreaseIs
<1>5. \A u \in Tokens : Owed(w, u) = Owed(v, u)
  <2> SUFFICES ASSUME NEW u \in Tokens PROVE Owed(w, u) = Owed(v, u)
    OBVIOUS
  <2>1. Owed(v, u) \in Nat BY <1>1, OwedNat
  <2>2. hlp + 0 + 0 + reserve = 0 - n OBVIOUS
  <2>3. Owed(x, u) = Owed(v, u) + (IF u = t THEN 0 - n ELSE 0)
    BY <1>3, <2>2 DEF OwesMore
  <2>4. Owed(w, u) = Owed(x, u) + (IF u = t THEN n ELSE 0)
    BY <1>4 DEF TraderMoved, OwesMore
  <2> QED BY <2>1, <2>3, <2>4
<1>6. SameTokens(v, w) BY <1>3, <1>4 DEF TraderMoved, SameTokens
<1>7. v.hlpLiquidityDebt + 0 = v.hlpLiquidityDebt
  <2>1. v.hlpLiquidityDebt \in Nat BY <1>1 DEF Vaults
  <2> QED BY <2>1
<1>8. w.traderBalances = BalancesPlus(v, a, t, n)
  BY <1>3, <1>4 DEF TraderMoved, SameBooks, BalancesPlus
<1> QED BY <1>3, <1>4, <1>5, <1>6, <1>7, <1>8 DEF Credited, Settled, TraderMoved, SameBooks

(* After a payment the payer has that much less. *)
LEMMA PaidBalance ==
  ASSUME NEW v, Good(v), NEW a \in SubAccounts, NEW t \in Tokens, NEW n \in Nat,
         n <= v.traderBalances[a][t], NEW w, w.traderBalances = BalancesPlus(v, a, t, 0 - n)
  PROVE  w.traderBalances[a][t] = v.traderBalances[a][t] - n
<1>1. v \in Vaults /\ v.traderBalances[a][t] \in Nat BY EntriesNat DEF Good
<1>2. 0 - n \in Int /\ v.traderBalances[a][t] + (0 - n) >= 0 BY <1>1
<1>3. w.traderBalances[a][t] = v.traderBalances[a][t] + (0 - n) BY <1>1, <1>2, BalancesPlusIs
<1> QED BY <1>1, <1>3

(* Nobody has less after a's balance has risen. *)
LEMMA MoreForOne ==
  ASSUME NEW v \in Vaults, NEW a \in SubAccounts, NEW t \in Tokens, NEW n \in Nat,
         NEW w, w.traderBalances = BalancesPlus(v, a, t, n)
  PROVE  \A c \in SubAccounts, u \in Tokens : v.traderBalances[c][u] <= w.traderBalances[c][u]
<1> TAKE c \in SubAccounts, u \in Tokens
<1>1. v.traderBalances[c][u] \in Nat /\ v.traderBalances[a][t] \in Nat BY EntriesNat
<1>2. v.traderBalances[a][t] + n >= 0 BY <1>1
<1>3. /\ w.traderBalances[a][t] = v.traderBalances[a][t] + n
      /\ \A q \in Tokens : q # t => w.traderBalances[a][q] = v.traderBalances[a][q]
      /\ \A b \in SubAccounts : b # a => w.traderBalances[b] = v.traderBalances[b]
  BY <1>2, BalancesPlusIs
<1>4. CASE c # a BY <1>1, <1>3, <1>4
<1>5. CASE c = a /\ u # t BY <1>1, <1>3, <1>5
<1>6. CASE c = a /\ u = t BY <1>1, <1>3, <1>6
<1> QED BY <1>4, <1>5, <1>6

(* A transfer moves a claim from one trader to another, or to himself. *)
LEMMA TransferIs ==
  ASSUME NEW v, Good(v), NEW a \in SubAccounts, NEW b \in SubAccounts,
         NEW t \in Tokens, NEW n \in Nat, n <= v.traderBalances[a][t],
         NEW w, w = Transfer(v, t, a, b, n)
  PROVE  /\ Settled(v, w) /\ w.debt = v.debt /\ w.globalDebt = v.globalDebt
         /\ w.hlpLiquidityDebt = v.hlpLiquidityDebt
         /\ v.traderBalances[a][t] - n <= w.traderBalances[a][t]
         /\ a # b => w.traderBalances[a][t] = v.traderBalances[a][t] - n
         /\ \A c \in SubAccounts, u \in Tokens :
               c # a \/ u # t => v.traderBalances[c][u] <= w.traderBalances[c][u]
         /\ \A u \in Tokens :
               a # b /\ u # t => w.traderBalances[a][u] = v.traderBalances[a][u]
<1> DEFINE x == DeductTraderBalance(v, a, t, n)
<1>1. TraderMoved(v, x, a, t, 0 - n) BY DeductIs
<1>2. w = IncreaseTraderBalance(x, b, t, n) BY DEF Transfer
<1> HIDE DEF x
<1>3. TraderMoved(x, w, b, t, n) BY <1>1, <1>2, IncreaseIs DEF TraderMoved
<1>4. v \in Vaults /\ x \in Vaults /\ w \in Vaults BY <1>1, <1>3 DEF TraderMoved, Good
<1>5. \A u \in Tokens : Owed(w, u) = Owed(v, u)
  <2> SUFFICES ASSUME NEW u \in Tokens PROVE Owed(w, u) = Owed(v, u)
    OBVIOUS
  <2>1. Owed(v, u) \in Nat BY <1>4, OwedNat
  <2>2. Owed(x, u) = Owed(v, u) + (IF u = t THEN 0 - n ELSE 0)
    BY <1>1 DEF TraderMoved, OwesMore
  <2>3. Owed(w, u) = Owed(x, u) + (IF u = t THEN n ELSE 0)
    BY <1>3 DEF TraderMoved, OwesMore
  <2> QED BY <2>1, <2>2, <2>3
<1>6. SameTokens(v, w) BY <1>1, <1>3 DEF TraderMoved, SameTokens
<1>7. x.traderBalances[a][t] = v.traderBalances[a][t] - n
  BY <1>1, PaidBalance DEF TraderMoved
<1>8. /\ x.traderBalances[a][t] <= w.traderBalances[a][t]
      /\ a # b => w.traderBalances[a] = x.traderBalances[a]
  <2>1. /\ x.traderBalances[a][t] \in Nat /\ x.traderBalances[b][t] \in Nat
        /\ w.traderBalances = BalancesPlus(x, b, t, n)
    BY <1>3, <1>4, EntriesNat DEF TraderMoved
  <2>2. x.traderBalances[b][t] + n >= 0 BY <2>1
  <2>3. /\ BalancesPlus(x, b, t, n)[b][t] = x.traderBalances[b][t] + n
        /\ \A c \in SubAccounts : c # b => BalancesPlus(x, b, t, n)[c] = x.traderBalances[c]
    BY <1>4, <2>2, BalancesPlusIs
  <2>4. CASE a = b BY <2>1, <2>3, <2>4
  <2>5. CASE a # b BY <2>1, <2>3, <2>5
  <2> QED BY <2>4, <2>5
<1>9. /\ \A u \in Tokens : u # t => x.traderBalances[a][u] = v.traderBalances[a][u]
      /\ \A c \in SubAccounts : c # a => x.traderBalances[c] = v.traderBalances[c]
  <2>1. v.traderBalances[a][t] \in Nat BY <1>4, EntriesNat
  <2>2. v.traderBalances[a][t] + (0 - n) >= 0 /\ 0 - n \in Int BY <2>1
  <2> QED BY <1>1, <1>4, <2>2, BalancesPlusIs DEF TraderMoved
<1>10. \A c \in SubAccounts, u \in Tokens : x.traderBalances[c][u] <= w.traderBalances[c][u]
  BY <1>3, <1>4, MoreForOne DEF TraderMoved
<1>11. \A c \in SubAccounts, u \in Tokens :
          c # a \/ u # t => v.traderBalances[c][u] <= w.traderBalances[c][u]
  BY <1>9, <1>10
<1> QED BY <1>1, <1>3, <1>5, <1>6, <1>7, <1>8, <1>9, <1>11 DEF TraderMoved, Settled

-----------------------------------------------------------------------------
(* The payments themselves. *)

(* payTradingFee and payBorrowingFee. *)
LEMMA FeePaid ==
  ASSUME NEW v, Good(v), NEW a \in SubAccounts, NEW t \in Tokens,
         NEW dev \in Nat, NEW rest \in Nat, dev + rest <= v.traderBalances[a][t]
  PROVE  /\ Paid(v, PayTradingFee(v, a, t, dev, rest), a, t, dev + rest)
         /\ Paid(v, PayBorrowingFee(v, a, t, dev, rest), a, t, dev + rest)
<1> DEFINE n == dev + rest
           x == DeductTraderBalance(v, a, t, n)
<1>1. v \in Vaults /\ v.hlpLiquidityDebt \in Nat BY DEF Good, Vaults
<1>2. n \in Nat /\ 0 + rest + dev + 0 = n /\ rest + 0 + dev + 0 = n OBVIOUS
<1>3. x \in Vaults
  <2>1. TraderMoved(v, x, a, t, 0 - n) BY <1>2, DeductIs
  <2> QED BY <2>1 DEF TraderMoved, Good
<1>4. v.hlpLiquidityDebt + 0 >= 0 BY <1>1
<1>5. PayTradingFee(v, a, t, dev, rest) = Gains(x, t, 0, rest, dev, 0, 0)
  <2> DEFINE y == Filled(x, x.hlpLiquidity, Plus(x.protocolFees, t, rest),
                         Plus(x.devFees, t, dev), x.fundingFeeReserve,
                         x.hlpLiquidityDebt)
  <2>1. PayTradingFee(v, a, t, dev, rest) = y
    BY <1>3 DEF PayTradingFee, Filled, Plus, Vaults
  <2> HIDE DEF x
  <2>2. y = Gains(x, t, 0, rest, dev, 0, 0) BY <1>3, NoGain DEF Gains
  <2> QED BY <2>1, <2>2
<1>6. PayBorrowingFee(v, a, t, dev, rest) = Gains(x, t, rest, 0, dev, 0, 0)
  <2> DEFINE y == Filled(x, Plus(x.hlpLiquidity, t, rest), x.protocolFees,
                         Plus(x.devFees, t, dev), x.fundingFeeReserve,
                         x.hlpLiquidityDebt)
  <2>1. PayBorrowingFee(v, a, t, dev, rest) = y
    BY <1>3 DEF PayBorrowingFee, Filled, Plus, Vaults
  <2> HIDE DEF x
  <2>2. y = Gains(x, t, rest, 0, dev, 0, 0) BY <1>3, NoGain DEF Gains
  <2> QED BY <2>1, <2>2
<1>7. n <= v.traderBalances[a][t] OBVIOUS
<1> HIDE DEF x, n
<1>8. Paid(v, Gains(x, t, 0, rest, dev, 0, 0), a, t, n)
  BY <1>2, <1>4, <1>7, DeductThenGain DEF x
<1>9. Paid(v, Gains(x, t, rest, 0, dev, 0, 0), a, t, n)
  BY <1>2, <1>4, <1>7, DeductThenGain DEF x
<1> QED BY <1>5, <1>6, <1>8, <1>9 DEF n

(* payFundingFeeFromTraderToHlp ... repayFundingFeeDebtFromTraderToHlp and   *)
(* payFundingFeeFromTraderToFundingFeeReserve.                               *)
LEMMA FundingPaid ==
  ASSUME NEW v, Good(v), NEW a \in SubAccounts, NEW t \in Tokens, NEW n \in Nat,
         n <= v.traderBalances[a][t], NEW value \in Nat
  PROVE  /\ Paid(v, PayFundingFeeToReserve(v, a, t, n), a, t, n)
         /\ value <= v.hlpLiquidityDebt =>
              Paid(v, RepayFundingFeeDebtToHlp(v, a, t, n, value), a, t, n)
<1> DEFINE x == DeductTraderBalance(v, a, t, n)
<1>1. v \in Vaults /\ v.hlpLiquidityDebt \in Nat BY DEF Good, Vaults
<1>2. 0 + 0 + 0 + n = n /\ n + 0 + 0 + 0 = n /\ 0 - value \in Int OBVIOUS
<1>3. x \in Vaults
  <2>1. TraderMoved(v, x, a, t, 0 - n) BY DeductIs
  <2> QED BY <2>1 DEF TraderMoved, Good
<1>4. v.hlpLiquidityDebt + 0 >= 0 BY <1>1
<1>5. value <= v.hlpLiquidityDebt => v.hlpLiquidityDebt + (0 - value) >= 0 BY <1>1
<1>6. PayFundingFeeToReserve(v, a, t, n) = Gains(x, t, 0, 0, 0, n, 0)
  BY <1>3, SingleGains DEF PayFundingFeeToReserve
<1>7. RepayFundingFeeDebtToHlp(v, a, t, n, value) = Gains(x, t, n, 0, 0, 0, 0 - value)
  <2> DEFINE y == Filled(x, Plus(x.hlpLiquidity, t, n), x.protocolFees, x.devFees,
                         x.fundingFeeReserve, x.hlpLiquidityDebt - value)
  <2>1. RepayFundingFeeDebtToHlp(v, a, t, n, value) = y
    BY <1>3 DEF RepayFundingFeeDebtToHlp, Filled, Plus, Vaults
  <2> HIDE DEF x
  <2>2. x.hlpLiquidityDebt + (0 - value) = x.hlpLiquidityDebt - value
    <3>1. x.hlpLiquidityDebt \in Nat BY <1>3 DEF Vaults
    <3> QED BY <3>1
  <2>3. y = Gains(x, t, n, 0, 0, 0, 0 - value) BY <1>3, <2>2, NoGain DEF Gains
  <2> QED BY <2>1, <2>3
<1> HIDE DEF x
<1>8. Paid(v, Gains(x, t, 0, 0, 0, n, 0), a, t, n)
  BY <1>2, <1>4, DeductThenGain DEF x
<1>9. value <= v.hlpLiquidityDebt => Paid(v, Gains(x, t, n, 0, 0, 0, 0 - value), a, t, n)
  BY <1>2, <1>5, DeductThenGain DEF x
<1> QED BY <1>6, <1>7, <1>8, <1>9

(* payHlp: the pool gains before the trader is charged. *)
LEMMA HlpPaid ==
  ASSUME NEW v, Good(v), NEW a \in SubAccounts, NEW t \in Tokens, NEW n \in Nat,
         n <= v.traderBalances[a][t]
  PROVE  Paid(v, PayHlp(v, a, t, n), a, t, n)
<1> DEFINE x == [v EXCEPT !.hlpLiquidity[t] = @ + n]
           w == PayHlp(v, a, t, n)
<1>1. v \in Vaults BY DEF Good
<1>2. x = Gains(v, t, n, 0, 0, 0, 0) BY <1>1, SingleGains
<1>3. w = DeductTraderBalance(x, a, t, n) BY DEF PayHlp
<1> HIDE DEF x, w
<1>4. /\ v.hlpLiquidity[t] + n >= 0 /\ v.protocolFees[t] + 0 >= 0 /\ v.devFees[t] + 0 >= 0
      /\ v.fundingFeeReserve[t] + 0 >= 0 /\ v.hlpLiquidityDebt + 0 >= 0
  <2>1. /\ v.hlpLiquidity[t] \in Nat /\ v.protocolFees[t] \in Nat /\ v.devFees[t] \in Nat
        /\ v.fundingFeeReserve[t] \in Nat /\ v.hlpLiquidityDebt \in Nat
    BY <1>1, EntriesNat
  <2> QED BY <2>1
<1>5. /\ Good(x) /\ SameBooks(v, x) /\ SameTokens(v, x)
      /\ OwesMore(v, x, t, n + 0 + 0 + 0)
  BY <1>2, <1>4, GainsIs
<1>6. n <= x.traderBalances[a][t] BY <1>5 DEF SameBooks
<1>7. TraderMoved(x, w, a, t, 0 - n) BY <1>3, <1>5, <1>6, DeductIs
<1>8. \A u \in Tokens : Owed(w, u) = Owed(v, u)
  <2> SUFFICES ASSUME NEW u \in Tokens PROVE Owed(w, u) = Owed(v, u)
    OBVIOUS
  <2>1. Owed(v, u) \in Nat BY <1>1, OwedNat
  <2>2. Owed(x, u) = Owed(v, u) + (IF u = t THEN n ELSE 0)
    <3>1. n + 0 + 0 + 0 = n OBVIOUS
    <3> QED BY <1>5, <3>1 DEF OwesMore
  <2>3. Owed(w, u) = Owed(x, u) + (IF u = t THEN 0 - n ELSE 0)
    BY <1>7 DEF TraderMoved, OwesMore
  <2> QED BY <2>1, <2>2, <2>3
<1>9. SameTokens(v, w) BY <1>5, <1>7 DEF TraderMoved, SameTokens
<1>10. w.traderBalances = BalancesPlus(v, a, t, 0 - n)
  BY <1>5, <1>7 DEF TraderMoved, SameBooks, BalancesPlus
<1>11. Paid(v, w, a, t, n)
  BY <1>5, <1>7, <1>8, <1>9, <1>10 DEF Paid, Settled, TraderMoved, SameBooks
<1> QED BY <1>11 DEF w

(* payTraderProfit without a settlement fee, as it is always called. *)
LEMMA ProfitCredited ==
  ASSUME NEW v, Good(v), NEW a \in SubAccounts, NEW t \in Tokens, NEW n \in Nat,
         n <= v.hlpLiquidity[t]
  PROVE  Credited(v, PayTraderProfit(v, a, t, n, 0), a, t, n)
<1> DEFINE x == [v EXCEPT !.hlpLiquidity[t] = @ - n, !.protocolFees[t] = @ + 0]
<1>1. v \in Vaults BY DEF Good
<1>2. /\ v.hlpLiquidity[t] \in Nat /\ v.fundingFeeReserve[t] \in Nat
      /\ v.hlpLiquidity \in PerToken
  BY <1>1, EntriesNat DEF Vaults
<1>3. x = Gains(v, t, 0 - n, 0, 0, 0, 0)
  <2> DEFINE h == [v.hlpLiquidity EXCEPT ![t] = @ - n]
             y == Filled(v, h, Plus(v.protocolFees, t, 0), v.devFees, v.fundingFeeReserve,
                         v.hlpLiquidityDebt)
  <2>1. x = y BY <1>1 DEF Filled, Plus, Vaults
  <2>2. h = Plus(v.hlpLiquidity, t, 0 - n) BY <1>2 DEF Plus, PerToken
  <2> HIDE DEF x, h
  <2> QED BY <1>1, <2>1, <2>2, NoGain DEF Gains
<1>4. n - 0 = n OBVIOUS
<1>5. PayTraderProfit(v, a, t, n, 0) = IncreaseTraderBalance(x, a, t, n)
  BY <1>4 DEF PayTraderProfit
<1> HIDE DEF x
<1>6. /\ 0 - n \in Int /\ (0 - n) + 0 = 0 - n
      /\ v.hlpLiquidity[t] + (0 - n) >= 0 /\ v.fundingFeeReserve[t] + 0 >= 0
  BY <1>2
<1> QED BY <1>3, <1>5, <1>6, LoseThenIncrease

(* payFundingFeeFromFundingFeeReserveToTrader. *)
LEMMA FundingCredited ==
  ASSUME NEW v, Good(v), NEW a \in SubAccounts, NEW t \in Tokens, NEW n \in Nat,
         n <= v.fundingFeeReserve[t]
  PROVE  Credited(v, PayFundingFeeFromReserve(v, a, t, n), a, t, n)
<1> DEFINE x == [v EXCEPT !.fundingFeeReserve[t] = @ - n]
<1>1. v \in Vaults BY DEF Good
<1>2. /\ v.hlpLiquidity[t] \in Nat /\ v.fundingFeeReserve[t] \in Nat
      /\ v.fundingFeeReserve \in PerToken
  BY <1>1, EntriesNat DEF Vaults
<1>3. x = Gains(v, t, 0, 0, 0, 0 - n, 0)
  <2> DEFINE r == [v.fundingFeeReserve EXCEPT ![t] = @ - n]
             y == Filled(v, v.hlpLiquidity, v.protocolFees, v.devFees, r, v.hlpLiquidityDebt)
  <2>1. x = y BY <1>1 DEF Filled, Vaults
  <2>2. r = Plus(v.fundingFeeReserve, t, 0 - n) BY <1>2 DEF Plus, PerToken
  <2> HIDE DEF x, r
  <2> QED BY <1>1, <2>1, <2>2, NoGain DEF Gains
<1>4. PayFundingFeeFromReserve(v, a, t, n) = IncreaseTraderBalance(x, a, t, n)
  BY DEF PayFundingFeeFromReserve
<1> HIDE DEF x
<1>5. /\ 0 - n \in Int /\ 0 + (0 - n) = 0 - n
      /\ v.hlpLiquidity[t] + 0 >= 0 /\ v.fundingFeeReserve[t] + (0 - n) >= 0
  BY <1>2
<1> QED BY <1>3, <1>4, <1>5, LoseThenIncrease

(* borrowFundingFeeFromHlpToTrader: the pool also books what it is owed. *)
LEMMA FundingBorrowed ==
  ASSUME NEW v, Good(v), NEW a \in SubAccounts, NEW t \in Tokens, NEW n \in Nat,
         n <= v.hlpLiquidity[t], NEW value \in Nat
  PROVE  LET w == BorrowFundingFeeFromHlp(v, a, t, n, value)
         IN  /\ Settled(v, w) /\ w.debt = v.debt
             /\ w.traderBalances = BalancesPlus(v, a, t, n)
<1> DEFINE x == [v EXCEPT !.hlpLiquidity[t] = @ - n]
           y == IncreaseTraderBalance(x, a, t, n)
           w == [y EXCEPT !.hlpLiquidityDebt = @ + value]
<1>1. v \in Vaults BY DEF Good
<1>2. /\ v.hlpLiquidity[t] \in Nat /\ v.fundingFeeReserve[t] \in Nat
      /\ v.hlpLiquidity \in PerToken
  BY <1>1, EntriesNat DEF Vaults
<1>3. x = Gains(v, t, 0 - n, 0, 0, 0, 0)
  <2> DEFINE h == [v.hlpLiquidity EXCEPT ![t] = @ - n]
             z == Filled(v, h, v.protocolFees, v.devFees, v.fundingFeeReserve, v.hlpLiquidityDebt)
  <2>1. x = z BY <1>1 DEF Filled, Vaults
  <2>2. h = Plus(v.hlpLiquidity, t, 0 - n) BY <1>2 DEF Plus, PerToken
  <2> HIDE DEF x, h
  <2> QED BY <1>1, <2>1, <2>2, NoGain DEF Gains
<1>4. BorrowFundingFeeFromHlp(v, a, t, n, value) = w
  BY DEF BorrowFundingFeeFromHlp
<1> HIDE DEF x
<1>5. /\ 0 - n \in Int /\ (0 - n) + 0 = 0 - n
      /\ v.hlpLiquidity[t] + (0 - n) >= 0 /\ v.fundingFeeReserve[t] + 0 >= 0
  BY <1>2
<1>6. Credited(v, y, a, t, n) BY <1>3, <1>5, LoseThenIncrease
<1> HIDE DEF y
<1>7. Good(y) /\ y \in Vaults BY <1>6 DEF Credited, Settled, Good
<1>8. w = Gains(y, t, 0, 0, 0, 0, value) BY <1>7, SingleGains
<1> HIDE DEF w
<1>9. /\ y.hlpLiquidity[t] + 0 >= 0 /\ y.protocolFees[t] + 0 >= 0 /\ y.devFees[t] + 0 >= 0
      /\ y.fundingFeeReserve[t] + 0 >= 0 /\ y.hlpLiquidityDebt + value >= 0
  <2>1. /\ y.hlpLiquidity[t] \in Nat /\ y.protocolFees[t] \in Nat /\ y.devFees[t] \in Nat
        /\ y.fundingFeeReserve[t] \in Nat /\ y.hlpLiquidityDebt \in Nat
    BY <1>7, EntriesNat
  <2> QED BY <2>1
<1>10. Good(w) /\ SameBooks(y, w) /\ SameTokens(y, w) /\ OwesMore(y, w, t, 0 + 0 + 0 + 0)
  BY <1>7, <1>8, <1>9, GainsIs
<1>11. \A u \in Tokens : Owed(w, u) = Owed(y, u)
  <2>1. \A u \in Tokens : Owed(y, u) \in Nat BY <1>7, OwedNat
  <2> QED BY <1>10, <2>1 DEF OwesMore
<1>12. Settled(y, w) BY <1>10, <1>11 DEF Settled
<1>13. Settled(v, w) BY <1>6, <1>12, SettledTwice DEF Credited
<1>14. w.debt = v.debt /\ w.traderBalances = BalancesPlus(v, a, t, n)
  BY <1>6, <1>10 DEF Credited, SameBooks
<1> QED BY <1>4, <1>13, <1>14

-----------------------------------------------------------------------------
(* addDebt and subDebt of any kind: a debt is never lowered by more than it  *)
(* is, and then the global debt can be lowered by as much.                   *)
LEMMA AddDebtIs ==
  ASSUME NEW v, Good(v), NEW kind \in DebtKinds, NEW a \in SubAccounts, NEW n \in Nat
  PROVE  LET w == AddDebt(v, kind, a, n)
         IN  Settled(v, w) /\ DebtMoved(v, w, kind, a, n)
<1> DEFINE w == AddDebt(v, kind, a, n)
<1>1. v.debt[kind][a] + n >= 0
  <2>1. v.debt[kind][a] \in Nat BY DEF Good, Vaults
  <2> QED BY <2>1
<1>2. w = DebtPlus(v, kind, a, n) BY DEF AddDebt, DebtPlus
<1> HIDE DEF w
<1>3. /\ Good(w) /\ SameTokens(v, w) /\ DebtMoved(v, w, kind, a, n)
      /\ \A t \in Tokens : Owed(w, t) = Owed(v, t)
  BY <1>1, <1>2, DebtPlusIs
<1> QED BY <1>3 DEF Settled, w

(* Paying a debt, in part or in full, moves no token and no claim. *)
LEMMA SubDebtIs ==
  ASSUME NEW v, Good(v), NEW kind \in DebtKinds, NEW a \in SubAccounts, NEW n \in Nat,
         n <= v.debt[kind][a]
  PROVE  LET w == SubDebt(v, kind, a, n)
         IN  /\ Settled(v, w) /\ DebtMoved(v, w, kind, a, 0 - n)
             /\ w.hlpLiquidityDebt = v.hlpLiquidityDebt
<1> DEFINE w == SubDebt(v, kind, a, n)
<1>1. v \in Vaults /\ v.debt[kind][a] \in Nat /\ v.globalDebt[kind] \in Nat
  BY DEF Good, Vaults
<1>2. 0 - n \in Int /\ v.debt[kind][a] + (0 - n) >= 0
      /\ v.debt[kind][a] + (0 - n) = v.debt[kind][a] - n
      /\ v.globalDebt[kind] + (0 - n) = v.globalDebt[kind] - n
  BY <1>1
<1>3. w = DebtPlus(v, kind, a, 0 - n) BY <1>1, <1>2 DEF SubDebt, DebtPlus, Vaults
<1> HIDE DEF w
<1>4. /\ Good(w) /\ SameTokens(v, w) /\ DebtMoved(v, w, kind, a, 0 - n)
      /\ w.hlpLiquidityDebt = v.hlpLiquidityDebt
      /\ \A t \in Tokens : Owed(w, t) = Owed(v, t)
  BY <1>2, <1>3, DebtPlusIs
<1> QED BY <1>4 DEF Settled, w

-----------------------------------------------------------------------------
(* What TradeHelper's settlements leave true.  A payer is never charged more *)
(* than he has nor for more than he owes, whatever the price, so each leg    *)
(* only moves claims between claimants; and so does every loop over the      *)
(* pool's assets, however many there are.  A leg takes all the payer has of  *)
(* an asset or pays all of its debt: so debts are paid in order, and are     *)
(* left only to a payer who has nothing more.                                *)

(* Rounding down: what integer division promises. *)
LEMMA DivIs ==
  ASSUME NEW m \in Nat, NEW n \in Nat \ {0}
  PROVE  m \div n \in Nat /\ (m \div n) * n <= m
OBVIOUS

(* A quotient by n is at most k when the dividend is at most k times n.      *)
LEMMA DivAtMost ==
  ASSUME NEW m \in Nat, NEW n \in Nat \ {0}, NEW k \in Nat, m <= k * n
  PROVE  m \div n <= k
<1> DEFINE q == m \div n
<1>1. q \in Nat /\ q * n <= m BY DivIs
<1> HIDE DEF q
<1>2. SUFFICES ASSUME k < q PROVE FALSE BY <1>1 DEF q
<1>3. k + 1 <= q BY <1>1, <1>2
<1>4. (k + 1) * n <= q * n BY <1>1, <1>3
<1>5. (k + 1) * n = k * n + n OBVIOUS
<1>6. k * n + n <= k * n BY <1>1, <1>4, <1>5
<1> QED BY <1>6

(* Products grow with their factors. *)
LEMMA TimesGrows ==
  ASSUME NEW m \in Nat, NEW k \in Nat, NEW n \in Nat, m <= k
  PROVE  m * n <= k * n
OBVIOUS

(* _getRepayAmount never takes more than the balance and never counts more   *)
(* than the value owed as paid; it takes all of one or pays all of the other *)
LEMMA RepayAmountIs ==
  ASSUME NEW balance \in Nat, NEW value \in Nat, NEW price \in Nat \ {0}
  PROVE  LET r == RepayAmount(balance, value, price) IN
         /\ r.amount \in Nat /\ r.amount <= balance
         /\ r.value \in Nat /\ r.value <= value
         /\ r.amount = balance \/ r.value = value
<1> DEFINE fee == (value * Unit) \div price
           worth == (balance * price) \div Unit
<1>1. Unit \in Nat \ {0} BY TradeHelperAssumption
<1>2. value * Unit \in Nat /\ balance * price \in Nat BY <1>1
<1>3. fee \in Nat /\ fee * price <= value * Unit /\ worth \in Nat
  BY <1>1, <1>2, DivIs
<1>4. CASE balance > fee
  <2>1. RepayAmount(balance, value, price) = [amount |-> fee, value |-> value]
    BY <1>4 DEF RepayAmount
  <2> HIDE DEF fee, worth
  <2> QED BY <1>3, <1>4, <2>1
<1>5. CASE ~ (balance > fee)
  <2>1. RepayAmount(balance, value, price) = [amount |-> balance, value |-> worth]
    BY <1>5 DEF RepayAmount
  <2>2. worth <= value
    <3> HIDE DEF fee
    <3>1. balance <= fee BY <1>3, <1>5
    <3>2. balance * price <= fee * price BY <1>3, <3>1, TimesGrows
    <3>3. balance * price <= value * Unit BY <1>1, <1>2, <1>3, <3>2
    <3> QED BY <1>1, <1>2, <3>3, DivAtMost
  <2> HIDE DEF fee, worth
  <2> QED BY <1>3, <2>1, <2>2
<1> QED BY <1>4, <1>5

(* The developer's share of a fee is part of the fee. *)
LEMMA DevShareIs ==
  ASSUME NEW amount \in Nat
  PROVE  DevShare(amount) \in Nat /\ DevShare(amount) <= amount
<1>1. BPS \in Nat \ {0} /\ DevFeeRateBPS \in Nat /\ DevFeeRateBPS <= BPS
  BY TradeHelperAssumption
<1>2. amount * DevFeeRateBPS \in Nat /\ amount * DevFeeRateBPS <= amount * BPS
  <2>1. DevFeeRateBPS * amount <= BPS * amount BY <1>1, TimesGrows
  <2> QED BY <1>1, <2>1
<1> QED BY <1>1, <1>2, DivIs, DivAtMost DEF DevShare

-----------------------------------------------------------------------------
(* Whose books a settlement touches.                                         *)

(* From v to w no trader but a has lost collateral or has other debts. *)
Spares(v, w, a) ==
  \A b \in SubAccounts \ {a} :
     /\ \A t \in Tokens : w.traderBalances[b][t] >= v.traderBalances[b][t]
     /\ \A k \in DebtKinds : w.debt[k][b] = v.debt[k][b]

(* Sparing the others twice is sparing them. *)
LEMMA SparesTwice ==
  ASSUME NEW v \in Vaults, NEW x \in Vaults, NEW w \in Vaults, NEW a \in SubAccounts,
         Spares(v, x, a), Spares(x, w, a)
  PROVE  Spares(v, w, a)
<1> SUFFICES ASSUME NEW b \in SubAccounts \ {a}
             PROVE  /\ \A t \in Tokens : w.traderBalances[b][t] >= v.traderBalances[b][t]
                    /\ \A k \in DebtKinds : w.debt[k][b] = v.debt[k][b]
  BY DEF Spares
<1>1. \A k \in DebtKinds : w.debt[k][b] = v.debt[k][b] BY DEF Spares
<1>2. ASSUME NEW t \in Tokens PROVE w.traderBalances[b][t] >= v.traderBalances[b][t]
  <2>1. /\ v.traderBalances[b][t] \in Nat /\ x.traderBalances[b][t] \in Nat
        /\ w.traderBalances[b][t] \in Nat
    BY EntriesNat
  <2>2. /\ x.traderBalances[b][t] >= v.traderBalances[b][t]
        /\ w.traderBalances[b][t] >= x.traderBalances[b][t]
    BY DEF Spares
  <2> QED BY <2>1, <2>2
<1> QED BY <1>1, <1>2

(* A vault with the same balances and debts spares everybody. *)
LEMMA SparesAll ==
  ASSUME NEW v \in Vaults, NEW w, NEW a \in SubAccounts,
         w.traderBalances = v.traderBalances, w.debt = v.debt
  PROVE  Spares(v, w, a)
<1>1. \A b \in SubAccounts, t \in Tokens : v.traderBalances[b][t] \in Nat BY EntriesNat
<1> QED BY <1>1 DEF Spares

(* A change of a's balances spares the others. *)
LEMMA SparesOthers ==
  ASSUME NEW v \in Vaults, NEW w, NEW a \in SubAccounts, NEW t \in Tokens, NEW n \in Int,
         v.traderBalances[a][t] + n >= 0,
         w.traderBalances = BalancesPlus(v, a, t, n), w.debt = v.debt
  PROVE  Spares(v, w, a)
<1>1. \A b \in SubAccounts, u \in Tokens : v.traderBalances[b][u] \in Nat BY EntriesNat
<1>2. \A b \in SubAccounts : b # a => w.traderBalances[b] = v.traderBalances[b]
  BY BalancesPlusIs
<1> QED BY <1>1, <1>2 DEF Spares

(* So does a change of his debts. *)
LEMMA DebtSpares ==
  ASSUME NEW v \in Vaults, NEW w, NEW a \in SubAccounts, NEW kind \in DebtKinds, NEW n \in Int,
         DebtMoved(v, w, kind, a, n)
  PROVE  Spares(v, w, a)
<1>1. \A b \in SubAccounts, t \in Tokens : v.traderBalances[b][t] \in Nat BY EntriesNat
<1> QED BY <1>1 DEF Spares, DebtMoved

-----------------------------------------------------------------------------
(* _decreaseCollateral: a leg's state is a vault settled from the one the    *)
(* call began with, and payer is covered by the trader's balance in t.       *)
Legs == [v : Vaults, payer : Nat, liquidation : Nat]

Within(v, s, a, t) ==
  s \in Legs /\ Settled(v, s.v) /\ s.payer <= s.v.traderBalances[a][t]

(* A leg pays a's debt of one kind out of his balance in t and runs payer    *)
(* down by as much; when payer has nothing it does nothing.                  *)
PaysOnly(s, z, a, t, kind) ==
  /\ Spares(s.v, z.v, a)
  /\ \A u \in Tokens : u # t => z.v.traderBalances[a][u] = s.v.traderBalances[a][u]
  /\ z.v.traderBalances[a][t] - z.payer = s.v.traderBalances[a][t] - s.payer
  /\ \A k \in DebtKinds : k # kind => z.v.debt[k][a] = s.v.debt[k][a]
  /\ z.v.debt[kind][a] <= s.v.debt[kind][a]
  /\ z.payer <= s.payer /\ z.liquidation = s.liquidation
  /\ s.payer = 0 => z = s

(* Either the payer or the debt is exhausted. *)
Exhausted(z, a, kind) == z.payer = 0 \/ z.v.debt[kind][a] = 0

(* A leg that is not taken. *)
LEMMA PaysNothing ==
  ASSUME NEW v, NEW s, NEW a \in SubAccounts, NEW t \in Tokens, Within(v, s, a, t),
         NEW kind \in DebtKinds
  PROVE  PaysOnly(s, s, a, t, kind)
<1>1. s \in Legs /\ s.payer \in Nat /\ s.v \in Vaults BY DEF Within, Legs
<1>2. s.v.traderBalances[a][t] \in Nat /\ s.v.debt[kind][a] \in Nat BY <1>1, EntriesNat
<1>3. Spares(s.v, s.v, a) BY <1>1, SparesAll
<1> QED BY <1>1, <1>2, <1>3 DEF PaysOnly

(* A leg's state after n of payer went, to lower a debt by value. *)
Charged(s, x, kind, a, n, value) ==
  [s EXCEPT !.v = SubDebt(x, kind, a, value), !.payer = @ - n]

Lowered(s, z, a, kind, n, value) ==
  z.payer = s.payer - n /\ z.v.debt[kind][a] = s.v.debt[kind][a] - value

(* A payment within the payer's balance that lowers a debt by no more than   *)
(* it is keeps a leg's state.                                                *)
LEMMA DebtPaid ==
  ASSUME NEW v, NEW s, NEW a \in SubAccounts, NEW t \in Tokens, Within(v, s, a, t),
         NEW n \in Nat, n <= s.payer, NEW x, Paid(s.v, x, a, t, n),
         NEW kind \in DebtKinds, NEW value \in Nat, value <= s.v.debt[kind][a]
  PROVE  LET z == Charged(s, x, kind, a, n, value) IN
         /\ Within(v, z, a, t) /\ Lowered(s, z, a, kind, n, value)
         /\ s.payer > 0 => PaysOnly(s, z, a, t, kind)
<1> DEFINE w == SubDebt(x, kind, a, value)
           z == Charged(s, x, kind, a, n, value)
<1>1. /\ s \in Legs /\ s.payer \in Nat /\ Settled(v, s.v) /\ Good(s.v)
      /\ s.payer <= s.v.traderBalances[a][t]
  BY DEF Within, Legs, Settled
<1>2. Settled(s.v, x) /\ Good(x) /\ x.debt = s.v.debt
  BY DEF Paid, Settled
<1>3. /\ s.v.traderBalances[a][t] \in Nat
      /\ x.traderBalances[a][t] = s.v.traderBalances[a][t] - n
  <2>1. s.v.traderBalances[a][t] \in Nat BY <1>1, EntriesNat DEF Good
  <2>2. n <= s.v.traderBalances[a][t] BY <1>1, <2>1
  <2>3. x.traderBalances = BalancesPlus(s.v, a, t, 0 - n) BY DEF Paid
  <2> QED BY <1>1, <2>1, <2>2, <2>3, PaidBalance
<1>4. Settled(x, w) /\ DebtMoved(x, w, kind, a, 0 - value) BY <1>2, SubDebtIs
<1> HIDE DEF w
<1>5. Settled(v, w) BY <1>1, <1>2, <1>4, SettledTwice
<1>6. w \in Vaults BY <1>5 DEF Settled, Good
<1>7. z = [s EXCEPT !.v = w, !.payer = @ - n] BY DEF w, Charged
<1> HIDE DEF z
<1>8. z.v = w /\ z.payer = s.payer - n BY <1>1, <1>7 DEF Legs
<1>9. s.payer - n \in Nat BY <1>1
<1>10. z \in Legs BY <1>1, <1>6, <1>7, <1>9 DEF Legs
<1>11. s.payer - n <= s.v.traderBalances[a][t] - n BY <1>1, <1>3
<1>12. Within(v, z, a, t)
  BY <1>3, <1>4, <1>5, <1>8, <1>10, <1>11 DEF Within, DebtMoved
<1>13. z.v.debt[kind][a] = s.v.debt[kind][a] - value
  <2>1. s.v.debt[kind][a] \in Nat BY <1>1, EntriesNat DEF Legs
  <2>2. w.debt[kind][a] = s.v.debt[kind][a] + (0 - value) BY <1>2, <1>4 DEF DebtMoved
  <2> QED BY <1>8, <2>1, <2>2
<1>14. Spares(s.v, z.v, a)
  <2>1. s.v \in Vaults /\ x \in Vaults /\ w \in Vaults BY <1>1, <1>2, <1>6 DEF Legs, Good
  <2>2. s.v.traderBalances[a][t] + (0 - n) >= 0 /\ 0 - n \in Int BY <1>1, <1>3
  <2>3. Spares(s.v, x, a) BY <2>1, <2>2, SparesOthers DEF Paid
  <2>4. Spares(x, w, a) BY <1>4, <2>1, DebtSpares
  <2> QED BY <1>8, <2>1, <2>3, <2>4, SparesTwice
<1>15. \A u \in Tokens : u # t => z.v.traderBalances[a][u] = s.v.traderBalances[a][u]
  <2>1. s.v \in Vaults /\ s.v.traderBalances[a][t] + (0 - n) >= 0 /\ 0 - n \in Int
    BY <1>1, <1>3 DEF Good
  <2>2. w.traderBalances = BalancesPlus(s.v, a, t, 0 - n) BY <1>4 DEF DebtMoved, Paid
  <2> QED BY <1>8, <2>1, <2>2, BalancesPlusIs
<1>16. z.v.traderBalances[a][t] - z.payer = s.v.traderBalances[a][t] - s.payer
  BY <1>1, <1>3, <1>4, <1>8 DEF DebtMoved
<1>17. \A k \in DebtKinds : k # kind => z.v.debt[k][a] = s.v.debt[k][a]
  BY <1>2, <1>4, <1>8 DEF DebtMoved
<1>18. z.v.debt[kind][a] <= s.v.debt[kind][a]
  <2>1. s.v.debt[kind][a] \in Nat BY <1>1, EntriesNat DEF Legs
  <2> QED BY <1>13, <2>1
<1>19. z.payer <= s.payer /\ z.liquidation = s.liquidation
  BY <1>1, <1>7, <1>8 DEF Legs
<1> QED
  BY <1>1, <1>8, <1>12, <1>13, <1>14, <1>15, <1>16, <1>17, <1>18, <1>19
     DEF PaysOnly, Lowered, z

(* A leg keeps a leg's state and pays only what it is for. *)
LegIs(v, s, z, a, t, kind) == Within(v, z, a, t) /\ PaysOnly(s, z, a, t, kind)

(* A leg is taken when there is a payer's balance and a debt; it takes all   *)
(* of the one or pays all of the other.                                      *)
LEMMA LegTaken ==
  ASSUME NEW v, NEW s, NEW a \in SubAccounts, NEW t \in Tokens, Within(v, s, a, t),
         NEW kind \in DebtKinds, NEW z, Within(v, z, a, t),
         s.payer > 0 => PaysOnly(s, z, a, t, kind),
         NEW amount \in Nat, NEW value \in Nat,
         amount = s.payer \/ value = s.v.debt[kind][a],
         Lowered(s, z, a, kind, amount, value),
         NEW w, w = IF s.payer > 0 /\ s.v.debt[kind][a] > 0 THEN z ELSE s
  PROVE  LegIs(v, s, w, a, t, kind) /\ Exhausted(w, a, kind)
<1>1. s \in Legs /\ s.payer \in Nat /\ s.v \in Vaults BY DEF Within, Legs
<1>2. s.v.debt[kind][a] \in Nat BY <1>1 DEF Vaults
<1>3. CASE s.payer > 0 /\ s.v.debt[kind][a] > 0
  BY <1>1, <1>2, <1>3 DEF LegIs, Exhausted, Lowered
<1>4. CASE ~ (s.payer > 0 /\ s.v.debt[kind][a] > 0)
  <2>1. PaysOnly(s, s, a, t, kind) BY PaysNothing
  <2>2. s.payer = 0 \/ s.v.debt[kind][a] = 0 BY <1>1, <1>2, <1>4
  <2>3. w = s BY <1>4
  <2> QED BY <2>1, <2>2, <2>3 DEF LegIs, Exhausted
<1> QED BY <1>3, <1>4

(* What a leg may pay: never more than the payer has or the trader owes. *)
LEMMA LegPays ==
  ASSUME NEW v, NEW s, NEW a \in SubAccounts, NEW t \in Tokens, Within(v, s, a, t),
         NEW owed \in Nat, NEW price \in Nat \ {0}
  PROVE  LET r == RepayAmount(s.payer, owed, price) IN
         /\ r.amount \in Nat /\ r.amount <= s.payer
         /\ r.amount <= s.v.traderBalances[a][t]
         /\ r.value \in Nat /\ r.value <= owed
         /\ r.amount = s.payer \/ r.value = owed
<1> DEFINE r == RepayAmount(s.payer, owed, price)
<1>1. s.payer \in Nat /\ s.payer <= s.v.traderBalances[a][t] BY DEF Within, Legs
<1>2. s.v.traderBalances[a][t] \in Nat BY EntriesNat DEF Within, Settled, Good
<1>3. /\ r.amount \in Nat /\ r.amount <= s.payer /\ r.value \in Nat /\ r.value <= owed
      /\ r.amount = s.payer \/ r.value = owed
  BY <1>1, RepayAmountIs
<1> HIDE DEF r
<1>4. r.amount <= s.v.traderBalances[a][t] BY <1>1, <1>2, <1>3
<1> QED BY <1>3, <1>4 DEF r

(* The debts of a trader in a leg's vault are natural numbers. *)
LEMMA LegOwes ==
  ASSUME NEW v, NEW s, NEW a \in SubAccounts, NEW t \in Tokens, Within(v, s, a, t)
  PROVE  /\ Good(s.v) /\ s \in Legs /\ s.v.hlpLiquidityDebt \in Nat
         /\ \A kind \in DebtKinds : s.v.debt[kind][a] \in Nat
<1>1. Good(s.v) /\ s.v \in Vaults /\ s \in Legs BY DEF Within, Settled, Good
<1> QED BY <1>1, EntriesNat

(* Every leg of _decreaseCollateral keeps a leg's state; the liquidation fee  *)
(* goes to the liquidator, out of nobody's balance but the trader's.         *)
LEMMA LiquidationFeeIs ==
  ASSUME NEW v, NEW s, NEW a \in SubAccounts, NEW t \in Tokens, Within(v, s, a, t),
         NEW p \in [Tokens -> Nat \ {0}], NEW b \in SubAccounts
  PROVE  LET z == LiquidationFee(s, a, t, p, b)
         IN  /\ Within(v, z, a, t) /\ Spares(s.v, z.v, a)
             /\ s.liquidation = 0 => z = s
<1> DEFINE r == RepayAmount(s.payer, s.liquidation, p[t])
           w == Transfer(s.v, t, a, b, r.amount)
<1>1. /\ s \in Legs /\ s.payer \in Nat /\ s.liquidation \in Nat
      /\ Settled(v, s.v) /\ Good(s.v) /\ s.payer <= s.v.traderBalances[a][t]
  BY DEF Within, Legs, Settled
<1>2. /\ r.amount \in Nat /\ r.amount <= s.payer
      /\ r.amount <= s.v.traderBalances[a][t]
      /\ r.value \in Nat /\ r.value <= s.liquidation
  BY <1>1, LegPays
<1>3. LiquidationFee(s, a, t, p, b)
        = IF s.payer > 0 /\ s.liquidation > 0
          THEN [v |-> w, payer |-> s.payer - r.amount,
                liquidation |-> s.liquidation - r.value]
          ELSE s
  BY DEF LiquidationFee
<1> HIDE DEF r
<1>4. /\ Settled(s.v, w) /\ s.v.traderBalances[a][t] - r.amount <= w.traderBalances[a][t]
      /\ w.debt = s.v.debt
      /\ \A c \in SubAccounts \ {a}, u \in Tokens :
            s.v.traderBalances[c][u] <= w.traderBalances[c][u]
  BY <1>1, <1>2, TransferIs
<1> HIDE DEF w
<1>5. Settled(v, w) /\ w \in Vaults
  BY <1>1, <1>4, SettledTwice DEF Settled, Good
<1>6. /\ s.payer - r.amount \in Nat /\ s.liquidation - r.value \in Nat
      /\ s.payer - r.amount <= w.traderBalances[a][t]
  <2>1. s.v.traderBalances[a][t] \in Nat /\ w.traderBalances[a][t] \in Nat
    BY <1>1, <1>5, EntriesNat DEF Good
  <2> QED BY <1>1, <1>2, <1>4, <2>1
<1>7. Within(v, [v |-> w, payer |-> s.payer - r.amount,
                 liquidation |-> s.liquidation - r.value], a, t)
  BY <1>5, <1>6 DEF Within, Legs
<1>8. Spares(s.v, w, a)
  <2>1. \A c \in SubAccounts, u \in Tokens :
          s.v.traderBalances[c][u] \in Nat /\ w.traderBalances[c][u] \in Nat
    BY <1>1, <1>5, EntriesNat DEF Legs
  <2> QED BY <1>4, <2>1 DEF Spares
<1>9. Spares(s.v, s.v, a) BY <1>1, SparesAll DEF Legs
<1> QED BY <1>3, <1>7, <1>8, <1>9

(* The two fees that a developer shares in. *)
LEMMA BorrowingFeeIs ==
  ASSUME NEW v, NEW s, NEW a \in SubAccounts, NEW t \in Tokens, Within(v, s, a, t),
         NEW p \in [Tokens -> Nat \ {0}]
  PROVE  /\ LegIs(v, s, BorrowingFeeToHlp(s, a, t, p), a, t, "borrowingFee")
         /\ Exhausted(BorrowingFeeToHlp(s, a, t, p), a, "borrowingFee")
         /\ LegIs(v, s, TradingFeeToProtocol(s, a, t, p), a, t, "tradingFee")
         /\ Exhausted(TradingFeeToProtocol(s, a, t, p), a, "tradingFee")
<1>1. /\ Good(s.v) /\ s \in Legs /\ \A kind \in DebtKinds : s.v.debt[kind][a] \in Nat
  BY LegOwes
<1>2. "borrowingFee" \in DebtKinds /\ "tradingFee" \in DebtKinds BY DEF DebtKinds
<1>3. /\ LegIs(v, s, BorrowingFeeToHlp(s, a, t, p), a, t, "borrowingFee")
      /\ Exhausted(BorrowingFeeToHlp(s, a, t, p), a, "borrowingFee")
  <2> DEFINE owed == s.v.debt["borrowingFee"][a]
             r == RepayAmount(s.payer, owed, p[t])
             dev == DevShare(r.amount)
             x == PayBorrowingFee(s.v, a, t, dev, r.amount - dev)
             z == Charged(s, x, "borrowingFee", a, r.amount, r.value)
  <2>1. owed \in Nat BY <1>1, <1>2
  <2>2. BorrowingFeeToHlp(s, a, t, p) = IF s.payer > 0 /\ owed > 0 THEN z ELSE s
    BY DEF BorrowingFeeToHlp, Charged
  <2> HIDE DEF owed
  <2>3. /\ r.amount \in Nat /\ r.amount <= s.payer /\ r.value \in Nat /\ r.value <= owed
        /\ r.amount <= s.v.traderBalances[a][t]
        /\ r.amount = s.payer \/ r.value = owed
    BY <2>1, LegPays
  <2> HIDE DEF r
  <2>4. dev \in Nat /\ dev <= r.amount BY <2>3, DevShareIs
  <2> HIDE DEF dev
  <2>5. r.amount - dev \in Nat /\ dev + (r.amount - dev) = r.amount BY <2>3, <2>4
  <2>6. Paid(s.v, x, a, t, r.amount) BY <1>1, <2>3, <2>4, <2>5, FeePaid
  <2> HIDE DEF x
  <2>7. /\ Within(v, z, a, t) /\ Lowered(s, z, a, "borrowingFee", r.amount, r.value)
        /\ s.payer > 0 => PaysOnly(s, z, a, t, "borrowingFee")
    BY <1>2, <2>3, <2>6, DebtPaid DEF owed
  <2> HIDE DEF z
  <2> QED BY <1>1, <1>2, <2>1, <2>2, <2>3, <2>7, LegTaken DEF owed
<1>4. /\ LegIs(v, s, TradingFeeToProtocol(s, a, t, p), a, t, "tradingFee")
      /\ Exhausted(TradingFeeToProtocol(s, a, t, p), a, "tradingFee")
  <2> DEFINE owed == s.v.debt["tradingFee"][a]
             r == RepayAmount(s.payer, owed, p[t])
             dev == DevShare(r.amount)
             x == PayTradingFee(s.v, a, t, dev, r.amount - dev)
             z == Charged(s, x, "tradingFee", a, r.amount, r.value)
  <2>1. owed \in Nat BY <1>1, <1>2
  <2>2. TradingFeeToProtocol(s, a, t, p) = IF s.payer > 0 /\ owed > 0 THEN z ELSE s
    BY DEF TradingFeeToProtocol, Charged
  <2> HIDE DEF owed
  <2>3. /\ r.amount \in Nat /\ r.amount <= s.payer /\ r.value \in Nat /\ r.value <= owed
        /\ r.amount <= s.v.traderBalances[a][t]
        /\ r.amount = s.payer \/ r.value = owed
    BY <2>1, LegPays
  <2> HIDE DEF r
  <2>4. dev \in Nat /\ dev <= r.amount BY <2>3, DevShareIs
  <2> HIDE DEF dev
  <2>5. r.amount - dev \in Nat /\ dev + (r.amount - dev) = r.amount BY <2>3, <2>4
  <2>6. Paid(s.v, x, a, t, r.amount) BY <1>1, <2>3, <2>4, <2>5, FeePaid
  <2> HIDE DEF x
  <2>7. /\ Within(v, z, a, t) /\ Lowered(s, z, a, "tradingFee", r.amount, r.value)
        /\ s.payer > 0 => PaysOnly(s, z, a, t, "tradingFee")
    BY <1>2, <2>3, <2>6, DebtPaid DEF owed
  <2> HIDE DEF z
  <2> QED BY <1>1, <1>2, <2>1, <2>2, <2>3, <2>7, LegTaken DEF owed
<1> QED BY <1>3, <1>4

(* The funding fee: first what the pool has advanced, then the reserve.      *)
LEMMA FundingFeeIs ==
  ASSUME NEW v, NEW s, NEW a \in SubAccounts, NEW t \in Tokens, Within(v, s, a, t),
         NEW p \in [Tokens -> Nat \ {0}]
  PROVE  /\ LegIs(v, s, FundingFeeToHlp(s, a, t, p), a, t, "fundingFee")
         /\ LegIs(v, s, FundingFeeToReserve(s, a, t, p), a, t, "fundingFee")
         /\ Exhausted(FundingFeeToReserve(s, a, t, p), a, "fundingFee")
<1>1. /\ Good(s.v) /\ s \in Legs /\ \A kind \in DebtKinds : s.v.debt[kind][a] \in Nat
      /\ s.v.hlpLiquidityDebt \in Nat
  BY LegOwes
<1>2. "fundingFee" \in DebtKinds BY DEF DebtKinds
<1>3. LegIs(v, s, FundingFeeToHlp(s, a, t, p), a, t, "fundingFee")
  <2> DEFINE owed == s.v.debt["fundingFee"][a]
             due == Least(owed, s.v.hlpLiquidityDebt)
             r == RepayAmount(s.payer, due, p[t])
             x == RepayFundingFeeDebtToHlp(s.v, a, t, r.amount, r.value)
             z == Charged(s, x, "fundingFee", a, r.amount, r.value)
  <2>1. owed \in Nat BY <1>1, <1>2
  <2>2. FundingFeeToHlp(s, a, t, p)
          = IF s.payer > 0 /\ owed > 0 /\ s.v.hlpLiquidityDebt > 0 THEN z ELSE s
    BY DEF FundingFeeToHlp, Charged
  <2> HIDE DEF owed
  <2>3. due \in Nat /\ due <= owed /\ due <= s.v.hlpLiquidityDebt
    BY <1>1, <2>1 DEF Least
  <2> HIDE DEF due
  <2>4. /\ r.amount \in Nat /\ r.amount <= s.payer /\ r.value \in Nat /\ r.value <= due
        /\ r.amount <= s.v.traderBalances[a][t]
    BY <2>3, LegPays
  <2> HIDE DEF r
  <2>5. r.value <= owed /\ r.value <= s.v.hlpLiquidityDebt BY <1>1, <2>1, <2>3, <2>4
  <2>6. Paid(s.v, x, a, t, r.amount) BY <1>1, <2>4, <2>5, FundingPaid
  <2> HIDE DEF x
  <2>7. /\ Within(v, z, a, t)
        /\ s.payer > 0 => PaysOnly(s, z, a, t, "fundingFee")
    BY <1>2, <2>4, <2>5, <2>6, DebtPaid DEF owed
  <2>8. LegIs(v, s, s, a, t, "fundingFee") BY <1>2, PaysNothing DEF LegIs
  <2> HIDE DEF z
  <2> QED BY <2>2, <2>7, <2>8 DEF LegIs
<1>4. /\ LegIs(v, s, FundingFeeToReserve(s, a, t, p), a, t, "fundingFee")
      /\ Exhausted(FundingFeeToReserve(s, a, t, p), a, "fundingFee")
  <2> DEFINE owed == s.v.debt["fundingFee"][a]
             r == RepayAmount(s.payer, owed, p[t])
             x == PayFundingFeeToReserve(s.v, a, t, r.amount)
             z == Charged(s, x, "fundingFee", a, r.amount, r.value)
  <2>1. owed \in Nat BY <1>1, <1>2
  <2>2. FundingFeeToReserve(s, a, t, p) = IF s.payer > 0 /\ owed > 0 THEN z ELSE s
    BY DEF FundingFeeToReserve, Charged
  <2> HIDE DEF owed
  <2>3. /\ r.amount \in Nat /\ r.amount <= s.payer /\ r.value \in Nat /\ r.value <= owed
        /\ r.amount <= s.v.traderBalances[a][t]
        /\ r.amount = s.payer \/ r.value = owed
    BY <2>1, LegPays
  <2> HIDE DEF r
  <2>4. Paid(s.v, x, a, t, r.amount) BY <1>1, <2>3, FundingPaid
  <2> HIDE DEF x
  <2>5. /\ Within(v, z, a, t) /\ Lowered(s, z, a, "fundingFee", r.amount, r.value)
        /\ s.payer > 0 => PaysOnly(s, z, a, t, "fundingFee")
    BY <1>2, <2>3, <2>4, DebtPaid DEF owed
  <2> HIDE DEF z
  <2> QED BY <1>1, <1>2, <2>1, <2>2, <2>3, <2>5, LegTaken DEF owed
<1> QED BY <1>3, <1>4

(* The loss, to the pool. *)
LEMMA LossIs ==
  ASSUME NEW v, NEW s, NEW a \in SubAccounts, NEW t \in Tokens, Within(v, s, a, t),
         NEW p \in [Tokens -> Nat \ {0}]
  PROVE  /\ LegIs(v, s, LossToHlp(s, a, t, p), a, t, "loss")
         /\ Exhausted(LossToHlp(s, a, t, p), a, "loss")
<1> DEFINE owed == s.v.debt["loss"][a]
           r == RepayAmount(s.payer, owed, p[t])
           x == PayHlp(s.v, a, t, r.amount)
           z == Charged(s, x, "loss", a, r.amount, r.value)
<1>1. /\ Good(s.v) /\ s \in Legs /\ \A kind \in DebtKinds : s.v.debt[kind][a] \in Nat
  BY LegOwes
<1>2. "loss" \in DebtKinds BY DEF DebtKinds
<1>3. owed \in Nat BY <1>1, <1>2
<1>4. LossToHlp(s, a, t, p) = IF s.payer > 0 /\ owed > 0 THEN z ELSE s
  BY DEF LossToHlp, Charged
<1> HIDE DEF owed
<1>5. /\ r.amount \in Nat /\ r.amount <= s.payer /\ r.value \in Nat /\ r.value <= owed
      /\ r.amount <= s.v.traderBalances[a][t]
      /\ r.amount = s.payer \/ r.value = owed
  BY <1>3, LegPays
<1> HIDE DEF r
<1>6. Paid(s.v, x, a, t, r.amount) BY <1>1, <1>5, HlpPaid
<1> HIDE DEF x
<1>7. /\ Within(v, z, a, t) /\ Lowered(s, z, a, "loss", r.amount, r.value)
      /\ s.payer > 0 => PaysOnly(s, z, a, t, "loss")
  BY <1>2, <1>5, <1>6, DebtPaid DEF owed
<1> HIDE DEF z
<1> QED BY <1>1, <1>2, <1>3, <1>4, <1>5, <1>7, LegTaken DEF owed

(* The order in which a token is spent on the debts. *)
LegOrder == <<"borrowingFee", "tradingFee", "fundingFee", "loss">>

(* The legs of token t leave a's balances and debts no higher, and either    *)
(* the balance in t or every debt is gone; while some of a debt is left the  *)
(* debts after it in the order are as they were.                             *)
TokenPaid(v, w, a, t) ==
  /\ \A u \in Tokens : w.traderBalances[a][u] <= v.traderBalances[a][u]
  /\ \A k \in DebtKinds : w.debt[k][a] <= v.debt[k][a]
  /\ w.traderBalances[a][t] = 0 \/ \A k \in DebtKinds : w.debt[k][a] = 0
  /\ \A i \in 1 .. 4 : \A j \in i + 1 .. 4 :
        w.debt[LegOrder[i]][a] > 0 => w.debt[LegOrder[j]][a] = v.debt[LegOrder[j]][a]

(* The legs of one token, one after the other, from a payer with all of the  *)
(* balance to the end.                                                       *)
LEMMA LegsPay ==
  ASSUME NEW v, NEW a \in SubAccounts, NEW t \in Tokens,
         NEW s1, Within(v, s1, a, t), s1.payer = s1.v.traderBalances[a][t],
         NEW s2, LegIs(v, s1, s2, a, t, "borrowingFee"), Exhausted(s2, a, "borrowingFee"),
         NEW s3, LegIs(v, s2, s3, a, t, "tradingFee"), Exhausted(s3, a, "tradingFee"),
         NEW s4, LegIs(v, s3, s4, a, t, "fundingFee"),
         NEW s5, LegIs(v, s4, s5, a, t, "fundingFee"), Exhausted(s5, a, "fundingFee"),
         NEW s6, LegIs(v, s5, s6, a, t, "loss"), Exhausted(s6, a, "loss")
  PROVE  s6.liquidation = s1.liquidation /\ TokenPaid(s1.v, s6.v, a, t)
<1> DEFINE D(s, k) == s.v.debt[k][a]
           B(s, u) == s.v.traderBalances[a][u]
<1>1. /\ PaysOnly(s1, s2, a, t, "borrowingFee") /\ PaysOnly(s2, s3, a, t, "tradingFee")
      /\ PaysOnly(s3, s4, a, t, "fundingFee") /\ PaysOnly(s4, s5, a, t, "fundingFee")
      /\ PaysOnly(s5, s6, a, t, "loss")
  BY DEF LegIs
<1>2. /\ Within(v, s2, a, t) /\ Within(v, s3, a, t) /\ Within(v, s4, a, t)
      /\ Within(v, s5, a, t) /\ Within(v, s6, a, t)
  BY DEF LegIs
<1>3. ASSUME NEW s, Within(v, s, a, t)
      PROVE  /\ s.payer \in Nat /\ \A k \in DebtKinds : D(s, k) \in Nat
             /\ \A u \in Tokens : B(s, u) \in Nat
  <2>1. s.payer \in Nat /\ s.v \in Vaults BY <1>3 DEF Within, Legs
  <2> QED BY <2>1, EntriesNat
<1>4. /\ s1.payer \in Nat /\ s2.payer \in Nat /\ s3.payer \in Nat
      /\ s4.payer \in Nat /\ s5.payer \in Nat /\ s6.payer \in Nat
  BY <1>2, <1>3
<1>5. /\ s2.payer <= s1.payer /\ s3.payer <= s2.payer /\ s4.payer <= s3.payer
      /\ s5.payer <= s4.payer /\ s6.payer <= s5.payer
  BY <1>1 DEF PaysOnly
<1>6. /\ s2.payer = 0 => s3 = s2
      /\ s3.payer = 0 => s4 = s3
      /\ s4.payer = 0 => s5 = s4
      /\ s5.payer = 0 => s6 = s5
  BY <1>1 DEF PaysOnly
<1>7. /\ "loss" \in DebtKinds /\ "tradingFee" \in DebtKinds
      /\ "borrowingFee" \in DebtKinds /\ "fundingFee" \in DebtKinds
      /\ \A k \in DebtKinds :
            k = "borrowingFee" \/ k = "tradingFee" \/ k = "fundingFee" \/ k = "loss"
  BY DEF DebtKinds
<1>8. /\ D(s2, "borrowingFee") <= D(s1, "borrowingFee") /\ D(s3, "borrowingFee") = D(s2, "borrowingFee")
      /\ D(s4, "borrowingFee") = D(s3, "borrowingFee") /\ D(s5, "borrowingFee") = D(s4, "borrowingFee")
      /\ D(s6, "borrowingFee") = D(s5, "borrowingFee")
  BY <1>1, <1>7 DEF PaysOnly
<1>9. /\ D(s2, "tradingFee") = D(s1, "tradingFee") /\ D(s3, "tradingFee") <= D(s2, "tradingFee")
      /\ D(s4, "tradingFee") = D(s3, "tradingFee") /\ D(s5, "tradingFee") = D(s4, "tradingFee")
      /\ D(s6, "tradingFee") = D(s5, "tradingFee")
  BY <1>1, <1>7 DEF PaysOnly
<1>10. /\ D(s2, "fundingFee") = D(s1, "fundingFee") /\ D(s3, "fundingFee") = D(s2, "fundingFee")
       /\ D(s4, "fundingFee") <= D(s3, "fundingFee") /\ D(s5, "fundingFee") <= D(s4, "fundingFee")
       /\ D(s6, "fundingFee") = D(s5, "fundingFee")
  BY <1>1, <1>7 DEF PaysOnly
<1>11. /\ D(s2, "loss") = D(s1, "loss") /\ D(s3, "loss") = D(s2, "loss")
       /\ D(s4, "loss") = D(s3, "loss") /\ D(s5, "loss") = D(s4, "loss")
       /\ D(s6, "loss") <= D(s5, "loss")
  BY <1>1, <1>7 DEF PaysOnly
<1>12. /\ s2.payer = 0 \/ D(s2, "borrowingFee") = 0
       /\ s3.payer = 0 \/ D(s3, "tradingFee") = 0
       /\ s5.payer = 0 \/ D(s5, "fundingFee") = 0
       /\ s6.payer = 0 \/ D(s6, "loss") = 0
  BY DEF Exhausted
<1>13. \A k \in DebtKinds : D(s6, k) <= D(s1, k)
  <2>1. \A k \in DebtKinds :
          /\ D(s1, k) \in Nat /\ D(s2, k) \in Nat /\ D(s3, k) \in Nat
          /\ D(s4, k) \in Nat /\ D(s5, k) \in Nat /\ D(s6, k) \in Nat
    BY <1>2, <1>3
  <2> HIDE DEF D
  <2>2. D(s6, "borrowingFee") <= D(s1, "borrowingFee") BY <1>7, <1>8, <2>1
  <2>3. D(s6, "tradingFee") <= D(s1, "tradingFee") BY <1>7, <1>9, <2>1
  <2>4. D(s6, "fundingFee") <= D(s1, "fundingFee") BY <1>7, <1>10, <2>1
  <2>5. D(s6, "loss") <= D(s1, "loss") BY <1>7, <1>11, <2>1
  <2> QED BY <1>7, <2>2, <2>3, <2>4, <2>5
<1>14. B(s6, t) = s6.payer
  <2>1. ASSUME NEW x, NEW z, NEW kind, PaysOnly(x, z, a, t, kind), Within(v, x, a, t),
               Within(v, z, a, t), B(x, t) = x.payer
        PROVE  B(z, t) = z.payer
    <3>1. /\ B(x, t) \in Nat /\ B(z, t) \in Nat /\ x.payer \in Nat /\ z.payer \in Nat
      BY <1>3, <2>1
    <3>2. B(z, t) - z.payer = B(x, t) - x.payer BY <2>1 DEF PaysOnly
    <3> QED BY <2>1, <3>1, <3>2
  <2>2. B(s1, t) = s1.payer OBVIOUS
  <2> HIDE DEF B
  <2>3. B(s2, t) = s2.payer BY <1>1, <1>2, <2>1, <2>2
  <2>4. B(s3, t) = s3.payer BY <1>1, <1>2, <2>1, <2>3
  <2>5. B(s4, t) = s4.payer BY <1>1, <1>2, <2>1, <2>4
  <2>6. B(s5, t) = s5.payer BY <1>1, <1>2, <2>1, <2>5
  <2> QED BY <1>1, <1>2, <2>1, <2>6
<1>15. \A u \in Tokens : B(s6, u) <= B(s1, u)
  <2> TAKE u \in Tokens
  <2>1. CASE u = t
    <3>1. B(s1, t) = s1.payer OBVIOUS
    <3> HIDE DEF B
    <3> QED BY <1>4, <1>5, <1>14, <2>1, <3>1
  <2>2. CASE u # t
    <3>1. /\ B(s2, u) = B(s1, u) /\ B(s3, u) = B(s2, u) /\ B(s4, u) = B(s3, u)
          /\ B(s5, u) = B(s4, u) /\ B(s6, u) = B(s5, u)
      BY <1>1, <2>2 DEF PaysOnly
    <3>2. B(s1, u) \in Nat BY <1>3
    <3> HIDE DEF B
    <3> QED BY <3>1, <3>2
  <2> QED BY <2>1, <2>2
<1>16. B(s6, t) = 0 \/ \A k \in DebtKinds : D(s6, k) = 0
  <2>1. SUFFICES ASSUME s6.payer # 0 PROVE \A k \in DebtKinds : D(s6, k) = 0
    BY <1>14
  <2>2. s2.payer # 0 /\ s3.payer # 0 /\ s5.payer # 0 BY <1>4, <1>5, <2>1
  <2> HIDE DEF D
  <2> QED BY <1>7, <1>8, <1>9, <1>10, <1>12, <2>1, <2>2
<1>17. /\ D(s6, "borrowingFee") > 0 => s6 = s2
       /\ D(s6, "tradingFee") > 0 => s6 = s3
       /\ D(s6, "fundingFee") > 0 => s6 = s5
  <2>1. ~ (0 > 0) OBVIOUS
  <2>2. ASSUME D(s6, "borrowingFee") > 0 PROVE s6 = s2
    <3>1. D(s2, "borrowingFee") # 0 BY <1>8, <2>1, <2>2
    <3> HIDE DEF D
    <3> QED BY <1>6, <1>12, <3>1
  <2>3. ASSUME D(s6, "tradingFee") > 0 PROVE s6 = s3
    <3>1. D(s3, "tradingFee") # 0 BY <1>9, <2>1, <2>3
    <3> HIDE DEF D
    <3> QED BY <1>6, <1>12, <3>1
  <2>4. ASSUME D(s6, "fundingFee") > 0 PROVE s6 = s5
    <3>1. D(s5, "fundingFee") # 0 BY <1>10, <2>1, <2>4
    <3> HIDE DEF D
    <3> QED BY <1>6, <1>12, <3>1
  <2> QED BY <2>2, <2>3, <2>4
<1>18. /\ D(s6, "borrowingFee") > 0 => /\ D(s6, "tradingFee") = D(s1, "tradingFee")
                                      /\ D(s6, "fundingFee") = D(s1, "fundingFee")
                                      /\ D(s6, "loss") = D(s1, "loss")
       /\ D(s6, "tradingFee") > 0 => /\ D(s6, "fundingFee") = D(s1, "fundingFee")
                                    /\ D(s6, "loss") = D(s1, "loss")
       /\ D(s6, "fundingFee") > 0 => D(s6, "loss") = D(s1, "loss")
  <2> HIDE DEF D
  <2> QED BY <1>9, <1>10, <1>11, <1>17
<1>19. ASSUME NEW i \in 1 .. 4, NEW j \in i + 1 .. 4, D(s6, LegOrder[i]) > 0
       PROVE  D(s6, LegOrder[j]) = D(s1, LegOrder[j])
  <2>1. /\ LegOrder[1] = "borrowingFee" /\ LegOrder[2] = "tradingFee"
        /\ LegOrder[3] = "fundingFee" /\ LegOrder[4] = "loss"
    BY DEF LegOrder
  <2> HIDE DEF D
  <2>2. CASE i = 1
    <3>1. j = 2 \/ j = 3 \/ j = 4 BY <2>2
    <3> QED BY <1>18, <1>19, <2>1, <2>2, <3>1
  <2>3. CASE i = 2
    <3>1. j = 3 \/ j = 4 BY <2>3
    <3> QED BY <1>18, <1>19, <2>1, <2>3, <3>1
  <2>4. CASE i = 3
    <3>1. j = 4 BY <2>4
    <3> QED BY <1>18, <1>19, <2>1, <2>4, <3>1
  <2> QED BY <2>2, <2>3, <2>4
<1>20. s6.liquidation = s1.liquidation BY <1>1 DEF PaysOnly
<1> QED BY <1>13, <1>15, <1>16, <1>19, <1>20 DEF TokenPaid

(* All the legs of one token keep the vault settled and the others' books;   *)
(* without a liquidation fee they spend the token on the debts in order.     *)
LEMMA SettleTokenIs ==
  ASSUME NEW v, NEW s \in Legs, Settled(v, s.v), NEW a \in SubAccounts,
         NEW t \in Tokens, NEW p \in [Tokens -> Nat \ {0}], NEW b \in SubAccounts
  PROVE  LET z == SettleToken(s, a, t, p, b)
         IN  /\ z \in Legs /\ Settled(v, z.v) /\ Spares(s.v, z.v, a)
             /\ s.liquidation = 0 => z.liquidation = 0 /\ TokenPaid(s.v, z.v, a, t)
<1> DEFINE s0 == [s EXCEPT !.payer = s.v.traderBalances[a][t]]
           s1 == LiquidationFee(s0, a, t, p, b)
           s2 == BorrowingFeeToHlp(s1, a, t, p)
           s3 == TradingFeeToProtocol(s2, a, t, p)
           s4 == FundingFeeToHlp(s3, a, t, p)
           s5 == FundingFeeToReserve(s4, a, t, p)
           s6 == LossToHlp(s5, a, t, p)
<1>0. SettleToken(s, a, t, p, b) = s6 BY DEF SettleToken
<1>1. /\ Within(v, s0, a, t) /\ s0.v = s.v /\ s0.liquidation = s.liquidation
      /\ s0.payer = s0.v.traderBalances[a][t]
  <2>1. s.v \in Vaults /\ s.v.traderBalances[a][t] \in Nat
    BY EntriesNat DEF Settled, Good
  <2>2. /\ s0 \in Legs /\ s0.v = s.v /\ s0.payer = s.v.traderBalances[a][t]
        /\ s0.liquidation = s.liquidation
    BY <2>1 DEF Legs
  <2> HIDE DEF s0
  <2> QED BY <2>1, <2>2 DEF Within
<1> HIDE DEF s0
<1>2. /\ Within(v, s1, a, t) /\ Spares(s0.v, s1.v, a)
      /\ s0.liquidation = 0 => s1 = s0
  BY <1>1, LiquidationFeeIs
<1> HIDE DEF s1
<1>3. LegIs(v, s1, s2, a, t, "borrowingFee") /\ Exhausted(s2, a, "borrowingFee")
  BY <1>2, BorrowingFeeIs
<1> HIDE DEF s2
<1>4. LegIs(v, s2, s3, a, t, "tradingFee") /\ Exhausted(s3, a, "tradingFee")
  BY <1>3, BorrowingFeeIs DEF LegIs
<1> HIDE DEF s3
<1>5. LegIs(v, s3, s4, a, t, "fundingFee") BY <1>4, FundingFeeIs DEF LegIs
<1> HIDE DEF s4
<1>6. LegIs(v, s4, s5, a, t, "fundingFee") /\ Exhausted(s5, a, "fundingFee")
  BY <1>5, FundingFeeIs DEF LegIs
<1> HIDE DEF s5
<1>7. LegIs(v, s5, s6, a, t, "loss") /\ Exhausted(s6, a, "loss")
  BY <1>6, LossIs DEF LegIs
<1> HIDE DEF s6
<1>8. s6 \in Legs /\ Settled(v, s6.v) BY <1>7 DEF LegIs, Within
<1>9. /\ s0.v \in Vaults /\ s1.v \in Vaults /\ s2.v \in Vaults /\ s3.v \in Vaults
      /\ s4.v \in Vaults /\ s5.v \in Vaults /\ s6.v \in Vaults
  BY <1>1, <1>2, <1>3, <1>4, <1>5, <1>6, <1>7 DEF LegIs, Within, Legs
<1>10. /\ Spares(s1.v, s2.v, a) /\ Spares(s2.v, s3.v, a) /\ Spares(s3.v, s4.v, a)
       /\ Spares(s4.v, s5.v, a) /\ Spares(s5.v, s6.v, a)
  BY <1>3, <1>4, <1>5, <1>6, <1>7 DEF LegIs, PaysOnly
<1>11. Spares(s.v, s6.v, a)
  <2>1. Spares(s0.v, s2.v, a) BY <1>2, <1>9, <1>10, SparesTwice
  <2>2. Spares(s0.v, s3.v, a) BY <1>9, <1>10, <2>1, SparesTwice
  <2>3. Spares(s0.v, s4.v, a) BY <1>9, <1>10, <2>2, SparesTwice
  <2>4. Spares(s0.v, s5.v, a) BY <1>9, <1>10, <2>3, SparesTwice
  <2>5. Spares(s0.v, s6.v, a) BY <1>9, <1>10, <2>4, SparesTwice
  <2> QED BY <1>1, <2>5
<1>12. ASSUME s.liquidation = 0 PROVE s6.liquidation = 0 /\ TokenPaid(s.v, s6.v, a, t)
  <2>1. s1 = s0 BY <1>1, <1>2, <1>12
  <2>2. s6.liquidation = s1.liquidation /\ TokenPaid(s1.v, s6.v, a, t)
    BY <1>1, <1>2, <1>3, <1>4, <1>5, <1>6, <1>7, <2>1, LegsPay
  <2> QED BY <1>1, <1>12, <2>1, <2>2
<1> QED BY <1>0, <1>8, <1>11, <1>12

-----------------------------------------------------------------------------
(* _increaseCollateral: a state is a vault settled from the one the call     *)
(* began with, and what is still to be received.                             *)
Receipts == [v : Vaults, profit : Nat, funding : Nat]

(* Nobody has less and the debts are as they were. *)
Enriches(v, w) ==
  /\ w.debt = v.debt
  /\ \A a \in SubAccounts, t \in Tokens : v.traderBalances[a][t] <= w.traderBalances[a][t]

Receiving(v, s) == s \in Receipts /\ Settled(v, s.v) /\ Enriches(v, s.v)

(* A payment to a trader after others enriches as they do. *)
LEMMA EnrichesMore ==
  ASSUME NEW v \in Vaults, NEW x \in Vaults, NEW w \in Vaults, Enriches(v, x),
         NEW a \in SubAccounts, NEW t \in Tokens, NEW n \in Nat,
         w.debt = x.debt, w.traderBalances = BalancesPlus(x, a, t, n)
  PROVE  Enriches(v, w)
<1> SUFFICES ASSUME NEW b \in SubAccounts, NEW u \in Tokens
             PROVE  v.traderBalances[b][u] <= w.traderBalances[b][u]
  BY DEF Enriches
<1>1. /\ v.traderBalances[b][u] \in Nat /\ x.traderBalances[b][u] \in Nat
      /\ w.traderBalances[b][u] \in Nat
  BY EntriesNat
<1>2. v.traderBalances[b][u] <= x.traderBalances[b][u] BY DEF Enriches
<1>3. x.traderBalances[b][u] <= w.traderBalances[b][u] BY MoreForOne
<1> QED BY <1>1, <1>2, <1>3

(* The profit of a trader, out of the pool. *)
LEMMA ProfitIs ==
  ASSUME NEW v \in Vaults, NEW s, Receiving(v, s), NEW a \in SubAccounts, NEW t \in Tokens,
         NEW p \in [Tokens -> Nat \ {0}]
  PROVE  Receiving(v, ProfitFromHlp(s, a, t, p))
<1> DEFINE r == RepayAmount(s.v.hlpLiquidity[t], s.profit, p[t])
           w == PayTraderProfit(s.v, a, t, r.amount, 0)
           z == [s EXCEPT !.v = w, !.profit = @ - r.value]
<1>1. /\ s \in Receipts /\ s.profit \in Nat /\ Settled(v, s.v) /\ Good(s.v)
      /\ s.v.hlpLiquidity[t] \in Nat /\ Enriches(v, s.v) /\ s.v \in Vaults
  BY EntriesNat DEF Receiving, Receipts, Settled, Good
<1>2. ProfitFromHlp(s, a, t, p)
        = IF s.v.hlpLiquidity[t] > 0 /\ s.profit > 0 THEN z ELSE s
  BY DEF ProfitFromHlp
<1>3. /\ r.amount \in Nat /\ r.amount <= s.v.hlpLiquidity[t]
      /\ r.value \in Nat /\ r.value <= s.profit
  BY <1>1, RepayAmountIs
<1> HIDE DEF r
<1>4. Credited(s.v, w, a, t, r.amount) BY <1>1, <1>3, ProfitCredited
<1> HIDE DEF w
<1>5. Settled(v, w) /\ w \in Vaults BY <1>1, <1>4, SettledTwice DEF Credited, Settled, Good
<1>9. Enriches(v, w) BY <1>1, <1>3, <1>4, <1>5, EnrichesMore DEF Credited
<1>6. s.profit - r.value \in Nat BY <1>1, <1>3
<1>7. z \in Receipts /\ z.v = w BY <1>1, <1>5, <1>6 DEF Receipts
<1> HIDE DEF z
<1>8. Receiving(v, z) BY <1>5, <1>7, <1>9 DEF Receiving
<1> QED BY <1>2, <1>8 DEF Receiving

(* The funding fee of a trader, out of the reserve and, for the rest, the    *)
(* pool.                                                                     *)
LEMMA FundingIs ==
  ASSUME NEW v \in Vaults, NEW s, Receiving(v, s), NEW a \in SubAccounts, NEW t \in Tokens,
         NEW p \in [Tokens -> Nat \ {0}]
  PROVE  /\ Receiving(v, FundingFeeFromReserve(s, a, t, p))
         /\ Receiving(v, FundingFeeFromHlp(s, a, t, p))
<1>1. /\ s \in Receipts /\ s.funding \in Nat /\ Settled(v, s.v) /\ Good(s.v)
      /\ s.v.hlpLiquidity[t] \in Nat /\ s.v.fundingFeeReserve[t] \in Nat
      /\ Enriches(v, s.v) /\ s.v \in Vaults
  BY EntriesNat DEF Receiving, Receipts, Settled, Good
<1>2. Receiving(v, FundingFeeFromReserve(s, a, t, p))
  <2> DEFINE r == RepayAmount(s.v.fundingFeeReserve[t], s.funding, p[t])
             w == PayFundingFeeFromReserve(s.v, a, t, r.amount)
             z == [s EXCEPT !.v = w, !.funding = @ - r.value]
  <2>1. FundingFeeFromReserve(s, a, t, p)
          = IF s.v.fundingFeeReserve[t] > 0 /\ s.funding > 0 THEN z ELSE s
    BY DEF FundingFeeFromReserve
  <2>2. /\ r.amount \in Nat /\ r.amount <= s.v.fundingFeeReserve[t]
        /\ r.value \in Nat /\ r.value <= s.funding
    BY <1>1, RepayAmountIs
  <2> HIDE DEF r
  <2>3. Credited(s.v, w, a, t, r.amount) BY <1>1, <2>2, FundingCredited
  <2> HIDE DEF w
  <2>4. Settled(v, w) /\ w \in Vaults
    BY <1>1, <2>3, SettledTwice DEF Credited, Settled, Good
  <2>8. Enriches(v, w) BY <1>1, <2>2, <2>3, <2>4, EnrichesMore DEF Credited
  <2>5. s.funding - r.value \in Nat BY <1>1, <2>2
  <2>6. z \in Receipts /\ z.v = w BY <1>1, <2>4, <2>5 DEF Receipts
  <2> HIDE DEF z
  <2>7. Receiving(v, z) BY <2>4, <2>6, <2>8 DEF Receiving
  <2> QED BY <2>1, <2>7
<1>3. Receiving(v, FundingFeeFromHlp(s, a, t, p))
  <2> DEFINE r == RepayAmount(s.v.hlpLiquidity[t], s.funding, p[t])
             w == BorrowFundingFeeFromHlp(s.v, a, t, r.amount, r.value)
             z == [s EXCEPT !.v = w, !.funding = @ - r.value]
  <2>1. FundingFeeFromHlp(s, a, t, p)
          = IF s.v.hlpLiquidity[t] > 0 /\ s.funding > 0 THEN z ELSE s
    BY DEF FundingFeeFromHlp
  <2>2. /\ r.amount \in Nat /\ r.amount <= s.v.hlpLiquidity[t]
        /\ r.value \in Nat /\ r.value <= s.funding
    BY <1>1, RepayAmountIs
  <2> HIDE DEF r
  <2>3. /\ Settled(s.v, w) /\ w.debt = s.v.debt
        /\ w.traderBalances = BalancesPlus(s.v, a, t, r.amount)
    BY <1>1, <2>2, FundingBorrowed
  <2> HIDE DEF w
  <2>4. Settled(v, w) /\ w \in Vaults BY <1>1, <2>3, SettledTwice DEF Settled, Good
  <2>8. Enriches(v, w) BY <1>1, <2>2, <2>3, <2>4, EnrichesMore
  <2>5. s.funding - r.value \in Nat BY <1>1, <2>2
  <2>6. z \in Receipts /\ z.v = w BY <1>1, <2>4, <2>5 DEF Receipts
  <2> HIDE DEF z
  <2>7. Receiving(v, z) BY <2>4, <2>6, <2>8 DEF Receiving
  <2> QED BY <2>1, <2>7
<1> QED BY <1>2, <1>3

(* The first loop over the pool's assets: funding fees from the reserve.     *)
LEMMA FromReserveLoop ==
  ASSUME NEW v \in Vaults, NEW start, Receiving(v, start), NEW a \in SubAccounts,
         NEW p \in [Tokens -> Nat \ {0}]
  PROVE  LET FromReserve(s, t) == FundingFeeFromReserve(s, a, t, p)
         IN  Receiving(v, Through(HlpAssets, FromReserve, start))
<1> DEFINE S == {s \in Receipts : Settled(v, s.v) /\ Enriches(v, s.v)}
           n == Len(HlpAssets)
           Leg(s, i) == FundingFeeFromReserve(s, a, HlpAssets[i], p)
           step == [x \in S \X (1 .. n) |-> Leg(x[1], x[2])]
           Body(g) == [i \in 0 .. n |-> IF i = 0 THEN start ELSE Leg(g[i - 1], i)]
           after == CHOOSE g : g = Body(g)
           FromReserve(s, t) == FundingFeeFromReserve(s, a, t, p)
<1>1. n \in Nat /\ \A i \in 1 .. n : HlpAssets[i] \in Tokens
  BY TradeHelperAssumption
<1>2. start \in S BY DEF Receiving
<1>3. \A s \in S, i \in 1 .. n : Leg(s, i) \in S
  BY <1>1, FundingIs DEF Receiving
<1>4. Through(HlpAssets, FromReserve, start) = after[n]
  BY DEF Through
<1> HIDE DEF S, n, Leg
<1>5. step \in [S \X (1 .. n) -> S]
  BY <1>3
<1>6. PICK f \in [0 .. n -> S] : IsRun(f, n, start, step)
  <2> HIDE DEF step
  <2> QED BY <1>1, <1>2, <1>5, RunExists
<1>7. f = Body(f)
  <2>1. f = [i \in 0 .. n |-> IF i = 0 THEN start ELSE step[<<f[i - 1], i>>]]
    BY <1>6 DEF IsRun
  <2>2. ASSUME NEW i \in 0 .. n, i # 0
        PROVE  step[<<f[i - 1], i>>] = Leg(f[i - 1], i)
    <3>1. <<f[i - 1], i>> \in S \X (1 .. n) BY <1>1, <2>2
    <3> QED BY <3>1
  <2> HIDE DEF step
  <2> QED BY <2>1, <2>2
<1>8. after = Body(after)
  <2> HIDE DEF Body
  <2> QED BY <1>7
<1> HIDE DEF after
<1>9. after[n] \in S
  <2>1. after[0] \in S BY <1>1, <1>2, <1>8
  <2>2. \A i \in 1 .. n : after[i - 1] \in S => after[i] \in S
    BY <1>1, <1>3, <1>8
  <2> HIDE DEF Body
  <2> QED BY <1>1, <2>1, <2>2, RunInvariant
<1> QED BY <1>4, <1>9 DEF S, Receiving

(* The second: profits, and the rest of the funding fees, from the pool.     *)
LEMMA FromHlpLoop ==
  ASSUME NEW v \in Vaults, NEW start, Receiving(v, start), NEW a \in SubAccounts,
         NEW p \in [Tokens -> Nat \ {0}]
  PROVE  LET FromHlp(s, t) == FundingFeeFromHlp(ProfitFromHlp(s, a, t, p), a, t, p)
         IN  Receiving(v, Through(HlpAssets, FromHlp, start))
<1> DEFINE S == {s \in Receipts : Settled(v, s.v) /\ Enriches(v, s.v)}
           n == Len(HlpAssets)
           Leg(s, i) == FundingFeeFromHlp(ProfitFromHlp(s, a, HlpAssets[i], p), a, HlpAssets[i], p)
           step == [x \in S \X (1 .. n) |-> Leg(x[1], x[2])]
           Body(g) == [i \in 0 .. n |-> IF i = 0 THEN start ELSE Leg(g[i - 1], i)]
           after == CHOOSE g : g = Body(g)
           FromHlp(s, t) == FundingFeeFromHlp(ProfitFromHlp(s, a, t, p), a, t, p)
<1>1. n \in Nat /\ \A i \in 1 .. n : HlpAssets[i] \in Tokens
  BY TradeHelperAssumption
<1>2. start \in S BY DEF Receiving
<1>3. \A s \in S, i \in 1 .. n : Leg(s, i) \in S
  BY <1>1, ProfitIs, FundingIs DEF Receiving
<1>4. Through(HlpAssets, FromHlp, start) = after[n]
  BY DEF Through
<1> HIDE DEF S, n, Leg
<1>5. step \in [S \X (1 .. n) -> S]
  BY <1>3
<1>6. PICK f \in [0 .. n -> S] : IsRun(f, n, start, step)
  <2> HIDE DEF step
  <2> QED BY <1>1, <1>2, <1>5, RunExists
<1>7. f = Body(f)
  <2>1. f = [i \in 0 .. n |-> IF i = 0 THEN start ELSE step[<<f[i - 1], i>>]]
    BY <1>6 DEF IsRun
  <2>2. ASSUME NEW i \in 0 .. n, i # 0
        PROVE  step[<<f[i - 1], i>>] = Leg(f[i - 1], i)
    <3>1. <<f[i - 1], i>> \in S \X (1 .. n) BY <1>1, <2>2
    <3> QED BY <3>1
  <2> HIDE DEF step
  <2> QED BY <2>1, <2>2
<1>8. after = Body(after)
  <2> HIDE DEF Body
  <2> QED BY <1>7
<1> HIDE DEF after
<1>9. after[n] \in S
  <2>1. after[0] \in S BY <1>1, <1>2, <1>8
  <2>2. \A i \in 1 .. n : after[i - 1] \in S => after[i] \in S
    BY <1>1, <1>3, <1>8
  <2> HIDE DEF Body
  <2> QED BY <1>1, <2>1, <2>2, RunInvariant
<1> QED BY <1>4, <1>9 DEF S, Receiving

(* _increaseCollateral settles and takes from nobody: whatever the profit,   *)
(* the funding fee, the chosen token and the prices.                         *)
LEMMA IncreaseCollateralIs ==
  ASSUME NEW v, Good(v), NEW a \in SubAccounts, NEW pnl \in Int, NEW fundingFee \in Int,
         NEW tpToken \in Tokens \cup {NoToken}, NEW p \in [Tokens -> Nat \ {0}]
  PROVE  LET w == IncreaseCollateral(v, a, pnl, fundingFee, tpToken, p)
         IN  Settled(v, w) /\ Enriches(v, w)
<1> DEFINE start == [v |-> v, profit |-> IF pnl > 0 THEN pnl ELSE 0,
                     funding |-> IF fundingFee < 0 THEN -fundingFee ELSE 0]
           chosen == IF tpToken = NoToken THEN start ELSE ProfitFromHlp(start, a, tpToken, p)
           FromReserve(s, t) == FundingFeeFromReserve(s, a, t, p)
           FromHlp(s, t) == FundingFeeFromHlp(ProfitFromHlp(s, a, t, p), a, t, p)
           paid == Through(HlpAssets, FromReserve, chosen)
           end == Through(HlpAssets, FromHlp, paid)
<1>1. IncreaseCollateral(v, a, pnl, fundingFee, tpToken, p) = end.v
  BY DEF IncreaseCollateral
<1>2. Settled(v, v) /\ v \in Vaults /\ Enriches(v, v)
  <2>1. v \in Vaults /\ \A b \in SubAccounts, t \in Tokens : v.traderBalances[b][t] \in Nat
    BY EntriesNat DEF Good
  <2> QED BY <2>1 DEF Settled, SameTokens, Enriches
<1>3. Receiving(v, start) BY <1>2 DEF Receiving, Receipts
<1> HIDE DEF start
<1>4. Receiving(v, chosen) BY <1>2, <1>3, ProfitIs
<1> HIDE DEF chosen
<1>5. Receiving(v, paid) BY <1>2, <1>4, FromReserveLoop
<1> HIDE DEF paid
<1>6. Receiving(v, end) BY <1>2, <1>5, FromHlpLoop
<1> HIDE DEF end
<1> QED BY <1>1, <1>6 DEF Receiving

-----------------------------------------------------------------------------
(* Booking what is owed as debt moves no token and no claim, and raises      *)
(* debts of one trader only.                                                 *)
Indebts(v, w, a) ==
  /\ Settled(v, w) /\ w.traderBalances = v.traderBalances /\ Spares(v, w, a)
  /\ \A k \in DebtKinds : v.debt[k][a] <= w.debt[k][a]

(* Booking one debt after others. *)
LEMMA IndebtsMore ==
  ASSUME NEW v, Good(v), NEW x, NEW a \in SubAccounts, Indebts(v, x, a),
         NEW kind \in DebtKinds, NEW n \in Nat
  PROVE  Indebts(v, AddDebt(x, kind, a, n), a)
<1> DEFINE w == AddDebt(x, kind, a, n)
<1>1. /\ Good(x) /\ v \in Vaults /\ x \in Vaults BY DEF Indebts, Settled, Good
<1>2. Settled(x, w) /\ DebtMoved(x, w, kind, a, n) BY <1>1, AddDebtIs
<1> HIDE DEF w
<1>3. w \in Vaults BY <1>2 DEF Settled, Good
<1>4. Settled(v, w) BY <1>2, SettledTwice DEF Indebts
<1>5. Spares(v, w, a)
  <2>1. Spares(x, w, a) BY <1>1, <1>2, DebtSpares
  <2> QED BY <1>1, <1>3, <2>1, SparesTwice DEF Indebts
<1>6. ASSUME NEW k \in DebtKinds PROVE v.debt[k][a] <= w.debt[k][a]
  <2>1. v.debt[k][a] \in Nat /\ x.debt[k][a] \in Nat /\ v.debt[k][a] <= x.debt[k][a]
    BY <1>1, EntriesNat DEF Indebts, Vaults
  <2>2. w.debt[k][a] = x.debt[k][a] + n \/ w.debt[k][a] = x.debt[k][a]
    BY <1>2 DEF DebtMoved
  <2> QED BY <2>1, <2>2
<1>7. w.traderBalances = v.traderBalances BY <1>2 DEF Indebts, DebtMoved
<1>8. Indebts(v, w, a) BY <1>4, <1>5, <1>6, <1>7 DEF Indebts
<1> QED BY <1>8 DEF w

(* The debts of a bill. *)
LEMMA BookDebtsIs ==
  ASSUME NEW v, Good(v), NEW a \in SubAccounts,
         NEW bill \in [pnl : Int, funding : Int, borrowing : Nat, trading : Nat]
  PROVE  Indebts(v, BookDebts(v, a, bill), a)
<1> DEFINE v1 == IF bill.pnl < 0 THEN AddDebt(v, "loss", a, -bill.pnl) ELSE v
           v2 == AddDebt(v1, "tradingFee", a, bill.trading)
           v3 == AddDebt(v2, "borrowingFee", a, bill.borrowing)
           v4 == IF bill.funding > 0 THEN AddDebt(v3, "fundingFee", a, bill.funding) ELSE v3
<1>1. BookDebts(v, a, bill) = v4 BY DEF BookDebts
<1>2. /\ "loss" \in DebtKinds /\ "tradingFee" \in DebtKinds
      /\ "borrowingFee" \in DebtKinds /\ "fundingFee" \in DebtKinds
  BY DEF DebtKinds
<1>3. /\ bill.trading \in Nat /\ bill.borrowing \in Nat
      /\ bill.pnl < 0 => -bill.pnl \in Nat
      /\ bill.funding > 0 => bill.funding \in Nat
  OBVIOUS
<1>4. Indebts(v, v, a)
  <2>1. v \in Vaults /\ \A k \in DebtKinds : v.debt[k][a] \in Nat BY DEF Good, Vaults
  <2>2. Spares(v, v, a) BY <2>1, SparesAll
  <2> QED BY <2>1, <2>2 DEF Indebts, Settled, SameTokens
<1>5. Indebts(v, v1, a) BY <1>2, <1>3, <1>4, IndebtsMore
<1> HIDE DEF v1
<1>6. Indebts(v, v2, a) BY <1>2, <1>3, <1>5, IndebtsMore
<1> HIDE DEF v2
<1>7. Indebts(v, v3, a) BY <1>2, <1>3, <1>6, IndebtsMore
<1> HIDE DEF v3
<1>8. Indebts(v, v4, a) BY <1>2, <1>3, <1>7, IndebtsMore
<1> QED BY <1>1, <1>8

(* Of a's debts, none before another in the order is left where less of the  *)
(* later one is owed than was.                                               *)
InOrder(v, w, a) ==
  \A i \in 1 .. 4 : \A j \in i + 1 .. 4 :
     w.debt[LegOrder[i]][a] > 0 => w.debt[LegOrder[j]][a] >= v.debt[LegOrder[j]][a]

Cleared(w, a) == \A k \in DebtKinds : w.debt[k][a] = 0

(* a's legs of the first n assets are done: all he had in them is gone, or   *)
(* all he owed.                                                              *)
PaidUpTo(v, w, a, n) ==
  /\ InOrder(v, w, a)
  /\ (\A i \in 1 .. n : w.traderBalances[a][HlpAssets[i]] = 0) \/ Cleared(w, a)

(* The order's members are kinds of debt. *)
LEMMA LegOrderIs ==
  \A i \in 1 .. 4 : \A j \in i + 1 .. 4 :
     j \in 1 .. 4 /\ LegOrder[i] \in DebtKinds /\ LegOrder[j] \in DebtKinds
<1>1. \A i \in 1 .. 4 : LegOrder[i] \in DebtKinds BY DEF LegOrder, DebtKinds
<1>2. \A i \in 1 .. 4 : \A j \in i + 1 .. 4 : j \in 1 .. 4 OBVIOUS
<1> QED BY <1>1, <1>2

(* As long as the debts do not fall, they are in order. *)
LEMMA RisingInOrder ==
  ASSUME NEW v \in Vaults, NEW w \in Vaults, NEW a \in SubAccounts,
         \A k \in DebtKinds : v.debt[k][a] <= w.debt[k][a]
  PROVE  InOrder(v, w, a)
<1>1. \A k \in DebtKinds : v.debt[k][a] \in Nat /\ w.debt[k][a] \in Nat BY DEF Vaults
<1>2. \A k \in DebtKinds : w.debt[k][a] >= v.debt[k][a] BY <1>1
<1> QED BY <1>2, LegOrderIs DEF InOrder

(* A cleared trader owes nothing out of order. *)
LEMMA ClearedInOrder ==
  ASSUME NEW v, NEW w, NEW a \in SubAccounts, Cleared(w, a)
  PROVE  InOrder(v, w, a)
<1>1. \A k \in DebtKinds : ~ (w.debt[k][a] > 0) BY DEF Cleared
<1> QED BY <1>1, LegOrderIs DEF InOrder

(* The legs of one more asset. *)
LEMMA PaidOneMore ==
  ASSUME NEW v \in Vaults, NEW x \in Vaults, NEW w \in Vaults, NEW a \in SubAccounts,
         NEW n \in 1 .. Len(HlpAssets), PaidUpTo(v, x, a, n - 1),
         TokenPaid(x, w, a, HlpAssets[n])
  PROVE  PaidUpTo(v, w, a, n)
<1>1. /\ \A k \in DebtKinds : v.debt[k][a] \in Nat /\ x.debt[k][a] \in Nat /\ w.debt[k][a] \in Nat
      /\ \A i \in 1 .. Len(HlpAssets) : HlpAssets[i] \in Tokens
  BY TradeHelperAssumption DEF Vaults
<1>2. \A u \in Tokens : x.traderBalances[a][u] \in Nat /\ w.traderBalances[a][u] \in Nat
  BY EntriesNat
<1>3. \A k \in DebtKinds : w.debt[k][a] <= x.debt[k][a] BY DEF TokenPaid
<1>4. InOrder(v, w, a)
  <2> SUFFICES ASSUME NEW i \in 1 .. 4, NEW j \in i + 1 .. 4, w.debt[LegOrder[i]][a] > 0
               PROVE  w.debt[LegOrder[j]][a] >= v.debt[LegOrder[j]][a]
    BY DEF InOrder
  <2>1. LegOrder[i] \in DebtKinds /\ LegOrder[j] \in DebtKinds BY LegOrderIs
  <2>2. x.debt[LegOrder[i]][a] > 0 BY <1>1, <1>3, <2>1
  <2>3. x.debt[LegOrder[j]][a] >= v.debt[LegOrder[j]][a] BY <2>2 DEF PaidUpTo, InOrder
  <2>4. w.debt[LegOrder[j]][a] = x.debt[LegOrder[j]][a] BY DEF TokenPaid
  <2> QED BY <2>3, <2>4
<1>5. CASE Cleared(w, a) BY <1>4, <1>5 DEF PaidUpTo
<1>6. CASE Cleared(x, a)
  <2>1. Cleared(w, a) BY <1>1, <1>3, <1>6 DEF Cleared
  <2> QED BY <1>5, <2>1
<1>7. CASE ~ Cleared(w, a) /\ ~ Cleared(x, a)
  <2>1. \A i \in 1 .. n - 1 : x.traderBalances[a][HlpAssets[i]] = 0
    BY <1>7 DEF PaidUpTo
  <2>2. w.traderBalances[a][HlpAssets[n]] = 0 BY <1>7 DEF TokenPaid, Cleared
  <2>3. ASSUME NEW i \in 1 .. n PROVE w.traderBalances[a][HlpAssets[i]] = 0
    <3>1. CASE i = n BY <2>2, <3>1
    <3>2. CASE i # n
      <4>1. i \in 1 .. n - 1 /\ HlpAssets[i] \in Tokens BY <1>1, <3>2
      <4>2. w.traderBalances[a][HlpAssets[i]] <= x.traderBalances[a][HlpAssets[i]]
        BY <4>1 DEF TokenPaid
      <4> QED BY <1>2, <2>1, <4>1, <4>2
    <3> QED BY <3>1, <3>2
  <2> QED BY <1>4, <2>3 DEF PaidUpTo
<1> QED BY <1>5, <1>6, <1>7

(* _decreaseCollateral's loop over the pool's assets.                        *)
LEMMA SettleLoop ==
  ASSUME NEW v, NEW start \in Legs, Settled(v, start.v), NEW a \in SubAccounts,
         NEW p \in [Tokens -> Nat \ {0}], NEW b \in SubAccounts
  PROVE  LET SettleEach(s, t) == SettleToken(s, a, t, p, b)
             end == Through(HlpAssets, SettleEach, start)
         IN  /\ Settled(v, end.v) /\ Spares(start.v, end.v, a)
             /\ start.liquidation = 0 => PaidUpTo(start.v, end.v, a, Len(HlpAssets))
<1> DEFINE S == {s \in Legs : Settled(v, s.v) /\ Spares(start.v, s.v, a)}
           n == Len(HlpAssets)
           Leg(s, i) == SettleToken(s, a, HlpAssets[i], p, b)
           step == [x \in S \X (1 .. n) |-> Leg(x[1], x[2])]
           Body(g) == [i \in 0 .. n |-> IF i = 0 THEN start ELSE Leg(g[i - 1], i)]
           after == CHOOSE g : g = Body(g)
           SettleEach(s, t) == SettleToken(s, a, t, p, b)
           PaidTo(i, s) == start.liquidation = 0 =>
                           s.liquidation = 0 /\ PaidUpTo(start.v, s.v, a, i)
<1>1. n \in Nat /\ \A i \in 1 .. n : HlpAssets[i] \in Tokens
  BY TradeHelperAssumption
<1>2. start.v \in Vaults /\ \A s \in S : s.v \in Vaults BY DEF Legs
<1>3. start \in S /\ PaidTo(0, start)
  <2>1. Spares(start.v, start.v, a) BY <1>2, SparesAll
  <2>2. \A k \in DebtKinds : start.v.debt[k][a] \in Nat BY <1>2 DEF Vaults
  <2>3. InOrder(start.v, start.v, a) BY <1>2, <2>2, RisingInOrder
  <2>4. \A i \in 1 .. 0 : start.v.traderBalances[a][HlpAssets[i]] = 0 OBVIOUS
  <2> QED BY <2>1, <2>3, <2>4 DEF PaidUpTo
<1>4. ASSUME NEW s \in S, NEW i \in 1 .. n
      PROVE  Leg(s, i) \in S /\ (PaidTo(i - 1, s) => PaidTo(i, Leg(s, i)))
  <2> DEFINE z == Leg(s, i)
  <2>1. /\ z \in Legs /\ Settled(v, z.v) /\ Spares(s.v, z.v, a)
        /\ s.liquidation = 0 => z.liquidation = 0 /\ TokenPaid(s.v, z.v, a, HlpAssets[i])
    BY <1>1, SettleTokenIs
  <2> HIDE DEF z
  <2>2. s.v \in Vaults /\ z.v \in Vaults BY <1>2, <2>1 DEF Legs
  <2>3. Spares(start.v, z.v, a) BY <1>2, <2>1, <2>2, SparesTwice
  <2>4. ASSUME start.liquidation = 0, PaidTo(i - 1, s)
        PROVE  z.liquidation = 0 /\ PaidUpTo(start.v, z.v, a, i)
    BY <1>2, <2>1, <2>2, <2>4, PaidOneMore
  <2>5. z \in S /\ (PaidTo(i - 1, s) => PaidTo(i, z)) BY <2>1, <2>3, <2>4
  <2> QED BY <2>5 DEF z
<1>5. Through(HlpAssets, SettleEach, start) = after[n]
  BY DEF Through
<1> HIDE DEF S, n, Leg, PaidTo
<1>6. step \in [S \X (1 .. n) -> S]
  BY <1>4
<1>7. PICK f \in [0 .. n -> S] : IsRun(f, n, start, step)
  <2> HIDE DEF step
  <2> QED BY <1>1, <1>3, <1>6, RunExists
<1>8. f = Body(f)
  <2>1. f = [i \in 0 .. n |-> IF i = 0 THEN start ELSE step[<<f[i - 1], i>>]]
    BY <1>7 DEF IsRun
  <2>2. ASSUME NEW i \in 0 .. n, i # 0
        PROVE  step[<<f[i - 1], i>>] = Leg(f[i - 1], i)
    <3>1. <<f[i - 1], i>> \in S \X (1 .. n) BY <1>1, <2>2
    <3> QED BY <3>1
  <2> HIDE DEF step
  <2> QED BY <2>1, <2>2
<1>9. after = Body(after)
  <2> HIDE DEF Body
  <2> QED BY <1>8
<1> HIDE DEF after
<1>10. after[n] \in S /\ PaidTo(n, after[n])
  <2> DEFINE T == {x \in (0 .. n) \X S : PaidTo(x[1], x[2])}
             h == [i \in 0 .. n |-> <<i, after[i]>>]
  <2>1. h[0] \in T
    <3>1. after[0] = start BY <1>1, <1>9
    <3> QED BY <1>1, <1>3, <3>1
  <2>2. ASSUME NEW i \in 1 .. n, h[i - 1] \in T PROVE h[i] \in T
    <3>1. i - 1 \in 0 .. n /\ i \in 0 .. n BY <1>1
    <3>2. after[i - 1] \in S /\ PaidTo(i - 1, after[i - 1]) BY <2>2, <3>1
    <3>3. after[i] = Leg(after[i - 1], i) BY <1>1, <1>9
    <3> QED BY <1>4, <3>1, <3>2, <3>3
  <2> HIDE DEF T, h
  <2>3. h[n] \in T BY <1>1, <2>1, <2>2, RunInvariant
  <2> QED BY <1>1, <2>3 DEF T, h
<1> QED BY <1>5, <1>10 DEF S, n, PaidTo

(* _decreaseCollateral settles, whatever is owed and at whatever prices, at  *)
(* no other trader's cost.  With no liquidation fee ahead of the debts, they *)
(* are paid in order, to the last of them or of what a has.                  *)
LEMMA DecreaseCollateralIs ==
  ASSUME NEW v, Good(v), NEW a \in SubAccounts, NEW b \in SubAccounts,
         NEW bill \in [pnl : Int, funding : Int, borrowing : Nat, trading : Nat],
         NEW fee \in Nat, NEW p \in [Tokens -> Nat \ {0}]
  PROVE  LET w == DecreaseCollateral(v, a, bill, fee, b, p)
         IN  /\ Settled(v, w) /\ Spares(v, w, a)
             /\ fee = 0 => PaidUpTo(v, w, a, Len(HlpAssets))
<1> DEFINE booked == BookDebts(v, a, bill)
           start == [v |-> booked, payer |-> 0, liquidation |-> fee]
           SettleEach(s, t) == SettleToken(s, a, t, p, b)
           end == Through(HlpAssets, SettleEach, start)
           w == DecreaseCollateral(v, a, bill, fee, b, p)
<1>1. w = end.v BY DEF DecreaseCollateral
<1>2. Indebts(v, booked, a) BY BookDebtsIs
<1> HIDE DEF booked, w
<1>3. /\ start \in Legs /\ start.v = booked /\ start.liquidation = fee
      /\ v \in Vaults /\ booked \in Vaults
  BY <1>2 DEF Legs, Indebts, Settled, Good
<1> HIDE DEF start
<1>4. /\ Settled(v, end.v) /\ Spares(booked, end.v, a)
      /\ start.liquidation = 0 => PaidUpTo(booked, end.v, a, Len(HlpAssets))
  <2>1. Settled(v, start.v) BY <1>2, <1>3 DEF Indebts
  <2> QED BY <1>3, <2>1, SettleLoop
<1> HIDE DEF end
<1>5. Settled(v, w) /\ w \in Vaults BY <1>1, <1>4 DEF Settled, Good
<1>6. Spares(v, w, a) BY <1>1, <1>2, <1>3, <1>4, <1>5, SparesTwice DEF Indebts
<1>7. ASSUME fee = 0 PROVE PaidUpTo(v, w, a, Len(HlpAssets))
  <2>1. PaidUpTo(booked, w, a, Len(HlpAssets)) BY <1>1, <1>3, <1>4, <1>7
  <2>2. \A k \in DebtKinds :
           /\ v.debt[k][a] \in Nat /\ booked.debt[k][a] \in Nat /\ w.debt[k][a] \in Nat
           /\ v.debt[k][a] <= booked.debt[k][a]
    BY <1>2, <1>3, <1>5 DEF Indebts, Vaults
  <2>3. InOrder(v, w, a)
    <3> SUFFICES ASSUME NEW i \in 1 .. 4, NEW j \in i + 1 .. 4, w.debt[LegOrder[i]][a] > 0
                 PROVE  w.debt[LegOrder[j]][a] >= v.debt[LegOrder[j]][a]
      BY DEF InOrder
    <3>1. LegOrder[j] \in DebtKinds BY LegOrderIs
    <3>2. w.debt[LegOrder[j]][a] >= booked.debt[LegOrder[j]][a]
      BY <2>1 DEF PaidUpTo, InOrder
    <3> QED BY <2>2, <3>1, <3>2
  <2> QED BY <2>1, <2>3 DEF PaidUpTo
<1> QED BY <1>5, <1>6, <1>7 DEF w

-----------------------------------------------------------------------------
(* The transactions of VaultLedger.  The inductive invariant is that the     *)
(* vault is good and covered: each transaction is shown to lead from such a  *)
(* vault to such a vault, to be a step of Custody, and to be fair to the     *)
(* traders: one of them pays, his senior debts first, and owes more only     *)
(* when his collateral is gone.                                              *)

(* The step of Custody for token t, said of two vaults. *)
CustodyStep(v, w, t) ==
  \/ /\ Owed(w, t) >= Owed(v, t)
     /\ w.balanceOf[t] - v.balanceOf[t] >= Owed(w, t) - Owed(v, t)
  \/ /\ w.balanceOf[t] < v.balanceOf[t]
     /\ v.balanceOf[t] - w.balanceOf[t] = Owed(v, t) - Owed(w, t)
     /\ Owed(w, t) >= 0

(* What every transaction from v to w must establish of the tokens. *)
Sound(v, w) == Good(w) /\ Covered(w) /\ \A t \in Tokens : CustodyStep(v, w, t)

(* Token t is left alone, or only donated. *)
LeftAlone(v, w, t) ==
  /\ w.balanceOf[t] >= v.balanceOf[t] /\ w.totalAmount[t] = v.totalAmount[t]
  /\ Owed(w, t) = Owed(v, t)

(* Token t was pulled or pushed, and no more is newly owed than came in; if  *)
(* less is owed, it is by just what went out.                                *)
Booked(v, w, t) ==
  /\ w.totalAmount[t] = w.balanceOf[t] + w.hlpLiquidityOnHold[t]
  /\ w.balanceOf[t] - v.balanceOf[t] >= Owed(w, t) - Owed(v, t)
  /\ \/ Owed(w, t) >= Owed(v, t)
     \/ w.balanceOf[t] - v.balanceOf[t] = Owed(w, t) - Owed(v, t)

(* A transaction is sound when each token is left alone or properly booked. *)
LEMMA SoundTokenwise ==
  ASSUME NEW v, Good(v), Covered(v), NEW w, Good(w),
         w.hlpLiquidityOnHold = v.hlpLiquidityOnHold,
         \A t \in Tokens : LeftAlone(v, w, t) \/ Booked(v, w, t)
  PROVE  Sound(v, w)
<1> SUFFICES ASSUME NEW t \in Tokens
             PROVE  /\ Owed(w, t) + w.hlpLiquidityOnHold[t] <= w.totalAmount[t]
                    /\ w.totalAmount[t] <= w.balanceOf[t] + w.hlpLiquidityOnHold[t]
                    /\ CustodyStep(v, w, t)
  BY DEF Sound, Covered
<1>1. /\ v \in Vaults /\ w \in Vaults BY DEF Good
<1>2. /\ v.balanceOf[t] \in Nat /\ v.totalAmount[t] \in Nat
      /\ v.hlpLiquidityOnHold[t] \in Nat /\ Owed(v, t) \in Nat
  BY <1>1, EntriesNat, OwedNat
<1>3. /\ w.balanceOf[t] \in Nat /\ w.totalAmount[t] \in Nat
      /\ w.hlpLiquidityOnHold[t] \in Nat /\ Owed(w, t) \in Nat
  BY <1>1, EntriesNat, OwedNat
<1>4. /\ Owed(v, t) + v.hlpLiquidityOnHold[t] <= v.totalAmount[t]
      /\ v.totalAmount[t] <= v.balanceOf[t] + v.hlpLiquidityOnHold[t]
  BY DEF Covered
<1>5. CASE LeftAlone(v, w, t)
  BY <1>2, <1>3, <1>4, <1>5 DEF LeftAlone, CustodyStep
<1>6. CASE Booked(v, w, t)
  BY <1>2, <1>3, <1>4, <1>6 DEF Booked, CustodyStep
<1> QED BY <1>5, <1>6

(* A settlement between claimants is sound. *)
LEMMA SettledSound ==
  ASSUME NEW v, Good(v), Covered(v), NEW w, Settled(v, w)
  PROVE  Sound(v, w)
<1>1. \A t \in Tokens : v.balanceOf[t] \in Nat BY EntriesNat DEF Good
<1>2. \A t \in Tokens : LeftAlone(v, w, t)
  BY <1>1 DEF Settled, SameTokens, LeftAlone
<1> QED BY <1>2, SoundTokenwise DEF Settled, SameTokens

(* Somebody's debt may rise only when he has none of the pool's assets.      *)
BrokeFirst(v, w, a) ==
  \A k \in DebtKinds :
     w.debt[k][a] > v.debt[k][a] =>
        \A i \in DOMAIN HlpAssets : w.traderBalances[a][HlpAssets[i]] = 0

(* What it must establish of the traders: one of them pays or is charged,    *)
(* his debts fall in order, and none of them rises before he is broke.       *)
Fair(v, w) ==
  /\ \E a \in SubAccounts : Spares(v, w, a)
  /\ \A a \in SubAccounts \ {Treasury} : BrokeFirst(v, w, a)
  /\ \A a \in SubAccounts : InOrder(v, w, a)

Correct(v, w) == Sound(v, w) /\ Fair(v, w)

(* Only the trader who is not spared has to be looked at. *)
LEMMA FairToOne ==
  ASSUME NEW v \in Vaults, NEW w \in Vaults, NEW a \in SubAccounts, Spares(v, w, a),
         InOrder(v, w, a), a = Treasury \/ BrokeFirst(v, w, a)
  PROVE  Fair(v, w)
<1>1. ASSUME NEW b \in SubAccounts, b # a
      PROVE  BrokeFirst(v, w, b) /\ InOrder(v, w, b)
  <2>1. \A k \in DebtKinds : w.debt[k][b] = v.debt[k][b] BY <1>1 DEF Spares
  <2>2. \A k \in DebtKinds : v.debt[k][b] \in Nat /\ w.debt[k][b] \in Nat BY DEF Vaults
  <2>3. \A k \in DebtKinds : ~ (w.debt[k][b] > v.debt[k][b]) BY <2>1, <2>2
  <2>4. \A k \in DebtKinds : v.debt[k][b] <= w.debt[k][b] BY <2>1, <2>2
  <2>5. InOrder(v, w, b) BY <2>4, RisingInOrder
  <2> QED BY <2>3, <2>5 DEF BrokeFirst
<1>2. \A b \in SubAccounts \ {Treasury} : BrokeFirst(v, w, b) BY <1>1
<1>3. \A b \in SubAccounts : InOrder(v, w, b) BY <1>1
<1> QED BY <1>2, <1>3 DEF Fair

(* Nobody has to be when no debt has moved. *)
LEMMA FairWithoutDebts ==
  ASSUME NEW v \in Vaults, NEW w \in Vaults, NEW a \in SubAccounts, Spares(v, w, a),
         w.debt = v.debt
  PROVE  Fair(v, w)
<1>1. \A k \in DebtKinds : v.debt[k][a] \in Nat BY DEF Vaults
<1>2. \A k \in DebtKinds : v.debt[k][a] <= w.debt[k][a] /\ ~ (w.debt[k][a] > v.debt[k][a])
  BY <1>1
<1>3. InOrder(v, w, a) BY <1>2, RisingInOrder
<1>4. BrokeFirst(v, w, a) BY <1>2 DEF BrokeFirst
<1> QED BY <1>3, <1>4, FairToOne

(* Nor when the traders' books are the same. *)
LEMMA FairWithSameBooks ==
  ASSUME NEW v, Good(v), NEW w, Good(w), SameBooks(v, w)
  PROVE  Fair(v, w)
<1>1. v \in Vaults /\ w \in Vaults /\ Treasury \in SubAccounts
  BY LedgerAssumption DEF Good
<1>2. w.traderBalances = v.traderBalances /\ w.debt = v.debt BY DEF SameBooks
<1>3. Spares(v, w, Treasury) BY <1>1, <1>2, SparesAll
<1> QED BY <1>1, <1>2, <1>3, FairWithoutDebts

(* Nor when only his collateral moves. *)
LEMMA FairToHolder ==
  ASSUME NEW v, Good(v), NEW r, Good(r), SameBooks(v, r), NEW a \in SubAccounts,
         NEW t \in Tokens, NEW n \in Int, r.traderBalances[a][t] + n >= 0,
         NEW x, TraderMoved(r, x, a, t, n), NEW w, Good(w), SameBooks(x, w)
  PROVE  Fair(v, w) /\ Spares(v, w, a) /\ w.debt = v.debt
<1>1. v \in Vaults /\ r \in Vaults /\ w \in Vaults BY DEF Good
<1>2. w.traderBalances = BalancesPlus(r, a, t, n) /\ w.debt = r.debt
  BY DEF TraderMoved, SameBooks
<1>3. Spares(r, w, a) BY <1>1, <1>2, SparesOthers
<1>4. r.traderBalances = v.traderBalances /\ r.debt = v.debt BY DEF SameBooks
<1>5. Spares(v, w, a) /\ w.debt = v.debt BY <1>2, <1>3, <1>4 DEF Spares
<1> QED BY <1>1, <1>5, FairWithoutDebts

(* From v to w, token t gained db in balance and owe in claims and was       *)
(* pulled or pushed, and nothing else of the tokens moved.                   *)
Steps(v, w, t, db, owe) ==
  /\ Good(w) /\ w.hlpLiquidityOnHold = v.hlpLiquidityOnHold
  /\ \A u \in Tokens \ {t} :
        /\ w.balanceOf[u] = v.balanceOf[u] /\ w.totalAmount[u] = v.totalAmount[u]
        /\ Owed(w, u) = Owed(v, u)
  /\ w.balanceOf[t] = v.balanceOf[t] + db /\ Owed(w, t) = Owed(v, t) + owe
  /\ w.totalAmount[t] = w.balanceOf[t] + w.hlpLiquidityOnHold[t]

(* Such a step is sound when what is newly owed has come in. *)
LEMMA StepsSound ==
  ASSUME NEW v, Good(v), Covered(v), NEW w, NEW t \in Tokens,
         NEW db \in Int, NEW owe \in Int, Steps(v, w, t, db, owe),
         owe <= db, owe >= 0 \/ db = owe
  PROVE  Sound(v, w)
<1>1. \A u \in Tokens : v.balanceOf[u] \in Nat /\ Owed(v, u) \in Nat
  BY EntriesNat, OwedNat DEF Good
<1>2. \A u \in Tokens \ {t} : LeftAlone(v, w, u)
  BY <1>1 DEF Steps, LeftAlone
<1>3. Booked(v, w, t)
  <2>1. v.balanceOf[t] \in Nat /\ Owed(v, t) \in Nat BY <1>1
  <2>2. /\ w.balanceOf[t] = v.balanceOf[t] + db /\ Owed(w, t) = Owed(v, t) + owe
        /\ w.totalAmount[t] = w.balanceOf[t] + w.hlpLiquidityOnHold[t]
    BY DEF Steps
  <2> QED BY <2>1, <2>2 DEF Booked
<1> QED BY <1>2, <1>3, SoundTokenwise DEF Steps

(* Claims accumulate over several operators on the same token. *)
LEMMA OwesTwice ==
  ASSUME NEW v, Good(v), NEW x, NEW w, NEW t \in Tokens, NEW m \in Int, NEW n \in Int,
         OwesMore(v, x, t, m), OwesMore(x, w, t, n)
  PROVE  OwesMore(v, w, t, m + n)
<1> SUFFICES ASSUME NEW u \in Tokens
             PROVE  Owed(w, u) = Owed(v, u) + (IF u = t THEN m + n ELSE 0)
  BY DEF OwesMore
<1>1. Owed(v, u) \in Nat BY OwedNat DEF Good
<1>2. Owed(x, u) = Owed(v, u) + (IF u = t THEN m ELSE 0) BY DEF OwesMore
<1>3. Owed(w, u) = Owed(x, u) + (IF u = t THEN n ELSE 0) BY DEF OwesMore
<1> QED BY <1>1, <1>2, <1>3

(* Tokens received, booked by operators that move no tokens, then pulled. *)
LEMMA PullSteps ==
  ASSUME NEW v, Good(v), NEW t \in Tokens, NEW n \in Nat, NEW owe \in Int,
         NEW r, r = Receive(v, t, n), NEW x, Good(x), SameTokens(r, x),
         OwesMore(r, x, t, owe), NEW w, w = PullToken(x, t)
  PROVE  Steps(v, w, t, n, owe) /\ SameBooks(v, r) /\ SameBooks(x, w)
<1>0. SameBooks(v, r) BY ReceiveIs
<1>1. /\ OwesMore(v, r, t, 0)
      /\ r.balanceOf = [v.balanceOf EXCEPT ![t] = @ + n]
      /\ r.totalAmount = v.totalAmount /\ r.hlpLiquidityOnHold = v.hlpLiquidityOnHold
  BY ReceiveIs
<1>2. /\ Good(w) /\ OwesMore(x, w, t, 0) /\ SameBooks(x, w)
      /\ w.balanceOf = x.balanceOf
      /\ w.totalAmount = [x.totalAmount EXCEPT ![t] = x.balanceOf[t] + x.hlpLiquidityOnHold[t]]
      /\ w.hlpLiquidityOnHold = x.hlpLiquidityOnHold
  BY PullTokenIs
<1>3. OwesMore(v, w, t, owe)
  <2>1. OwesMore(v, x, t, 0 + owe) BY <1>1, OwesTwice
  <2>2. OwesMore(v, w, t, (0 + owe) + 0) BY <1>2, <2>1, OwesTwice
  <2>3. (0 + owe) + 0 = owe OBVIOUS
  <2> QED BY <2>2, <2>3
<1>4. v.balanceOf \in PerToken /\ v.totalAmount \in PerToken BY DEF Good, Vaults
<1>5. /\ w.balanceOf = [v.balanceOf EXCEPT ![t] = @ + n]
      /\ w.hlpLiquidityOnHold = v.hlpLiquidityOnHold
      /\ w.totalAmount = [v.totalAmount EXCEPT ![t] = w.balanceOf[t] + w.hlpLiquidityOnHold[t]]
  BY <1>1, <1>2 DEF SameTokens
<1>6. \A u \in Tokens : Owed(v, u) \in Nat BY OwedNat DEF Good
<1>7. /\ Owed(w, t) = Owed(v, t) + owe
      /\ \A u \in Tokens \ {t} : Owed(w, u) = Owed(v, u)
  BY <1>3, <1>6 DEF OwesMore
<1>8. /\ w.balanceOf[t] = v.balanceOf[t] + n
      /\ w.totalAmount[t] = w.balanceOf[t] + w.hlpLiquidityOnHold[t]
      /\ \A u \in Tokens \ {t} : /\ w.balanceOf[u] = v.balanceOf[u]
                                 /\ w.totalAmount[u] = v.totalAmount[u]
  BY <1>4, <1>5 DEF PerToken
<1> QED BY <1>0, <1>2, <1>5, <1>7, <1>8 DEF Steps

(* Tokens taken off the books, then pushed. *)
LEMMA PushSteps ==
  ASSUME NEW v, Good(v), NEW t \in Tokens, NEW n \in Nat, n <= v.balanceOf[t],
         NEW owe \in Int, NEW x, Good(x), SameTokens(v, x), OwesMore(v, x, t, owe),
         NEW w, w = PushToken(x, t, n)
  PROVE  Steps(v, w, t, 0 - n, owe) /\ SameBooks(x, w)
<1>1. n <= x.balanceOf[t] BY DEF SameTokens
<1>2. /\ Good(w) /\ OwesMore(x, w, t, 0) /\ SameBooks(x, w)
      /\ w.balanceOf = [x.balanceOf EXCEPT ![t] = @ - n]
      /\ w.totalAmount =
           [x.totalAmount EXCEPT ![t] = x.balanceOf[t] - n + x.hlpLiquidityOnHold[t]]
      /\ w.hlpLiquidityOnHold = x.hlpLiquidityOnHold
  BY <1>1, PushTokenIs
<1>3. OwesMore(v, w, t, owe)
  <2>1. OwesMore(v, w, t, owe + 0) BY <1>2, OwesTwice
  <2>2. owe + 0 = owe OBVIOUS
  <2> QED BY <2>1, <2>2
<1>4. v.balanceOf \in PerToken /\ v.totalAmount \in PerToken BY DEF Good, Vaults
<1>5. /\ w.balanceOf = [v.balanceOf EXCEPT ![t] = @ - n]
      /\ w.hlpLiquidityOnHold = v.hlpLiquidityOnHold
      /\ w.totalAmount =
           [v.totalAmount EXCEPT ![t] = v.balanceOf[t] - n + w.hlpLiquidityOnHold[t]]
  BY <1>2 DEF SameTokens
<1>6. \A u \in Tokens : Owed(v, u) \in Nat BY OwedNat DEF Good
<1>7. /\ Owed(w, t) = Owed(v, t) + owe
      /\ \A u \in Tokens \ {t} : Owed(w, u) = Owed(v, u)
  BY <1>3, <1>6 DEF OwesMore
<1>8. /\ w.balanceOf[t] = v.balanceOf[t] - n
      /\ w.totalAmount[t] = w.balanceOf[t] + w.hlpLiquidityOnHold[t]
      /\ \A u \in Tokens \ {t} : /\ w.balanceOf[u] = v.balanceOf[u]
                                 /\ w.totalAmount[u] = v.totalAmount[u]
  BY <1>4, <1>5 DEF PerToken
<1>9. w.balanceOf[t] = v.balanceOf[t] + (0 - n)
  <2>1. v.balanceOf[t] \in Nat BY <1>4 DEF PerToken
  <2> QED BY <1>8, <2>1
<1> QED BY <1>2, <1>5, <1>7, <1>8, <1>9 DEF Steps

-----------------------------------------------------------------------------
(* Collateral. *)

(* Nothing moved at all moves nothing. *)
LEMMA NothingMoved ==
  ASSUME NEW v, Good(v), NEW t \in Tokens
  PROVE  SameTokens(v, v) /\ OwesMore(v, v, t, 0)
<1>1. \A u \in Tokens : Owed(v, u) \in Nat BY OwedNat DEF Good
<1> QED BY <1>1 DEF SameTokens, OwesMore

(* A stray transfer to the vault is sound. *)
LEMMA DonateSound ==
  ASSUME Good(vault), Covered(vault), NEW t \in Tokens, NEW n \in Nat, Donate(t, n)
  PROVE  Correct(vault, vault')
<1>1. vault' = Receive(vault, t, n) BY DEF Donate, Becomes
<1>2. /\ Good(vault') /\ OwesMore(vault, vault', t, 0) /\ SameBooks(vault, vault')
      /\ vault'.balanceOf = [vault.balanceOf EXCEPT ![t] = @ + n]
      /\ vault'.totalAmount = vault.totalAmount
      /\ vault'.hlpLiquidityOnHold = vault.hlpLiquidityOnHold
  BY <1>1, ReceiveIs
<1>3. \A u \in Tokens : vault.balanceOf[u] \in Nat /\ Owed(vault, u) \in Nat
  BY EntriesNat, OwedNat DEF Good
<1>4. vault.balanceOf \in PerToken BY DEF Good, Vaults
<1>5. \A u \in Tokens : vault'.balanceOf[u] >= vault.balanceOf[u]
  BY <1>2, <1>3, <1>4 DEF PerToken
<1>6. \A u \in Tokens : Owed(vault', u) = Owed(vault, u)
  BY <1>2, <1>3 DEF OwesMore
<1>7. Sound(vault, vault') BY <1>2, <1>5, <1>6, SoundTokenwise DEF LeftAlone
<1> QED BY <1>2, <1>7, FairWithSameBooks DEF Correct

(* A deposit is sound. *)
LEMMA DepositSound ==
  ASSUME Good(vault), Covered(vault), NEW a \in SubAccounts, NEW t \in Tokens,
         NEW n \in Nat, DepositCollateral(a, t, n)
  PROVE  Correct(vault, vault')
<1> DEFINE r == Receive(vault, t, n)
           x == IncreaseTraderBalance(r, a, t, n)
<1>1. vault' = PullToken(x, t) BY DEF DepositCollateral, Becomes
<1>2. Good(r) BY ReceiveIs
<1>3. TraderMoved(r, x, a, t, n) BY <1>2, IncreaseIs
<1> HIDE DEF x
<1>4. Steps(vault, vault', t, n, n) /\ SameBooks(vault, r) /\ SameBooks(x, vault')
  BY <1>1, <1>3, PullSteps DEF TraderMoved
<1>5. Good(vault') BY <1>4 DEF Steps
<1> HIDE DEF r
<1>6. r.traderBalances[a][t] + n >= 0
  <2>1. r.traderBalances[a][t] \in Nat BY <1>2, EntriesNat DEF Good
  <2> QED BY <2>1
<1>7. Fair(vault, vault') BY <1>2, <1>3, <1>4, <1>5, <1>6, FairToHolder
<1>8. Sound(vault, vault') BY <1>4, StepsSound
<1> QED BY <1>7, <1>8 DEF Correct

(* So is a withdrawal. *)
LEMMA WithdrawSound ==
  ASSUME Good(vault), Covered(vault), NEW a \in SubAccounts, NEW t \in Tokens,
         NEW n \in Nat, WithdrawCollateral(a, t, n)
  PROVE  Correct(vault, vault')
<1> DEFINE x == DeductTraderBalance(vault, a, t, n)
<1>1. /\ vault' = PushToken(x, t, n) /\ n <= vault.traderBalances[a][t]
      /\ n <= vault.balanceOf[t]
  BY DEF WithdrawCollateral, Becomes, CanDeduct, CanPush
<1>2. TraderMoved(vault, x, a, t, 0 - n) BY <1>1, DeductIs
<1> HIDE DEF x
<1>3. Steps(vault, vault', t, 0 - n, 0 - n) /\ SameBooks(x, vault')
  BY <1>1, <1>2, PushSteps DEF TraderMoved
<1>4. Good(vault') BY <1>3 DEF Steps
<1>5. 0 - n \in Int /\ vault.traderBalances[a][t] + (0 - n) >= 0
  <2>1. vault.traderBalances[a][t] \in Nat BY EntriesNat DEF Good
  <2> QED BY <1>1, <2>1
<1>6. SameBooks(vault, vault) BY DEF SameBooks
<1>7. Fair(vault, vault') BY <1>2, <1>3, <1>4, <1>5, <1>6, FairToHolder
<1>8. Sound(vault, vault') BY <1>3, <1>5, StepsSound
<1> QED BY <1>7, <1>8 DEF Correct

(* So is a transfer between two sub-accounts. *)
LEMMA TransferSound ==
  ASSUME Good(vault), Covered(vault), NEW a \in SubAccounts, NEW b \in SubAccounts,
         NEW t \in Tokens, NEW n \in Nat, TransferCollateral(a, b, t, n)
  PROVE  Correct(vault, vault')
<1>1. vault' = Transfer(vault, t, a, b, n) /\ n <= vault.traderBalances[a][t]
  BY DEF TransferCollateral, Becomes, CanDeduct
<1>2. /\ Settled(vault, vault') /\ vault'.debt = vault.debt
      /\ \A c \in SubAccounts, u \in Tokens :
            c # a \/ u # t => vault.traderBalances[c][u] <= vault'.traderBalances[c][u]
  BY <1>1, TransferIs
<1>3. vault \in Vaults /\ vault' \in Vaults BY <1>2 DEF Settled, Good
<1>4. Spares(vault, vault', a)
  <2>1. \A c \in SubAccounts, u \in Tokens :
           vault.traderBalances[c][u] \in Nat /\ vault'.traderBalances[c][u] \in Nat
    BY <1>3, EntriesNat
  <2> QED BY <1>2, <2>1 DEF Spares
<1>5. Fair(vault, vault') BY <1>2, <1>3, <1>4, FairWithoutDebts
<1> QED BY <1>2, <1>5, SettledSound DEF Correct

(* The bookings of two tokens, one after the other, are sound together. *)
LEMMA StepsTwice ==
  ASSUME NEW v, Good(v), Covered(v), NEW x, NEW w, NEW t \in Tokens, NEW u \in Tokens,
         NEW m \in Nat, NEW n \in Nat, Steps(v, x, t, 0 - m, 0 - m), Steps(x, w, u, n, n)
  PROVE  Sound(v, w)
<1>1. \A q \in Tokens : v.balanceOf[q] \in Nat /\ Owed(v, q) \in Nat
  BY EntriesNat, OwedNat DEF Good
<1>2. ASSUME NEW q \in Tokens PROVE LeftAlone(v, w, q) \/ Booked(v, w, q)
  <2>1. v.balanceOf[q] \in Nat /\ Owed(v, q) \in Nat BY <1>1
  <2>2. CASE q # t /\ q # u BY <2>1, <2>2 DEF Steps, LeftAlone
  <2>3. CASE q = t /\ q # u
    <3>1. /\ x.balanceOf[q] = v.balanceOf[q] + (0 - m) /\ Owed(x, q) = Owed(v, q) + (0 - m)
          /\ x.totalAmount[q] = x.balanceOf[q] + x.hlpLiquidityOnHold[q]
      BY <2>3 DEF Steps
    <3>2. /\ w.balanceOf[q] = x.balanceOf[q] /\ Owed(w, q) = Owed(x, q)
          /\ w.totalAmount[q] = x.totalAmount[q]
          /\ w.hlpLiquidityOnHold = x.hlpLiquidityOnHold
      BY <2>3 DEF Steps
    <3> QED BY <2>1, <3>1, <3>2 DEF Booked
  <2>4. CASE q # t /\ q = u
    <3>1. x.balanceOf[q] = v.balanceOf[q] /\ Owed(x, q) = Owed(v, q)
      BY <2>4 DEF Steps
    <3>2. /\ w.balanceOf[q] = x.balanceOf[q] + n /\ Owed(w, q) = Owed(x, q) + n
          /\ w.totalAmount[q] = w.balanceOf[q] + w.hlpLiquidityOnHold[q]
      BY <2>4 DEF Steps
    <3> QED BY <2>1, <3>1, <3>2 DEF Booked
  <2>5. CASE q = t /\ q = u
    <3>1. x.balanceOf[q] = v.balanceOf[q] + (0 - m) /\ Owed(x, q) = Owed(v, q) + (0 - m)
      BY <2>5 DEF Steps
    <3>2. /\ w.balanceOf[q] = x.balanceOf[q] + n /\ Owed(w, q) = Owed(x, q) + n
          /\ w.totalAmount[q] = w.balanceOf[q] + w.hlpLiquidityOnHold[q]
      BY <2>5 DEF Steps
    <3> QED BY <2>1, <3>1, <3>2 DEF Booked
  <2> QED BY <2>2, <2>3, <2>4, <2>5
<1> QED BY <1>2, SoundTokenwise DEF Steps

(* A switch is a withdrawal and a deposit: the two may be the same token. *)
LEMMA SwitchSound ==
  ASSUME Good(vault), Covered(vault), NEW a \in SubAccounts, NEW t \in Tokens,
         NEW u \in Tokens, NEW m \in Nat, NEW n \in Nat, SwitchCollateral(a, t, u, m, n)
  PROVE  Correct(vault, vault')
<1> DEFINE x == DeductTraderBalance(vault, a, t, m)
           pushed == PushToken(x, t, m)
           back == Receive(pushed, u, n)
           pulled == PullToken(back, u)
<1>0. m <= vault.traderBalances[a][t] /\ m <= vault.balanceOf[t]
  BY DEF SwitchCollateral, CanDeduct, CanPush
<1>1. vault' = IncreaseTraderBalance(pulled, a, u, n)
  BY DEF SwitchCollateral, Becomes
<1>2. TraderMoved(vault, x, a, t, 0 - m) BY <1>0, DeductIs
<1> HIDE DEF x
<1>3. Steps(vault, pushed, t, 0 - m, 0 - m) /\ SameBooks(x, pushed)
  <2>1. Good(x) /\ SameTokens(vault, x) /\ OwesMore(vault, x, t, 0 - m)
    BY <1>2 DEF TraderMoved
  <2> QED BY <1>0, <2>1, PushSteps
<1>4. Good(pushed) BY <1>3 DEF Steps
<1> HIDE DEF pushed
<1>5. Steps(pushed, pulled, u, n, 0) /\ SameBooks(pushed, pulled)
  <2>1. Good(back) BY <1>4, ReceiveIs
  <2> HIDE DEF back
  <2>2. SameTokens(back, back) /\ OwesMore(back, back, u, 0) BY <2>1, NothingMoved
  <2>3. Steps(pushed, pulled, u, n, 0) /\ SameBooks(pushed, back) /\ SameBooks(back, pulled)
    BY <1>4, <2>1, <2>2, PullSteps DEF back
  <2> QED BY <2>3 DEF SameBooks
<1> HIDE DEF pulled
<1>6. TraderMoved(pulled, vault', a, u, n) BY <1>1, <1>5, IncreaseIs DEF Steps
<1>7. Steps(pushed, vault', u, n, n)
  <2>1. /\ Good(vault') /\ SameTokens(pulled, vault') /\ OwesMore(pulled, vault', u, n)
    BY <1>6 DEF TraderMoved
  <2>2. \A q \in Tokens : Owed(pushed, q) \in Nat BY <1>4, OwedNat DEF Good
  <2>3. \A q \in Tokens \ {u} : Owed(pulled, q) = Owed(pushed, q)
    BY <1>5 DEF Steps
  <2>4. Owed(pulled, u) = Owed(pushed, u) + 0 BY <1>5 DEF Steps
  <2>5. \A q \in Tokens \ {u} : Owed(vault', q) = Owed(pushed, q)
    BY <2>1, <2>2, <2>3 DEF OwesMore
  <2>6. Owed(vault', u) = Owed(pushed, u) + n
    <3>1. Owed(vault', u) = Owed(pulled, u) + n BY <2>1 DEF OwesMore
    <3> QED BY <2>2, <2>4, <3>1
  <2> QED BY <1>5, <2>1, <2>5, <2>6 DEF Steps, SameTokens
<1>8. Sound(vault, vault') BY <1>3, <1>7, StepsTwice
<1>9. Fair(vault, vault')
  <2>1. Good(pulled) /\ Good(vault') BY <1>5, <1>7 DEF Steps
  <2>2. SameBooks(vault, vault) /\ SameBooks(vault', vault') BY DEF SameBooks
  <2>3. 0 - m \in Int /\ vault.traderBalances[a][t] + (0 - m) >= 0
    <3>1. vault.traderBalances[a][t] \in Nat BY EntriesNat DEF Good
    <3> QED BY <1>0, <3>1
  <2>4. Spares(vault, pushed, a) /\ pushed.debt = vault.debt
    BY <1>2, <1>3, <1>4, <2>2, <2>3, FairToHolder
  <2>5. pulled.traderBalances[a][u] + n >= 0
    <3>1. pulled.traderBalances[a][u] \in Nat BY <2>1, EntriesNat DEF Good
    <3> QED BY <3>1
  <2>6. Spares(pushed, vault', a) /\ vault'.debt = pushed.debt
    BY <1>4, <1>5, <1>6, <2>1, <2>2, <2>5, FairToHolder
  <2>7. vault \in Vaults /\ pushed \in Vaults /\ vault' \in Vaults
    BY <1>4, <2>1 DEF Good
  <2>8. Spares(vault, vault', a) BY <2>4, <2>6, <2>7, SparesTwice
  <2> QED BY <2>4, <2>6, <2>7, <2>8, FairWithoutDebts
<1> QED BY <1>8, <1>9 DEF Correct

-----------------------------------------------------------------------------
(* The pool and the fees. *)

(* w is v with n more claims on token t, none of them a trader's, and no     *)
(* token moved.                                                              *)
Claims(v, w, t, n) ==
  Good(w) /\ SameTokens(v, w) /\ OwesMore(v, w, t, n) /\ SameBooks(v, w)

(* The traders' books are the same after two operators that keep them. *)
LEMMA BooksTwice ==
  ASSUME NEW v, NEW x, NEW w, SameBooks(v, x), SameBooks(x, w)
  PROVE  SameBooks(v, w)
BY DEF SameBooks

(* One gain is as many claims. *)
LEMMA OneGain ==
  ASSUME NEW v, Good(v), NEW t \in Tokens,
         NEW hlp \in Int, NEW fee \in Int, NEW dev \in Int, NEW reserve \in Int,
         v.hlpLiquidity[t] + hlp >= 0, v.protocolFees[t] + fee >= 0,
         v.devFees[t] + dev >= 0, v.fundingFeeReserve[t] + reserve >= 0,
         NEW n \in Int, n = hlp + fee + dev + reserve,
         NEW w, w = Gains(v, t, hlp, fee, dev, reserve, 0)
  PROVE  Claims(v, w, t, n)
<1>1. v.hlpLiquidityDebt + 0 >= 0
  <2>1. v.hlpLiquidityDebt \in Nat BY DEF Good, Vaults
  <2> QED BY <2>1
<1> QED BY <1>1, GainsIs DEF Claims

(* Claims on a token add up. *)
LEMMA ClaimsTwice ==
  ASSUME NEW v, Good(v), NEW x, NEW w, NEW t \in Tokens, NEW m \in Int, NEW n \in Int,
         Claims(v, x, t, m), Claims(x, w, t, n)
  PROVE  Claims(v, w, t, m + n)
BY OwesTwice DEF Claims, SameTokens, SameBooks

(* Whatever is added to the pool, the fees or the reserve is a new claim. *)
LEMMA AddedIs ==
  ASSUME NEW v, Good(v), NEW t \in Tokens, NEW n \in Nat
  PROVE  /\ Claims(v, AddHLPLiquidity(v, t, n), t, n) /\ Claims(v, AddFee(v, t, n), t, n)
         /\ Claims(v, AddDevFee(v, t, n), t, n) /\ Claims(v, AddFundingFee(v, t, n), t, n)
<1>1. v \in Vaults BY DEF Good
<1>2. /\ v.hlpLiquidity[t] + n >= 0 /\ v.protocolFees[t] + n >= 0
      /\ v.devFees[t] + n >= 0 /\ v.fundingFeeReserve[t] + n >= 0
      /\ v.hlpLiquidity[t] + 0 >= 0 /\ v.protocolFees[t] + 0 >= 0
      /\ v.devFees[t] + 0 >= 0 /\ v.fundingFeeReserve[t] + 0 >= 0
  <2>1. /\ v.hlpLiquidity[t] \in Nat /\ v.protocolFees[t] \in Nat
        /\ v.devFees[t] \in Nat /\ v.fundingFeeReserve[t] \in Nat
    BY <1>1, EntriesNat
  <2> QED BY <2>1
<1>3. n + 0 + 0 + 0 = n /\ 0 + n + 0 + 0 = n /\ 0 + 0 + n + 0 = n /\ 0 + 0 + 0 + n = n
  OBVIOUS
<1>4. /\ AddHLPLiquidity(v, t, n) = Gains(v, t, n, 0, 0, 0, 0)
      /\ AddFee(v, t, n) = Gains(v, t, 0, n, 0, 0, 0)
      /\ AddDevFee(v, t, n) = Gains(v, t, 0, 0, n, 0, 0)
      /\ AddFundingFee(v, t, n) = Gains(v, t, 0, 0, 0, n, 0)
  BY <1>1, SingleGains DEF AddHLPLiquidity, AddFee, AddDevFee, AddFundingFee
<1>5. Claims(v, AddHLPLiquidity(v, t, n), t, n) BY <1>2, <1>3, <1>4, OneGain
<1>6. Claims(v, AddFee(v, t, n), t, n) BY <1>2, <1>3, <1>4, OneGain
<1>7. Claims(v, AddDevFee(v, t, n), t, n) BY <1>2, <1>3, <1>4, OneGain
<1>8. Claims(v, AddFundingFee(v, t, n), t, n) BY <1>2, <1>3, <1>4, OneGain
<1> QED BY <1>5, <1>6, <1>7, <1>8

(* Whatever is taken from the pool or the fees is a claim less. *)
LEMMA TakenIs ==
  ASSUME NEW v, Good(v), NEW t \in Tokens, NEW n \in Nat
  PROVE  /\ n <= v.hlpLiquidity[t] => Claims(v, RemoveHLPLiquidity(v, t, n), t, 0 - n)
         /\ n <= v.protocolFees[t] =>
              Claims(v, [v EXCEPT !.protocolFees[t] = @ - n], t, 0 - n)
         /\ n <= v.devFees[t] => Claims(v, [v EXCEPT !.devFees[t] = @ - n], t, 0 - n)
<1> DEFINE m == 0 - n
           h == [v.hlpLiquidity EXCEPT ![t] = @ - n]
           f == [v.protocolFees EXCEPT ![t] = @ - n]
           d == [v.devFees EXCEPT ![t] = @ - n]
<1>1. v \in Vaults BY DEF Good
<1>2. /\ v.hlpLiquidity \in PerToken /\ v.protocolFees \in PerToken /\ v.devFees \in PerToken
      /\ v.hlpLiquidity[t] \in Nat /\ v.protocolFees[t] \in Nat
      /\ v.devFees[t] \in Nat /\ v.fundingFeeReserve[t] \in Nat
  BY <1>1, EntriesNat DEF Vaults
<1>3. /\ n <= v.hlpLiquidity[t] => v.hlpLiquidity[t] + m >= 0
      /\ n <= v.protocolFees[t] => v.protocolFees[t] + m >= 0
      /\ n <= v.devFees[t] => v.devFees[t] + m >= 0
      /\ v.hlpLiquidity[t] + 0 >= 0 /\ v.protocolFees[t] + 0 >= 0
      /\ v.devFees[t] + 0 >= 0 /\ v.fundingFeeReserve[t] + 0 >= 0
      /\ m \in Int /\ m + 0 + 0 + 0 = m /\ 0 + m + 0 + 0 = m /\ 0 + 0 + m + 0 = m
  BY <1>2
<1>4. /\ h = Plus(v.hlpLiquidity, t, m) /\ f = Plus(v.protocolFees, t, m)
      /\ d = Plus(v.devFees, t, m)
  BY <1>2 DEF Plus, PerToken
<1>5. /\ RemoveHLPLiquidity(v, t, n)
           = Filled(v, h, v.protocolFees, v.devFees, v.fundingFeeReserve, v.hlpLiquidityDebt)
      /\ [v EXCEPT !.protocolFees[t] = @ - n]
           = Filled(v, v.hlpLiquidity, f, v.devFees, v.fundingFeeReserve, v.hlpLiquidityDebt)
      /\ [v EXCEPT !.devFees[t] = @ - n]
           = Filled(v, v.hlpLiquidity, v.protocolFees, d, v.fundingFeeReserve,
                    v.hlpLiquidityDebt)
  BY <1>1 DEF RemoveHLPLiquidity, Filled, Vaults
<1> HIDE DEF h, f, d, m
<1>6. /\ RemoveHLPLiquidity(v, t, n) = Gains(v, t, m, 0, 0, 0, 0)
      /\ [v EXCEPT !.protocolFees[t] = @ - n] = Gains(v, t, 0, m, 0, 0, 0)
      /\ [v EXCEPT !.devFees[t] = @ - n] = Gains(v, t, 0, 0, m, 0, 0)
  BY <1>1, <1>4, <1>5, NoGain DEF Gains
<1>7. n <= v.hlpLiquidity[t] => Claims(v, RemoveHLPLiquidity(v, t, n), t, m)
  BY <1>3, <1>6, OneGain
<1>8. n <= v.protocolFees[t] => Claims(v, [v EXCEPT !.protocolFees[t] = @ - n], t, m)
  BY <1>3, <1>6, OneGain
<1>9. n <= v.devFees[t] => Claims(v, [v EXCEPT !.devFees[t] = @ - n], t, m)
  BY <1>3, <1>6, OneGain
<1> QED BY <1>7, <1>8, <1>9 DEF m

(* A liquidity fee is part of the amount, and splits without loss. *)
LEMMA CollectFeeIs ==
  ASSUME NEW v, Good(v), NEW t \in Tokens, NEW amount \in Nat, NEW rate \in LpFeeBPS
  PROVE  LET fee == LpFee(amount, rate) IN
         /\ fee \in Nat /\ fee <= amount
         /\ Claims(v, CollectFee(v, t, fee), t, fee)
<1> DEFINE fee == LpFee(amount, rate)
           dev == DevShare(fee)
           x == AddDevFee(v, t, dev)
<1>1. BPS \in Nat \ {0} /\ rate \in Nat /\ rate <= BPS
  BY TradeHelperAssumption, LedgerAssumption
<1>2. fee \in Nat /\ fee <= amount
  <2>1. amount * rate \in Nat /\ amount * rate <= amount * BPS
    <3>1. rate * amount <= BPS * amount BY <1>1, TimesGrows
    <3> QED BY <1>1, <3>1
  <2> QED BY <1>1, <2>1, DivIs, DivAtMost DEF LpFee
<1> HIDE DEF fee
<1>3. dev \in Nat /\ dev <= fee BY <1>2, DevShareIs
<1>4. CollectFee(v, t, fee) = AddFee(x, t, fee - dev) BY DEF CollectFee
<1> HIDE DEF dev
<1>5. fee - dev \in Nat /\ dev + (fee - dev) = fee BY <1>2, <1>3
<1>6. Claims(v, x, t, dev) BY <1>3, AddedIs
<1> HIDE DEF x
<1>7. Claims(x, AddFee(x, t, fee - dev), t, fee - dev) BY <1>5, <1>6, AddedIs DEF Claims
<1>8. Claims(v, AddFee(x, t, fee - dev), t, dev + (fee - dev))
  BY <1>3, <1>5, <1>6, <1>7, ClaimsTwice
<1>9. Claims(v, CollectFee(v, t, fee), t, fee) BY <1>4, <1>5, <1>8
<1> QED BY <1>2, <1>9 DEF fee

(* Claims made after a pull count with it. *)
LEMMA StepsThenClaims ==
  ASSUME NEW v, Good(v), NEW x, NEW w, NEW t \in Tokens, NEW db \in Int,
         NEW m \in Int, NEW n \in Int, Steps(v, x, t, db, m), Claims(x, w, t, n)
  PROVE  Steps(v, w, t, db, m + n)
<1>1. \A u \in Tokens : Owed(v, u) \in Nat BY OwedNat DEF Good
<1>2. \A u \in Tokens \ {t} : Owed(w, u) = Owed(v, u)
  BY <1>1 DEF Steps, Claims, OwesMore
<1>3. Owed(w, t) = Owed(v, t) + (m + n)
  <2>1. Owed(v, t) \in Nat BY <1>1
  <2>2. Owed(x, t) = Owed(v, t) + m /\ Owed(w, t) = Owed(x, t) + n
    BY DEF Steps, Claims, OwesMore
  <2> QED BY <2>1, <2>2
<1> QED BY <1>2, <1>3 DEF Steps, Claims, SameTokens

(* Rewards vesting are nobody's claim: they are in the pool already. *)
LEMMA RewardIs ==
  ASSUME NEW v, Good(v), NEW f \in PerToken, NEW t \in Tokens,
         NEW w, w = [v EXCEPT !.pendingRewardDebt = f]
  PROVE  Claims(v, w, t, 0) /\ Settled(v, w)
<1>1. v \in Vaults BY DEF Good
<1>2. w \in Vaults BY <1>1 DEF Vaults
<1>3. /\ SameBooks(v, w) /\ SameTokens(v, w)
      /\ w.hlpLiquidity = v.hlpLiquidity /\ w.protocolFees = v.protocolFees
      /\ w.devFees = v.devFees /\ w.fundingFeeReserve = v.fundingFeeReserve
  BY <1>1 DEF Vaults, SameBooks, SameTokens
<1>4. Good(w) BY <1>2, <1>3, PoolMoves
<1>5. \A u \in Tokens : Owed(w, u) = Owed(v, u) /\ Owed(v, u) \in Nat
  <2> TAKE u \in Tokens
  <2>1. /\ v.hlpLiquidity[u] \in Nat /\ v.fundingFeeReserve[u] \in Nat
        /\ v.protocolFees[u] \in Nat /\ v.devFees[u] \in Nat /\ Owed(v, u) \in Nat
    BY <1>1, EntriesNat, OwedNat
  <2>2. Owed(w, u) = Owed(v, u) + (w.hlpLiquidity[u] - v.hlpLiquidity[u])
            + (w.protocolFees[u] - v.protocolFees[u]) + (w.devFees[u] - v.devFees[u])
            + (w.fundingFeeReserve[u] - v.fundingFeeReserve[u])
    BY <1>2, <1>3, PoolMoves
  <2>3. /\ w.hlpLiquidity[u] = v.hlpLiquidity[u] /\ w.protocolFees[u] = v.protocolFees[u]
        /\ w.devFees[u] = v.devFees[u] /\ w.fundingFeeReserve[u] = v.fundingFeeReserve[u]
    BY <1>3
  <2> QED BY <2>1, <2>2, <2>3
<1>6. OwesMore(v, w, t, 0) BY <1>5 DEF OwesMore
<1> QED BY <1>3, <1>4, <1>5, <1>6 DEF Claims, Settled

(* Adding liquidity is sound: all of it is pulled, and fee and rest booked. *)
LEMMA AddLiquiditySound ==
  ASSUME Good(vault), Covered(vault), NEW t \in Tokens, NEW n \in Nat,
         NEW rate \in LpFeeBPS, AddLiquidity(t, n, rate)
  PROVE  Correct(vault, vault')
<1> DEFINE fee == LpFee(n, rate)
           r == Receive(vault, t, n)
           pulled == PullToken(r, t)
           x == CollectFee(pulled, t, fee)
<1>1. vault' = AddHLPLiquidity(x, t, n - fee) BY DEF AddLiquidity, Becomes
<1>2. Steps(vault, pulled, t, n, 0) /\ SameBooks(vault, pulled)
  <2>1. Good(r) BY ReceiveIs
  <2> HIDE DEF r
  <2>2. SameTokens(r, r) /\ OwesMore(r, r, t, 0) BY <2>1, NothingMoved
  <2>3. Steps(vault, pulled, t, n, 0) /\ SameBooks(vault, r) /\ SameBooks(r, pulled)
    BY <2>1, <2>2, PullSteps DEF r
  <2> QED BY <2>3, BooksTwice
<1>3. Good(pulled) BY <1>2 DEF Steps
<1> HIDE DEF pulled
<1>4. fee \in Nat /\ fee <= n /\ Claims(pulled, x, t, fee) BY <1>3, CollectFeeIs
<1> HIDE DEF fee, x
<1>5. n - fee \in Nat /\ fee + (n - fee) = n /\ 0 + n = n BY <1>4
<1>6. Claims(x, vault', t, n - fee) BY <1>1, <1>4, <1>5, AddedIs DEF Claims
<1>7. Claims(pulled, vault', t, n)
  <2>1. Claims(pulled, vault', t, fee + (n - fee))
    BY <1>3, <1>4, <1>5, <1>6, ClaimsTwice
  <2> QED BY <1>5, <2>1
<1>8. Steps(vault, vault', t, n, 0 + n)
  BY <1>2, <1>7, StepsThenClaims
<1>9. Steps(vault, vault', t, n, n) BY <1>5, <1>8
<1>10. SameBooks(vault, vault') BY <1>2, <1>7, BooksTwice DEF Claims
<1> QED BY <1>9, <1>10, StepsSound, FairWithSameBooks DEF Correct, Steps

(* Removing it is too: the fee stays, just the rest goes out. *)
LEMMA RemoveLiquiditySound ==
  ASSUME Good(vault), Covered(vault), NEW t \in Tokens, NEW n \in Nat,
         NEW rate \in LpFeeBPS, RemoveLiquidity(t, n, rate)
  PROVE  Correct(vault, vault')
<1> DEFINE fee == LpFee(n, rate)
           x == RemoveHLPLiquidity(vault, t, n)
           y == CollectFee(x, t, fee)
<1>1. /\ vault' = PushToken(y, t, n - fee)
      /\ vault.pendingRewardDebt[t] + n <= vault.hlpLiquidity[t]
      /\ n - fee <= vault.balanceOf[t]
  BY DEF RemoveLiquidity, Becomes, CanRemoveHLPLiquidity, CanPush
<1>2. n <= vault.hlpLiquidity[t]
  <2>1. vault.pendingRewardDebt[t] \in Nat /\ vault.hlpLiquidity[t] \in Nat
    BY EntriesNat DEF Good
  <2> QED BY <1>1, <2>1
<1>3. Claims(vault, x, t, 0 - n) BY <1>2, TakenIs
<1> HIDE DEF x
<1>4. fee \in Nat /\ fee <= n /\ Claims(x, y, t, fee) BY <1>3, CollectFeeIs DEF Claims
<1> HIDE DEF fee, y
<1>5. n - fee \in Nat /\ 0 - n \in Int /\ (0 - n) + fee = 0 - (n - fee) BY <1>4
<1>6. Claims(vault, y, t, (0 - n) + fee) BY <1>3, <1>4, <1>5, ClaimsTwice
<1>7. Steps(vault, vault', t, 0 - (n - fee), 0 - (n - fee)) /\ SameBooks(y, vault')
  <2> DEFINE out == n - fee
  <2>1. /\ out \in Nat /\ out <= vault.balanceOf[t] /\ 0 - out \in Int
        /\ Claims(vault, y, t, 0 - out) /\ vault' = PushToken(y, t, out)
    BY <1>1, <1>5, <1>6
  <2> HIDE DEF out
  <2>2. Steps(vault, vault', t, 0 - out, 0 - out) /\ SameBooks(y, vault')
    BY <2>1, PushSteps DEF Claims
  <2> QED BY <2>2 DEF out
<1>8. 0 - (n - fee) \in Int BY <1>5
<1>9. SameBooks(vault, vault') BY <1>6, <1>7, BooksTwice DEF Claims
<1>10. Sound(vault, vault') BY <1>7, <1>8, StepsSound
<1> QED BY <1>7, <1>9, <1>10, FairWithSameBooks DEF Correct, Steps

(* Feeding a reward, and letting rewards vest, are sound. *)
LEMMA FeedSound ==
  ASSUME Good(vault), Covered(vault), NEW t \in Tokens, NEW n \in Nat, Feed(t, n)
  PROVE  Correct(vault, vault')
<1> DEFINE r == Receive(vault, t, n)
           x == AddHLPLiquidity(r, t, n)
           w == PullToken(x, t)
           f == [w.pendingRewardDebt EXCEPT ![t] = @ + n]
<1>1. vault' = [w EXCEPT !.pendingRewardDebt[t] = @ + n]
  BY DEF Feed, Becomes, FeedReward
<1>2. Good(r) BY ReceiveIs
<1>3. Claims(r, x, t, n) BY <1>2, AddedIs
<1>4. Steps(vault, w, t, n, n) /\ SameBooks(vault, w)
  <2> HIDE DEF x
  <2>1. Steps(vault, w, t, n, n) /\ SameBooks(vault, r) /\ SameBooks(x, w)
    BY <1>2, <1>3, PullSteps DEF Claims
  <2> QED BY <1>3, <2>1, BooksTwice DEF Claims
<1> HIDE DEF w
<1>5. Good(w) /\ w \in Vaults BY <1>4 DEF Steps, Good
<1>6. f \in PerToken BY <1>5 DEF Vaults, PerToken
<1>7. vault' = [w EXCEPT !.pendingRewardDebt = f] BY <1>1, <1>5 DEF Vaults
<1> HIDE DEF f
<1>8. Claims(w, vault', t, 0) BY <1>5, <1>6, <1>7, RewardIs
<1>9. Steps(vault, vault', t, n, n + 0) BY <1>4, <1>8, StepsThenClaims
<1>10. n + 0 = n OBVIOUS
<1>11. SameBooks(vault, vault') BY <1>4, <1>8, BooksTwice DEF Claims
<1> QED BY <1>9, <1>10, <1>11, StepsSound, FairWithSameBooks DEF Correct, Steps

(* Time passing over a reward is sound. *)
LEMMA VestSound ==
  ASSUME Good(vault), Covered(vault), NEW t \in Tokens, Vest(t)
  PROVE  Correct(vault, vault')
<1>1. PICK left \in 0 .. vault.pendingRewardDebt[t] :
        vault' = [vault EXCEPT !.pendingRewardDebt[t] = left]
  BY DEF Vest
<1> DEFINE f == [vault.pendingRewardDebt EXCEPT ![t] = left]
<1>2. vault \in Vaults BY DEF Good
<1>3. f \in PerToken BY <1>2 DEF Vaults, PerToken
<1>4. vault' = [vault EXCEPT !.pendingRewardDebt = f] BY <1>1, <1>2 DEF Vaults
<1> HIDE DEF f
<1>5. Settled(vault, vault') /\ SameBooks(vault, vault') BY <1>3, <1>4, RewardIs DEF Claims
<1> QED BY <1>5, SettledSound, FairWithSameBooks DEF Correct, Settled

(* Fees and dev fees taken by the owner go out of their own books only. *)
LEMMA TakeFeeSound ==
  ASSUME Good(vault), Covered(vault), NEW t \in Tokens, NEW n \in Nat, TakeFee(t, n)
  PROVE  Correct(vault, vault')
<1> DEFINE x == [vault EXCEPT !.protocolFees[t] = @ - n]
<1>1. vault' = PushToken(x, t, n) /\ n <= vault.protocolFees[t] /\ n <= vault.balanceOf[t]
  BY DEF TakeFee, Becomes, WithdrawFee, CanWithdrawFee, CanPush
<1>2. Claims(vault, x, t, 0 - n) BY <1>1, TakenIs
<1> HIDE DEF x
<1>3. Good(x) /\ SameTokens(vault, x) /\ OwesMore(vault, x, t, 0 - n)
  BY <1>2 DEF Claims
<1>4. 0 - n \in Int OBVIOUS
<1>5. Steps(vault, vault', t, 0 - n, 0 - n) /\ SameBooks(x, vault')
  BY <1>1, <1>3, <1>4, PushSteps
<1>6. SameBooks(vault, vault') BY <1>2, <1>5, BooksTwice DEF Claims
<1> QED BY <1>4, <1>5, <1>6, StepsSound, FairWithSameBooks DEF Correct, Steps

(* The developer's fees, likewise. *)
LEMMA TakeDevFeeSound ==
  ASSUME Good(vault), Covered(vault), NEW t \in Tokens, NEW n \in Nat, TakeDevFee(t, n)
  PROVE  Correct(vault, vault')
<1> DEFINE x == [vault EXCEPT !.devFees[t] = @ - n]
<1>1. vault' = PushToken(x, t, n) /\ n <= vault.devFees[t] /\ n <= vault.balanceOf[t]
  BY DEF TakeDevFee, Becomes, WithdrawDevFee, CanWithdrawDevFee, CanPush
<1>2. Claims(vault, x, t, 0 - n) BY <1>1, TakenIs
<1> HIDE DEF x
<1>3. Good(x) /\ SameTokens(vault, x) /\ OwesMore(vault, x, t, 0 - n)
  BY <1>2 DEF Claims
<1>4. 0 - n \in Int OBVIOUS
<1>5. Steps(vault, vault', t, 0 - n, 0 - n) /\ SameBooks(x, vault')
  BY <1>1, <1>3, <1>4, PushSteps
<1>6. SameBooks(vault, vault') BY <1>2, <1>5, BooksTwice DEF Claims
<1> QED BY <1>4, <1>5, <1>6, StepsSound, FairWithSameBooks DEF Correct, Steps

(* Injections are received and booked in full. *)
LEMMA InjectSound ==
  ASSUME Good(vault), Covered(vault), NEW t \in Tokens, NEW n \in Nat,
         InjectTokenToHlpLiquidity(t, n) \/ InjectTokenToFundingFeeReserve(t, n)
  PROVE  Correct(vault, vault')
<1> DEFINE r == Receive(vault, t, n)
           x == AddHLPLiquidity(r, t, n)
           y == AddFundingFee(r, t, n)
<1>1. vault' = PullToken(x, t) \/ vault' = PullToken(y, t)
  BY DEF InjectTokenToHlpLiquidity, InjectTokenToFundingFeeReserve, Becomes
<1>2. Good(r) BY ReceiveIs
<1>3. Claims(r, x, t, n) /\ Claims(r, y, t, n) BY <1>2, AddedIs
<1> HIDE DEF x, y
<1>4. Steps(vault, vault', t, n, n) /\ SameBooks(vault, vault')
  <2>1. ASSUME NEW y0, Claims(r, y0, t, n), vault' = PullToken(y0, t)
        PROVE  Steps(vault, vault', t, n, n) /\ SameBooks(vault, vault')
    <3>1. Steps(vault, vault', t, n, n) /\ SameBooks(vault, r) /\ SameBooks(y0, vault')
      BY <1>2, <2>1, PullSteps DEF Claims
    <3> QED BY <2>1, <3>1, BooksTwice DEF Claims
  <2> QED BY <1>1, <1>3, <2>1
<1> QED BY <1>4, StepsSound, FairWithSameBooks DEF Correct, Steps

-----------------------------------------------------------------------------
(* Settlements. *)

(* Writing off all a trader owes moves no token and no claim. *)
LEMMA WriteOffIs ==
  ASSUME NEW v, Good(v), NEW a \in SubAccounts
  PROVE  LET w == WriteOff(v, a)
         IN  Settled(v, w) /\ Spares(v, w, a) /\ Cleared(w, a)
<1> DEFINE Clear(w, kind) == SubDebt(w, kind, a, w.debt[kind][a])
           w1 == Clear(v, "loss")
           w2 == Clear(w1, "tradingFee")
           w3 == Clear(w2, "borrowingFee")
           w4 == Clear(w3, "fundingFee")
<1>0. WriteOff(v, a) = w4 BY DEF WriteOff
<1>1. ASSUME NEW w, Good(w), NEW kind \in DebtKinds
      PROVE  LET z == Clear(w, kind)
             IN  /\ Settled(w, z) /\ Spares(w, z, a) /\ z.debt[kind][a] = 0
                 /\ \A k \in DebtKinds : w.debt[k][a] = 0 => z.debt[k][a] = 0
  <2> DEFINE z == Clear(w, kind)
  <2>1. w.debt[kind][a] \in Nat /\ w \in Vaults BY <1>1 DEF Good, Vaults
  <2>2. Settled(w, z) /\ DebtMoved(w, z, kind, a, 0 - w.debt[kind][a])
    BY <1>1, <2>1, SubDebtIs
  <2> HIDE DEF z
  <2>3. z.debt[kind][a] = 0
    <3>1. z.debt[kind][a] = w.debt[kind][a] + (0 - w.debt[kind][a])
      BY <2>2 DEF DebtMoved
    <3> QED BY <2>1, <3>1
  <2>4. \A k \in DebtKinds : w.debt[k][a] = 0 => z.debt[k][a] = 0
    BY <2>2, <2>3 DEF DebtMoved
  <2>5. Spares(w, z, a)
    <3>1. z \in Vaults /\ 0 - w.debt[kind][a] \in Int BY <2>1, <2>2 DEF Settled, Good
    <3> QED BY <1>1, <2>1, <2>2, <3>1, DebtSpares
  <2> QED BY <2>2, <2>3, <2>4, <2>5 DEF z
<1>2. /\ "loss" \in DebtKinds /\ "tradingFee" \in DebtKinds
      /\ "borrowingFee" \in DebtKinds /\ "fundingFee" \in DebtKinds
      /\ \A k \in DebtKinds :
            k = "borrowingFee" \/ k = "tradingFee" \/ k = "fundingFee" \/ k = "loss"
  BY DEF DebtKinds
<1> HIDE DEF Clear
<1>3. Good(v) /\ v \in Vaults BY DEF Good
<1>4. Settled(v, w1) /\ Spares(v, w1, a) /\ w1.debt["loss"][a] = 0
  BY <1>1, <1>2
<1>5. w1 \in Vaults BY <1>4 DEF Settled, Good
<1> HIDE DEF w1
<1>6. /\ Settled(w1, w2) /\ Spares(w1, w2, a)
      /\ w2.debt["loss"][a] = 0 /\ w2.debt["tradingFee"][a] = 0
  BY <1>1, <1>2, <1>4 DEF Settled
<1>7. Settled(v, w2) /\ w2 \in Vaults BY <1>4, <1>6, SettledTwice DEF Settled, Good
<1> HIDE DEF w2
<1>8. Spares(v, w2, a) BY <1>3, <1>4, <1>5, <1>6, <1>7, SparesTwice
<1>9. /\ Settled(w2, w3) /\ Spares(w2, w3, a) /\ w3.debt["loss"][a] = 0
      /\ w3.debt["tradingFee"][a] = 0 /\ w3.debt["borrowingFee"][a] = 0
  BY <1>1, <1>2, <1>6, <1>7 DEF Settled
<1>10. Settled(v, w3) /\ w3 \in Vaults BY <1>7, <1>9, SettledTwice DEF Settled, Good
<1> HIDE DEF w3
<1>11. Spares(v, w3, a) BY <1>3, <1>7, <1>8, <1>9, <1>10, SparesTwice
<1>12. /\ Settled(w3, w4) /\ Spares(w3, w4, a) /\ w4.debt["loss"][a] = 0
       /\ w4.debt["tradingFee"][a] = 0 /\ w4.debt["borrowingFee"][a] = 0
       /\ w4.debt["fundingFee"][a] = 0
  BY <1>1, <1>2, <1>9, <1>10 DEF Settled
<1>13. Settled(v, w4) /\ w4 \in Vaults BY <1>10, <1>12, SettledTwice DEF Settled, Good
<1> HIDE DEF w4
<1>14. Spares(v, w4, a) BY <1>3, <1>10, <1>11, <1>12, <1>13, SparesTwice
<1>15. Cleared(w4, a) BY <1>2, <1>12 DEF Cleared
<1> QED BY <1>0, <1>13, <1>14, <1>15

(* What a trader receives, then what he pays. *)
LEMMA PaysIs ==
  ASSUME NEW v, Good(v), NEW a \in SubAccounts, NEW b \in SubAccounts,
         NEW bill \in Bills, NEW fee \in Nat, NEW tpToken \in Tokens \cup {NoToken},
         NEW p \in Prices
  PROVE  LET w == Pays(v, a, bill, fee, b, tpToken, p)
         IN  /\ Settled(v, w) /\ Spares(v, w, a)
             /\ fee = 0 => PaidUpTo(v, w, a, Len(HlpAssets))
<1> DEFINE x == IncreaseCollateral(v, a, bill.pnl, bill.funding, tpToken, p)
           w == DecreaseCollateral(x, a, bill, fee, b, p)
<1>1. /\ bill \in [pnl : Int, funding : Int, borrowing : Nat, trading : Nat]
      /\ p \in [Tokens -> Nat \ {0}]
  BY LedgerAssumption
<1>2. bill.pnl \in Int /\ bill.funding \in Int BY <1>1
<1>3. Pays(v, a, bill, fee, b, tpToken, p) = w BY DEF Pays
<1>4. Settled(v, x) /\ Enriches(v, x) BY <1>1, <1>2, IncreaseCollateralIs
<1> HIDE DEF x
<1>5. /\ Settled(x, w) /\ Spares(x, w, a)
      /\ fee = 0 => PaidUpTo(x, w, a, Len(HlpAssets))
  BY <1>1, <1>4, DecreaseCollateralIs DEF Settled
<1> HIDE DEF w
<1>6. Settled(v, w) /\ v \in Vaults /\ x \in Vaults /\ w \in Vaults
  BY <1>4, <1>5, SettledTwice DEF Settled, Good
<1>7. Spares(v, x, a)
  <2>1. \A c \in SubAccounts, u \in Tokens :
           v.traderBalances[c][u] \in Nat /\ x.traderBalances[c][u] \in Nat
    BY <1>6, EntriesNat
  <2> QED BY <1>4, <2>1 DEF Spares, Enriches
<1>8. Spares(v, w, a) BY <1>5, <1>6, <1>7, SparesTwice
<1>9. fee = 0 => PaidUpTo(v, w, a, Len(HlpAssets))
  <2>1. x.debt = v.debt BY <1>4 DEF Enriches
  <2> QED BY <1>5, <2>1 DEF PaidUpTo, InOrder
<1> QED BY <1>3, <1>6, <1>8, <1>9

(* A settlement is sound, whatever the position made or cost. *)
LEMMA SettleSound ==
  ASSUME Good(vault), Covered(vault), NEW a \in SubAccounts, NEW bill \in Bills,
         NEW tpToken \in Tokens \cup {NoToken}, NEW p \in Prices,
         Settle(a, bill, tpToken, p)
  PROVE  Correct(vault, vault')
<1>1. vault' = Pays(vault, a, bill, 0, a, tpToken, p) BY DEF Settle, Becomes
<1>2. /\ Settled(vault, vault') /\ Spares(vault, vault', a)
      /\ PaidUpTo(vault, vault', a, Len(HlpAssets))
  BY <1>1, PaysIs
<1>3. vault \in Vaults /\ vault' \in Vaults BY <1>2 DEF Settled, Good
<1>4. InOrder(vault, vault', a) BY <1>2 DEF PaidUpTo
<1>5. BrokeFirst(vault, vault', a)
  <2>1. DOMAIN HlpAssets = 1 .. Len(HlpAssets) BY TradeHelperAssumption
  <2>2. CASE \A i \in 1 .. Len(HlpAssets) : vault'.traderBalances[a][HlpAssets[i]] = 0
    BY <2>1, <2>2 DEF BrokeFirst
  <2>3. CASE Cleared(vault', a)
    <3>1. \A k \in DebtKinds : vault.debt[k][a] \in Nat BY <1>3 DEF Vaults
    <3>2. \A k \in DebtKinds : ~ (vault'.debt[k][a] > vault.debt[k][a])
      BY <2>3, <3>1 DEF Cleared
    <3> QED BY <3>2 DEF BrokeFirst
  <2> QED BY <1>2, <2>2, <2>3 DEF PaidUpTo
<1>6. Fair(vault, vault') BY <1>2, <1>3, <1>4, <1>5, FairToOne
<1> QED BY <1>2, <1>6, SettledSound DEF Correct

(* So is a liquidation, write-off included. *)
LEMMA LiquidateSound ==
  ASSUME Good(vault), Covered(vault), NEW a \in SubAccounts, NEW b \in SubAccounts,
         NEW bill \in Bills, NEW fee \in Nat, NEW p \in Prices,
         Liquidate(a, b, bill, fee, p)
  PROVE  Correct(vault, vault')
<1> DEFINE x == Pays(vault, a, bill, fee, b, NoToken, p)
<1>1. vault' = WriteOff(x, a) BY DEF Liquidate, Becomes
<1>2. Settled(vault, x) /\ Spares(vault, x, a) BY PaysIs DEF NoToken
<1> HIDE DEF x
<1>3. Settled(x, vault') /\ Spares(x, vault', a) /\ Cleared(vault', a)
  BY <1>1, <1>2, WriteOffIs DEF Settled
<1>4. Settled(vault, vault') BY <1>2, <1>3, SettledTwice
<1>5. vault \in Vaults /\ x \in Vaults /\ vault' \in Vaults
  BY <1>2, <1>3 DEF Settled, Good
<1>6. Spares(vault, vault', a) BY <1>2, <1>3, <1>5, SparesTwice
<1>7. InOrder(vault, vault', a) BY <1>3, ClearedInOrder
<1>8. BrokeFirst(vault, vault', a)
  <2>1. \A k \in DebtKinds : vault.debt[k][a] \in Nat BY <1>5 DEF Vaults
  <2>2. \A k \in DebtKinds : ~ (vault'.debt[k][a] > vault.debt[k][a])
    BY <1>3, <2>1 DEF Cleared
  <2> QED BY <2>2 DEF BrokeFirst
<1>9. Fair(vault, vault') BY <1>5, <1>6, <1>7, <1>8, FairToOne
<1> QED BY <1>4, <1>9, SettledSound DEF Correct

-----------------------------------------------------------------------------
(* Execution fees. *)

(* A vault and what is still due of an execution fee. *)
Dues == [v : Vaults, due : Nat]

(* A leg takes nothing from others and changes no debt; unless a is the      *)
(* treasury it takes his balance in t or pays all that is due.               *)
FeeTaken(s, z, a, t) ==
  /\ Spares(s.v, z.v, a) /\ z.v.debt = s.v.debt
  /\ s.due = 0 => z.due = 0
  /\ a # Treasury =>
        /\ \A u \in Tokens : z.v.traderBalances[a][u] <= s.v.traderBalances[a][u]
        /\ z.due = 0 \/ z.v.traderBalances[a][t] = 0

(* The legs of the first n tokens took what a had of them, or all the fee.   *)
TakenUpTo(s, z, a, tokens, n) ==
  /\ Spares(s.v, z.v, a) /\ z.v.debt = s.v.debt
  /\ a # Treasury =>
        /\ \A u \in Tokens : z.v.traderBalances[a][u] <= s.v.traderBalances[a][u]
        /\ z.due = 0 \/ \A i \in 1 .. n : z.v.traderBalances[a][tokens[i]] = 0

(* One token's part of an execution fee is a transfer to the treasury. *)
LEMMA GasLegIs ==
  ASSUME NEW v, NEW s \in Dues, Settled(v, s.v), NEW t \in Tokens,
         NEW a \in SubAccounts, NEW p \in [Tokens -> Nat \ {0}]
  PROVE  LET z == GasLeg(s, t, a, p)
         IN  z \in Dues /\ Settled(v, z.v) /\ FeeTaken(s, z, a, t)
<1> DEFINE balance == s.v.traderBalances[a][t]
           r == RepayAmount(balance, s.due, p[t])
           w == Transfer(s.v, t, a, Treasury, r.amount)
           z == [v |-> w, due |-> s.due - r.value]
<1>1. Good(s.v) /\ s.due \in Nat /\ balance \in Nat /\ Treasury \in SubAccounts
  BY EntriesNat, LedgerAssumption DEF Settled, Good, Dues
<1>2. GasLeg(s, t, a, p) = IF s.due > 0 /\ balance > 0 THEN z ELSE s
  BY DEF GasLeg
<1>3. /\ r.amount \in Nat /\ r.amount <= balance
      /\ r.value \in Nat /\ r.value <= s.due
      /\ r.amount = balance \/ r.value = s.due
  BY <1>1, RepayAmountIs
<1> HIDE DEF r
<1>4. /\ Settled(s.v, w) /\ w.debt = s.v.debt
      /\ a # Treasury => w.traderBalances[a][t] = balance - r.amount
      /\ \A c \in SubAccounts, u \in Tokens :
            c # a \/ u # t => s.v.traderBalances[c][u] <= w.traderBalances[c][u]
      /\ \A u \in Tokens :
            a # Treasury /\ u # t => w.traderBalances[a][u] = s.v.traderBalances[a][u]
  <2>1. Treasury \in SubAccounts /\ r.amount <= s.v.traderBalances[a][t] BY <1>1, <1>3
  <2>2. Settled(s.v, w) /\ w.debt = s.v.debt BY <1>1, <1>3, <2>1, TransferIs
  <2>3. a # Treasury => w.traderBalances[a][t] = balance - r.amount
    BY <1>1, <1>3, <2>1, TransferIs
  <2>4. \A c \in SubAccounts, u \in Tokens :
           c # a \/ u # t => s.v.traderBalances[c][u] <= w.traderBalances[c][u]
    BY <1>1, <1>3, <2>1, TransferIs
  <2>5. \A u \in Tokens :
           a # Treasury /\ u # t => w.traderBalances[a][u] = s.v.traderBalances[a][u]
    BY <1>1, <1>3, <2>1, TransferIs
  <2> QED BY <2>2, <2>3, <2>4, <2>5
<1> HIDE DEF w
<1>5. Settled(v, w) /\ w \in Vaults BY <1>4, SettledTwice DEF Settled, Good
<1>6. z \in Dues /\ z.v = w /\ z.due = s.due - r.value BY <1>1, <1>3, <1>5 DEF Dues
<1> HIDE DEF z
<1>7. s.v \in Vaults /\ \A c \in SubAccounts, u \in Tokens :
         s.v.traderBalances[c][u] \in Nat /\ w.traderBalances[c][u] \in Nat
  BY <1>1, <1>5, EntriesNat DEF Good
<1>8. FeeTaken(s, z, a, t)
  <2>1. Spares(s.v, w, a) BY <1>4, <1>7 DEF Spares
  <2>2. ASSUME a # Treasury
        PROVE  /\ \A u \in Tokens : w.traderBalances[a][u] <= s.v.traderBalances[a][u]
               /\ z.due = 0 \/ w.traderBalances[a][t] = 0
    <3>1. w.traderBalances[a][t] = balance - r.amount BY <1>4, <2>2
    <3>2. z.due = 0 \/ w.traderBalances[a][t] = 0 BY <1>1, <1>3, <1>6, <3>1
    <3>3. ASSUME NEW u \in Tokens PROVE w.traderBalances[a][u] <= s.v.traderBalances[a][u]
      <4>1. CASE u = t
        <5>1. balance - r.amount <= balance BY <1>1, <1>3
        <5> QED BY <3>1, <4>1, <5>1
      <4>2. CASE u # t BY <1>4, <1>7, <2>2, <4>2
      <4> QED BY <4>1, <4>2
    <3> QED BY <3>2, <3>3
  <2>3. s.due = 0 => z.due = 0 BY <1>1, <1>3, <1>6
  <2> QED BY <1>4, <1>6, <2>1, <2>2, <2>3 DEF FeeTaken
<1>9. CASE s.due > 0 /\ balance > 0
  BY <1>2, <1>5, <1>6, <1>8, <1>9
<1>10. CASE ~ (s.due > 0 /\ balance > 0)
  <2>1. GasLeg(s, t, a, p) = s BY <1>2, <1>10
  <2>2. Spares(s.v, s.v, a) BY <1>7, SparesAll
  <2>3. s.due = 0 \/ balance = 0 BY <1>1, <1>10
  <2>4. \A u \in Tokens : s.v.traderBalances[a][u] <= s.v.traderBalances[a][u] BY <1>7
  <2>5. FeeTaken(s, s, a, t) BY <2>2, <2>3, <2>4 DEF FeeTaken
  <2> QED BY <2>1, <2>5
<1> QED BY <1>9, <1>10

(* The leg of one more token. *)
LEMMA TakenOneMore ==
  ASSUME NEW s \in Dues, NEW x \in Dues, NEW z \in Dues, NEW a \in SubAccounts,
         NEW tokens \in Seq(Tokens), NEW n \in 1 .. Len(tokens),
         TakenUpTo(s, x, a, tokens, n - 1), FeeTaken(x, z, a, tokens[n])
  PROVE  TakenUpTo(s, z, a, tokens, n)
<1>1. /\ s.v \in Vaults /\ x.v \in Vaults /\ z.v \in Vaults
      /\ \A i \in 1 .. n : tokens[i] \in Tokens
  BY DEF Dues
<1>2. \A u \in Tokens :
         /\ s.v.traderBalances[a][u] \in Nat /\ x.v.traderBalances[a][u] \in Nat
         /\ z.v.traderBalances[a][u] \in Nat
  BY <1>1, EntriesNat
<1>3. Spares(s.v, z.v, a) /\ z.v.debt = s.v.debt
  BY <1>1, SparesTwice DEF TakenUpTo, FeeTaken
<1>4. ASSUME a # Treasury
      PROVE  /\ \A u \in Tokens : z.v.traderBalances[a][u] <= s.v.traderBalances[a][u]
             /\ z.due = 0 \/ \A i \in 1 .. n : z.v.traderBalances[a][tokens[i]] = 0
  <2>1. \A u \in Tokens :
           /\ z.v.traderBalances[a][u] <= x.v.traderBalances[a][u]
           /\ x.v.traderBalances[a][u] <= s.v.traderBalances[a][u]
    BY <1>4 DEF TakenUpTo, FeeTaken
  <2>2. \A u \in Tokens : z.v.traderBalances[a][u] <= s.v.traderBalances[a][u]
    BY <1>2, <2>1
  <2>3. CASE z.due = 0 BY <2>2, <2>3
  <2>4. CASE z.due # 0
    <3>1. z.v.traderBalances[a][tokens[n]] = 0 BY <1>4, <2>4 DEF FeeTaken
    <3>2. \A i \in 1 .. n - 1 : x.v.traderBalances[a][tokens[i]] = 0
      BY <1>4, <2>4 DEF TakenUpTo, FeeTaken
    <3>3. ASSUME NEW i \in 1 .. n PROVE z.v.traderBalances[a][tokens[i]] = 0
      <4>1. CASE i = n BY <3>1, <4>1
      <4>2. CASE i # n
        <5>1. i \in 1 .. n - 1 /\ tokens[i] \in Tokens BY <1>1, <4>2
        <5>2. x.v.traderBalances[a][tokens[i]] = 0 BY <3>2, <5>1
        <5> QED BY <1>2, <2>1, <5>1, <5>2
      <4> QED BY <4>1, <4>2
    <3> QED BY <2>2, <3>3
  <2> QED BY <2>3, <2>4
<1> QED BY <1>3, <1>4 DEF TakenUpTo

(* The loop over the tokens the trader had listed. *)
LEMMA GasLoop ==
  ASSUME NEW v, NEW start \in Dues, Settled(v, start.v), NEW tokens \in Seq(Tokens),
         NEW a \in SubAccounts, NEW p \in [Tokens -> Nat \ {0}]
  PROVE  LET Pay(s, t) == GasLeg(s, t, a, p)
             end == Through(tokens, Pay, start)
         IN  /\ end \in Dues /\ Settled(v, end.v)
             /\ TakenUpTo(start, end, a, tokens, Len(tokens))
<1> DEFINE S == {s \in Dues : Settled(v, s.v)}
           n == Len(tokens)
           Leg(s, i) == GasLeg(s, tokens[i], a, p)
           step == [x \in S \X (1 .. n) |-> Leg(x[1], x[2])]
           Body(g) == [i \in 0 .. n |-> IF i = 0 THEN start ELSE Leg(g[i - 1], i)]
           after == CHOOSE g : g = Body(g)
           Pay(s, t) == GasLeg(s, t, a, p)
           Upto(i, s) == TakenUpTo(start, s, a, tokens, i)
<1>1. n \in Nat /\ \A i \in 1 .. n : tokens[i] \in Tokens
  OBVIOUS
<1>2. start \in S /\ Upto(0, start)
  <2>1. start.v \in Vaults BY DEF Dues
  <2>2. Spares(start.v, start.v, a) BY <2>1, SparesAll
  <2>3. \A u \in Tokens : start.v.traderBalances[a][u] \in Nat BY <2>1, EntriesNat
  <2>4. \A u \in Tokens : start.v.traderBalances[a][u] <= start.v.traderBalances[a][u]
    BY <2>3
  <2>5. \A i \in 1 .. 0 : start.v.traderBalances[a][tokens[i]] = 0 OBVIOUS
  <2> QED BY <2>2, <2>4, <2>5 DEF TakenUpTo
<1>3. ASSUME NEW s \in S, NEW i \in 1 .. n
      PROVE  Leg(s, i) \in S /\ (Upto(i - 1, s) => Upto(i, Leg(s, i)))
  <2> DEFINE z == Leg(s, i)
  <2>1. z \in Dues /\ Settled(v, z.v) /\ FeeTaken(s, z, a, tokens[i])
    BY <1>1, GasLegIs
  <2> HIDE DEF z
  <2>2. Upto(i - 1, s) => Upto(i, z) BY <2>1, TakenOneMore
  <2>3. z \in S BY <2>1
  <2> QED BY <2>2, <2>3 DEF z
<1>4. Through(tokens, Pay, start) = after[n]
  BY DEF Through
<1> HIDE DEF S, n, Leg, Upto
<1>5. step \in [S \X (1 .. n) -> S]
  BY <1>3
<1>6. PICK f \in [0 .. n -> S] : IsRun(f, n, start, step)
  <2> HIDE DEF step
  <2> QED BY <1>1, <1>2, <1>5, RunExists
<1>7. f = Body(f)
  <2>1. f = [i \in 0 .. n |-> IF i = 0 THEN start ELSE step[<<f[i - 1], i>>]]
    BY <1>6 DEF IsRun
  <2>2. ASSUME NEW i \in 0 .. n, i # 0
        PROVE  step[<<f[i - 1], i>>] = Leg(f[i - 1], i)
    <3>1. <<f[i - 1], i>> \in S \X (1 .. n) BY <1>1, <2>2
    <3> QED BY <3>1
  <2> HIDE DEF step
  <2> QED BY <2>1, <2>2
<1>8. after = Body(after)
  <2> HIDE DEF Body
  <2> QED BY <1>7
<1> HIDE DEF after
<1>9. after[n] \in S /\ Upto(n, after[n])
  <2> DEFINE T == {x \in (0 .. n) \X S : Upto(x[1], x[2])}
             h == [i \in 0 .. n |-> <<i, after[i]>>]
  <2>1. h[0] \in T
    <3>1. after[0] = start BY <1>1, <1>8
    <3> QED BY <1>1, <1>2, <3>1
  <2>2. ASSUME NEW i \in 1 .. n, h[i - 1] \in T PROVE h[i] \in T
    <3>1. i - 1 \in 0 .. n /\ i \in 0 .. n BY <1>1
    <3>2. after[i - 1] \in S /\ Upto(i - 1, after[i - 1]) BY <2>2, <3>1
    <3>3. after[i] = Leg(after[i - 1], i) BY <1>1, <1>8
    <3> QED BY <1>3, <3>1, <3>2, <3>3
  <2> HIDE DEF T, h
  <2>3. h[n] \in T BY <1>1, <2>1, <2>2, RunInvariant
  <2> QED BY <1>1, <2>3 DEF T, h
<1> QED BY <1>4, <1>9 DEF S, n, Upto

(* Collecting an execution fee is sound; the rest of it is booked as debt. *)
LEMMA CollectSound ==
  ASSUME Good(vault), Covered(vault), NEW a \in SubAccounts, NEW fee \in Nat,
         NEW p \in Prices, CollectExecutionFee(a, fee, p)
  PROVE  Correct(vault, vault')
<1> DEFINE Pay(s, t) == GasLeg(s, t, a, p)
           start == [v |-> vault, due |-> fee]
           end == Through(vault.traderTokens[a], Pay, start)
<1>1. vault' = AddDebt(end.v, "tradingFee", a, end.due)
  BY DEF CollectExecutionFee, Becomes
<1>2. /\ p \in [Tokens -> Nat \ {0}] /\ vault.traderTokens[a] \in Seq(Tokens)
      /\ "tradingFee" \in DebtKinds
  BY LedgerAssumption DEF Good, Vaults, DebtKinds
<1>3. start \in Dues /\ start.v = vault /\ vault \in Vaults /\ Settled(vault, vault)
  BY DEF Dues, Good, Settled, SameTokens
<1> HIDE DEF start
<1>4. /\ end \in Dues /\ Settled(vault, end.v)
      /\ TakenUpTo(start, end, a, vault.traderTokens[a], Len(vault.traderTokens[a]))
  BY <1>2, <1>3, GasLoop
<1> HIDE DEF end
<1>5. end.due \in Nat /\ Good(end.v) /\ end.v \in Vaults BY <1>4 DEF Dues, Settled
<1>6. Settled(end.v, vault') /\ DebtMoved(end.v, vault', "tradingFee", a, end.due)
  BY <1>1, <1>2, <1>5, AddDebtIs
<1>7. Settled(vault, vault') /\ vault' \in Vaults
  BY <1>4, <1>6, SettledTwice DEF Settled, Good
<1>8. end.v.debt = vault.debt /\ Spares(vault, end.v, a) BY <1>3, <1>4 DEF TakenUpTo
<1>9. Spares(vault, vault', a)
  <2>1. Spares(end.v, vault', a) BY <1>2, <1>5, <1>6, <1>7, DebtSpares
  <2> QED BY <1>3, <1>5, <1>7, <1>8, <2>1, SparesTwice
<1>10. \A k \in DebtKinds :
          /\ vault.debt[k][a] \in Nat
          /\ vault'.debt[k][a] = vault.debt[k][a] + (IF k = "tradingFee" THEN end.due ELSE 0)
  <2> TAKE k \in DebtKinds
  <2>1. vault.debt[k][a] \in Nat BY <1>3 DEF Vaults
  <2>2. CASE k = "tradingFee" BY <1>6, <1>8, <2>1, <2>2 DEF DebtMoved
  <2>3. CASE k # "tradingFee"
    <3>1. vault'.debt[k][a] = vault.debt[k][a] BY <1>6, <1>8, <2>3 DEF DebtMoved
    <3> QED BY <2>1, <2>3, <3>1
  <2> QED BY <2>2, <2>3
<1>11. InOrder(vault, vault', a)
  <2>1. \A k \in DebtKinds : vault.debt[k][a] <= vault'.debt[k][a] BY <1>5, <1>10
  <2> QED BY <1>3, <1>7, <2>1, RisingInOrder
<1>12. ASSUME a # Treasury PROVE BrokeFirst(vault, vault', a)
  <2> SUFFICES ASSUME NEW k \in DebtKinds, vault'.debt[k][a] > vault.debt[k][a],
                      NEW i \in DOMAIN HlpAssets
               PROVE  vault'.traderBalances[a][HlpAssets[i]] = 0
    BY DEF BrokeFirst
  <2> DEFINE t == HlpAssets[i]
             list == vault.traderTokens[a]
  <2>1. t \in Tokens BY TradeHelperAssumption
  <2>2. end.due # 0 BY <1>10
  <2>3. /\ end.v.traderBalances[a][t] <= vault.traderBalances[a][t]
        /\ \A j \in 1 .. Len(list) : end.v.traderBalances[a][list[j]] = 0
    BY <1>3, <1>4, <1>12, <2>1, <2>2 DEF TakenUpTo
  <2>4. vault.traderBalances[a][t] \in Nat /\ end.v.traderBalances[a][t] \in Nat
    BY <1>3, <1>5, <2>1, EntriesNat
  <2>5. DOMAIN list = 1 .. Len(list) BY <1>2
  <2> HIDE DEF t, list
  <2>6. end.v.traderBalances[a][t] = 0
    <3>1. CASE Listed(list, t)
      <4>1. PICK j \in DOMAIN list : list[j] = t BY <3>1 DEF Listed
      <4> QED BY <2>3, <2>5, <4>1
    <3>2. CASE ~ Listed(list, t)
      <4>1. vault.traderBalances[a][t] = 0
        BY <2>1, <2>4, <3>2 DEF Good, ListedExactly, list
      <4> QED BY <2>3, <2>4, <4>1
    <3> QED BY <3>1, <3>2
  <2>7. vault'.traderBalances = end.v.traderBalances BY <1>6 DEF DebtMoved
  <2> QED BY <2>6, <2>7 DEF t
<1>13. Fair(vault, vault') BY <1>3, <1>7, <1>9, <1>11, <1>12, FairToOne
<1> QED BY <1>7, <1>13, SettledSound DEF Correct

-----------------------------------------------------------------------------
(* The fee reserve. *)

(* No claim more or less is a settlement. *)
LEMMA ClaimsNone ==
  ASSUME NEW v, Good(v), NEW w, NEW t \in Tokens, Claims(v, w, t, 0)
  PROVE  Settled(v, w) /\ SameBooks(v, w)
<1>1. \A u \in Tokens : Owed(v, u) \in Nat BY OwedNat DEF Good
<1> QED BY <1>1 DEF Claims, Settled, OwesMore

(* Reserve and pool exchange one token for another without a claim more.     *)
LEMMA ConvertIs ==
  ASSUME NEW v, Good(v), NEW t \in Tokens, NEW stable \in Tokens, t # stable,
         NEW m \in Nat, NEW n \in Nat, CanConvert(v, t, stable, m, n)
  PROVE  LET z == ConvertFundingFeeReserveWithHLP(v, t, stable, m, n)
         IN  Settled(v, z) /\ SameBooks(v, z)
<1> DEFINE y == Gains(v, t, m, 0, 0, 0 - m, 0)
           w == Gains(y, stable, 0 - n, 0, 0, n, 0)
           h == [v.hlpLiquidity EXCEPT ![t] = @ + m, ![stable] = @ - n]
           r == [v.fundingFeeReserve EXCEPT ![t] = @ - m, ![stable] = @ + n]
<1>1. v \in Vaults BY DEF Good
<1>2. /\ v.hlpLiquidity \in PerToken /\ v.fundingFeeReserve \in PerToken
  BY <1>1 DEF Vaults
<1>3. m <= v.fundingFeeReserve[t] /\ n <= v.hlpLiquidity[stable] BY DEF CanConvert
<1>4. ASSUME NEW u \in Tokens
      PROVE  /\ v.hlpLiquidity[u] \in Nat /\ v.protocolFees[u] \in Nat
             /\ v.devFees[u] \in Nat /\ v.fundingFeeReserve[u] \in Nat
  BY <1>1, EntriesNat
<1>5. Claims(v, y, t, 0)
  <2>1. /\ v.hlpLiquidity[t] + m >= 0 /\ v.protocolFees[t] + 0 >= 0
        /\ v.devFees[t] + 0 >= 0 /\ v.fundingFeeReserve[t] + (0 - m) >= 0
        /\ 0 - m \in Int /\ 0 = m + 0 + 0 + (0 - m)
    BY <1>3, <1>4
  <2> QED BY <2>1, OneGain
<1>6. /\ y.hlpLiquidity = Plus(v.hlpLiquidity, t, m)
      /\ y.fundingFeeReserve = Plus(v.fundingFeeReserve, t, 0 - m)
      /\ y.protocolFees = v.protocolFees /\ y.devFees = v.devFees
      /\ y.hlpLiquidityDebt = v.hlpLiquidityDebt
      /\ y = Filled(v, Plus(v.hlpLiquidity, t, m), v.protocolFees, v.devFees,
                    Plus(v.fundingFeeReserve, t, 0 - m), v.hlpLiquidityDebt)
  <2>1. y = Filled(v, Plus(v.hlpLiquidity, t, m), v.protocolFees, v.devFees,
                   Plus(v.fundingFeeReserve, t, 0 - m), v.hlpLiquidityDebt)
    BY <1>1, NoGain DEF Gains
  <2> HIDE DEF y
  <2> QED BY <1>1, <2>1 DEF Filled, Vaults
<1> HIDE DEF y
<1>7. /\ y \in Vaults /\ Good(y) BY <1>5 DEF Claims, Good
<1>8. Claims(y, w, stable, 0)
  <2>1. /\ y.hlpLiquidity[stable] = v.hlpLiquidity[stable]
        /\ y.fundingFeeReserve[stable] = v.fundingFeeReserve[stable]
    BY <1>2, <1>6 DEF Plus, PerToken
  <2>2. /\ y.hlpLiquidity[stable] + (0 - n) >= 0 /\ y.protocolFees[stable] + 0 >= 0
        /\ y.devFees[stable] + 0 >= 0 /\ y.fundingFeeReserve[stable] + n >= 0
        /\ 0 - n \in Int /\ 0 = (0 - n) + 0 + 0 + n
    <3>1. /\ v.hlpLiquidity[stable] \in Nat /\ v.protocolFees[stable] \in Nat
          /\ v.devFees[stable] \in Nat /\ v.fundingFeeReserve[stable] \in Nat
      BY <1>4
    <3>2. y.protocolFees[stable] = v.protocolFees[stable]
          /\ y.devFees[stable] = v.devFees[stable]
      BY <1>6
    <3> QED BY <1>3, <2>1, <3>1, <3>2
  <2> QED BY <1>7, <2>2, OneGain
<1>9. ConvertFundingFeeReserveWithHLP(v, t, stable, m, n) = w
  <2>1. /\ h = Plus(y.hlpLiquidity, stable, 0 - n)
        /\ r = Plus(y.fundingFeeReserve, stable, n)
    BY <1>2, <1>6 DEF Plus, PerToken
  <2>2. ConvertFundingFeeReserveWithHLP(v, t, stable, m, n)
          = Filled(v, h, v.protocolFees, v.devFees, r, v.hlpLiquidityDebt)
    BY <1>1, <1>2 DEF ConvertFundingFeeReserveWithHLP, Filled, Vaults, PerToken
  <2> HIDE DEF h, r
  <2>3. w = Filled(y, h, v.protocolFees, v.devFees, r, v.hlpLiquidityDebt)
    BY <1>6, <1>7, <2>1, NoGain DEF Gains
  <2> HIDE DEF w
  <2>4. Filled(y, h, v.protocolFees, v.devFees, r, v.hlpLiquidityDebt)
          = Filled(v, h, v.protocolFees, v.devFees, r, v.hlpLiquidityDebt)
    BY <1>1, <1>6 DEF Filled, Vaults
  <2> QED BY <2>2, <2>3, <2>4
<1> HIDE DEF w
<1>10. /\ Settled(v, y) /\ SameBooks(v, y)
       /\ Settled(y, w) /\ SameBooks(y, w)
  BY <1>5, <1>7, <1>8, ClaimsNone
<1>11. Settled(v, w) /\ SameBooks(v, w) BY <1>10, SettledTwice, BooksTwice
<1> QED BY <1>9, <1>11

(* A vault and whether the pool could pay for every round so far. *)
Rounds == [v : Vaults, enough : BOOLEAN]

(* One round of the conversion. *)
LEMMA ConvertTokenIs ==
  ASSUME NEW v, NEW s \in Rounds, Settled(v, s.v), SameBooks(v, s.v), NEW t \in Tokens,
         NEW stable \in Tokens, NEW p \in [Tokens -> Nat \ {0}]
  PROVE  LET c == ConvertToken(s, t, stable, p)
         IN  c \in Rounds /\ Settled(v, c.v) /\ SameBooks(v, c.v)
<1> DEFINE m == s.v.fundingFeeReserve[t]
           n == Converted(m, t, stable, p)
           w == ConvertFundingFeeReserveWithHLP(s.v, t, stable, m, n)
           z == [s EXCEPT !.v = w]
           broke == [s EXCEPT !.enough = FALSE]
<1>1. Good(s.v) /\ m \in Nat BY EntriesNat DEF Settled, Good
<1>2. ConvertToken(s, t, stable, p) =
        IF t = stable \/ m = 0 THEN s
        ELSE IF CanConvert(s.v, t, stable, m, n) THEN z ELSE broke
  BY DEF ConvertToken
<1> HIDE DEF m
<1>3. n \in Nat
  <2>1. /\ p[t] \in Nat \ {0} /\ p[stable] \in Nat \ {0} /\ Unit \in Nat \ {0}
    BY TradeHelperAssumption
  <2>2. m * p[t] \in Nat BY <1>1, <2>1
  <2>3. m * p[t] * Unit \in Nat BY <2>1, <2>2
  <2>4. p[stable] * Unit \in Nat \ {0} BY <2>1
  <2> QED BY <2>3, <2>4, DivIs DEF Converted
<1> HIDE DEF n
<1>4. broke \in Rounds /\ broke.v = s.v BY DEF Rounds
<1>5. CASE t # stable /\ CanConvert(s.v, t, stable, m, n)
  <2>1. Settled(s.v, w) /\ SameBooks(s.v, w) BY <1>1, <1>3, <1>5, ConvertIs
  <2> HIDE DEF w
  <2>2. Settled(v, w) /\ SameBooks(v, w) /\ w \in Vaults
    BY <2>1, SettledTwice, BooksTwice DEF Settled, Good
  <2>3. z \in Rounds /\ z.v = w BY <2>2 DEF Rounds
  <2> HIDE DEF z, broke
  <2> QED BY <1>2, <1>5, <2>2, <2>3
<1>6. CASE ~ (t # stable /\ CanConvert(s.v, t, stable, m, n))
  <2> HIDE DEF z, broke
  <2> QED BY <1>2, <1>4, <1>6
<1> QED BY <1>5, <1>6

(* The loop over the collateral tokens. *)
LEMMA ConvertLoop ==
  ASSUME NEW v, NEW start \in Rounds, Settled(v, start.v), SameBooks(v, start.v), NEW stable \in Tokens,
         NEW p \in [Tokens -> Nat \ {0}]
  PROVE  LET Convert(s, t) == ConvertToken(s, t, stable, p)
             end == Through(CollateralTokens, Convert, start)
         IN  Settled(v, end.v) /\ SameBooks(v, end.v)
<1> DEFINE S == {s \in Rounds : Settled(v, s.v) /\ SameBooks(v, s.v)}
           n == Len(CollateralTokens)
           Leg(s, i) == ConvertToken(s, CollateralTokens[i], stable, p)
           step == [x \in S \X (1 .. n) |-> Leg(x[1], x[2])]
           Body(g) == [i \in 0 .. n |-> IF i = 0 THEN start ELSE Leg(g[i - 1], i)]
           after == CHOOSE g : g = Body(g)
           Convert(s, t) == ConvertToken(s, t, stable, p)
<1>1. n \in Nat /\ \A i \in 1 .. n : CollateralTokens[i] \in Tokens
  BY LedgerAssumption
<1>2. start \in S OBVIOUS
<1>3. \A s \in S, i \in 1 .. n : Leg(s, i) \in S
  BY <1>1, ConvertTokenIs
<1>4. Through(CollateralTokens, Convert, start) = after[n]
  BY DEF Through
<1> HIDE DEF S, n, Leg
<1>5. step \in [S \X (1 .. n) -> S]
  BY <1>3
<1>6. PICK f \in [0 .. n -> S] : IsRun(f, n, start, step)
  <2> HIDE DEF step
  <2> QED BY <1>1, <1>2, <1>5, RunExists
<1>7. f = Body(f)
  <2>1. f = [i \in 0 .. n |-> IF i = 0 THEN start ELSE step[<<f[i - 1], i>>]]
    BY <1>6 DEF IsRun
  <2>2. ASSUME NEW i \in 0 .. n, i # 0
        PROVE  step[<<f[i - 1], i>>] = Leg(f[i - 1], i)
    <3>1. <<f[i - 1], i>> \in S \X (1 .. n) BY <1>1, <2>2
    <3> QED BY <3>1
  <2> HIDE DEF step
  <2> QED BY <2>1, <2>2
<1>8. after = Body(after)
  <2> HIDE DEF Body
  <2> QED BY <1>7
<1> HIDE DEF after
<1>9. after[n] \in S
  <2>1. after[0] \in S BY <1>1, <1>2, <1>8
  <2>2. \A i \in 1 .. n : after[i - 1] \in S => after[i] \in S
    BY <1>1, <1>3, <1>8
  <2> HIDE DEF Body
  <2> QED BY <1>1, <2>1, <2>2, RunInvariant
<1> QED BY <1>4, <1>9 DEF S

(* Converting the reserve is sound, over any list of tokens. *)
LEMMA ConvertSound ==
  ASSUME Good(vault), Covered(vault), NEW stable \in Tokens, NEW p \in Prices,
         ConvertFundingFeeReserve(stable, p)
  PROVE  Correct(vault, vault')
<1> DEFINE Convert(s, t) == ConvertToken(s, t, stable, p)
           start == [v |-> vault, enough |-> TRUE]
           end == Through(CollateralTokens, Convert, start)
<1>1. vault' = end.v BY DEF ConvertFundingFeeReserve, Becomes
<1>2. p \in [Tokens -> Nat \ {0}] BY LedgerAssumption
<1>3. /\ start \in Rounds /\ start.v = vault /\ Settled(vault, vault)
      /\ SameBooks(vault, vault)
  BY DEF Rounds, Good, Settled, SameTokens, SameBooks
<1> HIDE DEF start
<1>4. Settled(vault, end.v) /\ SameBooks(vault, end.v) BY <1>2, <1>3, ConvertLoop
<1> HIDE DEF end
<1> QED BY <1>1, <1>4, SettledSound, FairWithSameBooks DEF Correct, Settled

(* The surplus that joins the pool leaves the reserve.                       *)
LEMMA SurplusSound ==
  ASSUME Good(vault), Covered(vault), NEW t \in Tokens, NEW bookValue \in Nat,
         NEW p \in Prices, WithdrawFundingFeeSurplus(t, bookValue, p)
  PROVE  Correct(vault, vault')
<1> DEFINE reserve == vault.fundingFeeReserve[t]
           value == (reserve * p[t]) \div Unit
           n == RepayAmount(reserve, value - bookValue, p[t]).amount
           h == [vault.hlpLiquidity EXCEPT ![t] = @ + n]
           r == [vault.fundingFeeReserve EXCEPT ![t] = @ - n]
<1>1. vault' = WithdrawSurplusToHLP(vault, t, n) /\ bookValue <= value
  BY DEF WithdrawFundingFeeSurplus, Becomes
<1>2. vault \in Vaults /\ p[t] \in Nat \ {0} /\ Unit \in Nat \ {0}
  BY LedgerAssumption, TradeHelperAssumption DEF Good
<1>3. /\ reserve \in Nat /\ vault.hlpLiquidity[t] \in Nat /\ vault.protocolFees[t] \in Nat
      /\ vault.devFees[t] \in Nat /\ vault.hlpLiquidity \in PerToken
      /\ vault.fundingFeeReserve \in PerToken
  BY <1>2, EntriesNat DEF Vaults
<1>4. value - bookValue \in Nat
  <2> HIDE DEF reserve
  <2>1. reserve * p[t] \in Nat BY <1>2, <1>3
  <2>2. value \in Nat BY <1>2, <2>1, DivIs
  <2> HIDE DEF value
  <2> QED BY <1>1, <2>2
<1> HIDE DEF value
<1>5. n \in Nat /\ n <= reserve BY <1>2, <1>3, <1>4, RepayAmountIs
<1> HIDE DEF n
<1>6. vault' = Gains(vault, t, n, 0, 0, 0 - n, 0)
  <2>1. vault' = Filled(vault, h, vault.protocolFees, vault.devFees, r, vault.hlpLiquidityDebt)
    BY <1>1, <1>2 DEF WithdrawSurplusToHLP, Filled, Vaults
  <2>2. /\ h = Plus(vault.hlpLiquidity, t, n)
        /\ r = Plus(vault.fundingFeeReserve, t, 0 - n)
    BY <1>3, <1>5 DEF Plus, PerToken
  <2> HIDE DEF h, r
  <2> QED BY <1>2, <2>1, <2>2, NoGain DEF Gains
<1>7. /\ vault.hlpLiquidity[t] + n >= 0 /\ vault.protocolFees[t] + 0 >= 0
      /\ vault.devFees[t] + 0 >= 0 /\ vault.fundingFeeReserve[t] + (0 - n) >= 0
      /\ 0 - n \in Int /\ 0 = n + 0 + 0 + (0 - n)
  BY <1>3, <1>5
<1>8. Claims(vault, vault', t, 0) BY <1>5, <1>6, <1>7, OneGain
<1>9. Settled(vault, vault') /\ SameBooks(vault, vault') BY <1>8, ClaimsNone
<1> QED BY <1>9, SettledSound, FairWithSameBooks DEF Correct, Settled

-----------------------------------------------------------------------------
(* The theorems. *)

(* The inductive invariant.  That no field underflows cannot be shown alone: *)
(* pullToken and pushToken need the books covered, the global debts need the *)
(* sums, and the token lists need each other's exactness.                    *)
LedgerInv == Good(vault) /\ Covered(vault)

(* The vault is created empty: it owes nothing and lists nothing.            *)
LEMMA InitInv ==
  ASSUME VaultInit
  PROVE  LedgerInv /\ \A t \in Tokens : Owed(vault, t) = 0
<1> DEFINE none == [a \in SubAccounts |-> 0]
<1>1. vault = EmptyVault BY DEF VaultInit
<1>2. SumOver(SubAccounts, none) = 0 BY SumZero, VaultAssumption
<1>3. Zero \in PerToken BY DEF Zero, PerToken
<1>4. vault \in Vaults
  <2>1. << >> \in Seq(Tokens) OBVIOUS
  <2> QED BY <1>1, <1>3, <2>1 DEF EmptyVault, Vaults
<1>5. \A t \in Tokens : Zero[t] = 0 BY DEF Zero
<1>6. DebtsAddUp(vault)
  <2>1. \A k \in DebtKinds : vault.debt[k] = none /\ vault.globalDebt[k] = 0
    BY <1>1 DEF EmptyVault
  <2> HIDE DEF none
  <2> QED BY <1>2, <2>1 DEF DebtsAddUp
<1>7. ListedExactly(vault)
  <2>1. \A a \in SubAccounts : vault.traderTokens[a] = << >> /\ vault.traderBalances[a] = Zero
    BY <1>1 DEF EmptyVault
  <2>2. DOMAIN << >> = {} OBVIOUS
  <2> QED BY <1>5, <2>1, <2>2 DEF ListedExactly, Listed
<1>8. ASSUME NEW t \in Tokens
      PROVE  /\ Owed(vault, t) = 0 /\ vault.hlpLiquidityOnHold[t] = 0
             /\ vault.totalAmount[t] = 0 /\ vault.balanceOf[t] = 0
  <2>1. Collateral(vault, t) = SumOver(SubAccounts, none)
    <3>1. [a \in SubAccounts |-> vault.traderBalances[a][t]] = none
      BY <1>1, <1>5 DEF EmptyVault
    <3> HIDE DEF none
    <3> QED BY <3>1 DEF Collateral
  <2>2. /\ vault.hlpLiquidity[t] = 0 /\ vault.protocolFees[t] = 0 /\ vault.devFees[t] = 0
        /\ vault.fundingFeeReserve[t] = 0 /\ vault.hlpLiquidityOnHold[t] = 0
        /\ vault.totalAmount[t] = 0 /\ vault.balanceOf[t] = 0
    BY <1>1, <1>5 DEF EmptyVault
  <2> HIDE DEF none
  <2> QED BY <1>2, <2>1, <2>2 DEF Owed
<1>9. Covered(vault)
  <2> SUFFICES ASSUME NEW t \in Tokens
               PROVE  /\ Owed(vault, t) + vault.hlpLiquidityOnHold[t] <= vault.totalAmount[t]
                      /\ vault.totalAmount[t]
                           <= vault.balanceOf[t] + vault.hlpLiquidityOnHold[t]
    BY DEF Covered
  <2> QED BY <1>8
<1> QED BY <1>4, <1>6, <1>7, <1>8, <1>9 DEF LedgerInv, Good

(* Every transaction from a good and covered vault is sound.                 *)
LEMMA StepSound ==
  ASSUME LedgerInv, LedgerNext
  PROVE  Correct(vault, vault')
<1>1. Good(vault) /\ Covered(vault) BY DEF LedgerInv
<1>2. \A amount \in Amounts : amount \in Nat BY LedgerAssumption DEF Amounts
<1>3. \A fee \in Values : fee \in Nat BY LedgerAssumption
<1>4. \A out \in 0 .. MaxBalance : out \in Nat BY LedgerAssumption
<1>5. CASE CollateralStep
  <2>1. PICK a \in SubAccounts, t \in Tokens, amount \in Amounts :
          \/ DepositCollateral(a, t, amount)
          \/ WithdrawCollateral(a, t, amount)
          \/ \E b \in SubAccounts : TransferCollateral(a, b, t, amount)
          \/ \E u \in Tokens, out \in 0 .. MaxBalance : SwitchCollateral(a, t, u, amount, out)
    BY <1>5 DEF CollateralStep
  <2>2. amount \in Nat BY <1>2
  <2>3. CASE DepositCollateral(a, t, amount) BY <1>1, <2>2, <2>3, DepositSound
  <2>4. CASE WithdrawCollateral(a, t, amount) BY <1>1, <2>2, <2>4, WithdrawSound
  <2>5. CASE \E b \in SubAccounts : TransferCollateral(a, b, t, amount)
    BY <1>1, <2>2, <2>5, TransferSound
  <2>6. CASE \E u \in Tokens, out \in 0 .. MaxBalance : SwitchCollateral(a, t, u, amount, out)
    BY <1>1, <1>4, <2>2, <2>6, SwitchSound
  <2> QED BY <2>1, <2>3, <2>4, <2>5, <2>6
<1>6. CASE PoolStep
  <2>1. PICK t \in Tokens :
          \/ Vest(t)
          \/ \E amount \in Amounts :
                \/ Donate(t, amount)
                \/ Feed(t, amount)
                \/ \E rate \in LpFeeBPS :
                      AddLiquidity(t, amount, rate) \/ RemoveLiquidity(t, amount, rate)
    BY <1>6 DEF PoolStep
  <2>2. CASE Vest(t) BY <1>1, <2>2, VestSound
  <2>3. ASSUME NEW amount \in Amounts, Donate(t, amount) PROVE Correct(vault, vault')
    BY <1>1, <1>2, <2>3, DonateSound
  <2>4. ASSUME NEW amount \in Amounts, Feed(t, amount) PROVE Correct(vault, vault')
    BY <1>1, <1>2, <2>4, FeedSound
  <2>5. ASSUME NEW amount \in Amounts, NEW rate \in LpFeeBPS, AddLiquidity(t, amount, rate)
        PROVE  Correct(vault, vault')
    BY <1>1, <1>2, <2>5, AddLiquiditySound
  <2>6. ASSUME NEW amount \in Amounts, NEW rate \in LpFeeBPS, RemoveLiquidity(t, amount, rate)
        PROVE  Correct(vault, vault')
    BY <1>1, <1>2, <2>6, RemoveLiquiditySound
  <2> QED BY <2>1, <2>2, <2>3, <2>4, <2>5, <2>6
<1>7. CASE SettlementStep
  <2>1. PICK a \in SubAccounts, p \in Prices :
          \/ \E bill \in Bills :
                \/ \E tpToken \in Tokens \cup {NoToken} : Settle(a, bill, tpToken, p)
                \/ \E b \in SubAccounts, fee \in Values : Liquidate(a, b, bill, fee, p)
          \/ \E fee \in Values : CollectExecutionFee(a, fee, p)
    BY <1>7 DEF SettlementStep
  <2>2. ASSUME NEW bill \in Bills, NEW tpToken \in Tokens \cup {NoToken},
               Settle(a, bill, tpToken, p)
        PROVE  Correct(vault, vault')
    BY <1>1, <2>2, SettleSound
  <2>3. ASSUME NEW bill \in Bills, NEW b \in SubAccounts, NEW fee \in Values,
               Liquidate(a, b, bill, fee, p)
        PROVE  Correct(vault, vault')
    BY <1>1, <1>3, <2>3, LiquidateSound
  <2>4. ASSUME NEW fee \in Values, CollectExecutionFee(a, fee, p)
        PROVE  Correct(vault, vault')
    BY <1>1, <1>3, <2>4, CollectSound
  <2> QED BY <2>1, <2>2, <2>3, <2>4
<1>8. CASE FeeStep
  <2>1. PICK t \in Tokens :
          \/ \E amount \in Amounts :
                \/ TakeFee(t, amount)
                \/ TakeDevFee(t, amount)
                \/ InjectTokenToHlpLiquidity(t, amount)
                \/ InjectTokenToFundingFeeReserve(t, amount)
          \/ \E p \in Prices :
                \/ ConvertFundingFeeReserve(t, p)
                \/ \E value \in Values : WithdrawFundingFeeSurplus(t, value, p)
    BY <1>8 DEF FeeStep
  <2>2. ASSUME NEW amount \in Amounts, TakeFee(t, amount) PROVE Correct(vault, vault')
    BY <1>1, <1>2, <2>2, TakeFeeSound
  <2>3. ASSUME NEW amount \in Amounts, TakeDevFee(t, amount) PROVE Correct(vault, vault')
    BY <1>1, <1>2, <2>3, TakeDevFeeSound
  <2>4. ASSUME NEW amount \in Amounts,
               InjectTokenToHlpLiquidity(t, amount) \/ InjectTokenToFundingFeeReserve(t, amount)
        PROVE  Correct(vault, vault')
    BY <1>1, <1>2, <2>4, InjectSound
  <2>5. ASSUME NEW p \in Prices, ConvertFundingFeeReserve(t, p) PROVE Correct(vault, vault')
    BY <1>1, <2>5, ConvertSound
  <2>6. ASSUME NEW p \in Prices, NEW value \in Values, WithdrawFundingFeeSurplus(t, value, p)
        PROVE  Correct(vault, vault')
    BY <1>1, <1>3, <2>6, SurplusSound
  <2> QED BY <2>1, <2>2, <2>3, <2>4, <2>5, <2>6
<1> QED BY <1>5, <1>6, <1>7, <1>8 DEF LedgerNext

(* The invariant is inductive. *)
THEOREM Invariance == LedgerSpec => []LedgerInv
<1>1. VaultInit => LedgerInv BY InitInv
<1>2. LedgerInv /\ [LedgerNext]_vault => LedgerInv'
  <2> SUFFICES ASSUME LedgerInv, [LedgerNext]_vault PROVE LedgerInv'
    OBVIOUS
  <2>1. CASE LedgerNext BY <2>1, StepSound DEF Correct, Sound, LedgerInv
  <2>2. CASE UNCHANGED vault BY <2>2 DEF LedgerInv
  <2> QED BY <2>1, <2>2
<1> QED BY <1>1, <1>2, PTL DEF LedgerSpec

(* No subtraction in the vault's books ever underflows, whatever the order   *)
(* of transactions, the prices and the fees.                                 *)
THEOREM TypeCorrect == LedgerSpec => []TypeOK
<1>1. LedgerInv => TypeOK BY DEF LedgerInv, Good, TypeOK
<1> QED BY <1>1, Invariance, PTL

(* The vault always holds what its books say it owes. *)
THEOREM Solvent == LedgerSpec => []BooksCovered
<1>1. LedgerInv => BooksCovered BY DEF LedgerInv, BooksCovered
<1> QED BY <1>1, Invariance, PTL

(* The list a trader's collateral is valued by is always exact.              *)
THEOREM ListsExact == LedgerSpec => []TokensListed
<1>1. LedgerInv => TokensListed BY DEF LedgerInv, Good, TokensListed
<1> QED BY <1>1, Invariance, PTL

(* The global debts are always the sums of the traders'.                     *)
THEOREM DebtsExact == LedgerSpec => []DebtsAgree
<1>1. LedgerInv => DebtsAgree BY DEF LedgerInv, Good, DebtsAgree
<1> QED BY <1>1, Invariance, PTL

(* The ledger implements Custody: every transaction takes tokens in, hands   *)
(* out what was owed, or settles between claimants, token by token.          *)
THEOREM Refinement == LedgerSpec => KeepsCustody
<1>1. VaultInit => Abstract!CustodyInit
  <2> SUFFICES ASSUME VaultInit PROVE Abstract!CustodyInit
    OBVIOUS
  <2>1. \A t \in Tokens : Owed(vault, t) = 0 BY InitInv
  <2>2. vault.balanceOf = [t \in Tokens |-> 0] BY DEF VaultInit, EmptyVault, Zero
  <2> QED BY <2>1, <2>2 DEF Abstract!CustodyInit
<1>2. LedgerInv /\ [LedgerNext]_vault => [Abstract!CustodyNext]_(Abstract!custodyVars)
  <2> SUFFICES ASSUME LedgerInv, [LedgerNext]_vault
               PROVE  [Abstract!CustodyNext]_(Abstract!custodyVars)
    OBVIOUS
  <2>1. CASE LedgerNext
    <3>1. \A t \in Tokens : CustodyStep(vault, vault', t) BY <2>1, StepSound DEF Correct, Sound
    <3> DEFINE owed == [t \in Tokens |-> Owed(vault, t)]
    <3>2. \A t \in Tokens : Abstract!TakesIn(t) \/ Abstract!HandsOut(t)
      BY <3>1 DEF CustodyStep, Abstract!TakesIn, Abstract!HandsOut
    <3> QED BY <3>2 DEF Abstract!CustodyNext
  <2>2. CASE UNCHANGED vault
    BY <2>2 DEF Abstract!custodyVars
  <2> QED BY <2>1, <2>2
<1> QED BY <1>1, <1>2, Invariance, PTL DEF LedgerSpec, KeepsCustody, Abstract!CustodySpec

(* What every step does to the traders is fair, stuttering included. *)
LEMMA StepFair ==
  ASSUME LedgerInv, [LedgerNext]_vault
  PROVE  Fair(vault, vault')
<1>1. CASE LedgerNext BY <1>1, StepSound DEF Correct
<1>2. CASE UNCHANGED vault
  <2>1. Good(vault) /\ Good(vault') BY <1>2 DEF LedgerInv
  <2>2. SameBooks(vault, vault') BY <1>2 DEF SameBooks
  <2> QED BY <2>1, <2>2, FairWithSameBooks
<1> QED BY <1>1, <1>2

(* No transaction takes collateral from more than one trader, or changes the *)
(* debts of more than one: settlements, liquidations with their fee to the   *)
(* liquidator, execution fees and transfers included.                        *)
THEOREM OneTraderPays == LedgerSpec => OthersUntouched
<1>1. LedgerInv /\ [LedgerNext]_vault
        => \E a \in SubAccounts : \A b \in SubAccounts \ {a} :
             /\ \A t \in Tokens : vault'.traderBalances[b][t] >= vault.traderBalances[b][t]
             /\ \A k \in DebtKinds : vault'.debt[k][b] = vault.debt[k][b]
  BY StepFair DEF Fair, Spares
<1> QED BY <1>1, Invariance, PTL DEF LedgerSpec, OthersUntouched

(* A debt rises only when the collateral is gone: whatever the bill, the     *)
(* prices and the roundings, a settlement or an execution fee that leaves a  *)
(* trader with more debt has taken all he had in the assets of the pool.     *)
THEOREM CollateralFirst == LedgerSpec => BrokeBeforeIndebted
<1>1. LedgerInv /\ [LedgerNext]_vault
        => \A a \in SubAccounts \ {Treasury}, k \in DebtKinds :
             vault'.debt[k][a] > vault.debt[k][a] =>
                \A i \in DOMAIN HlpAssets : vault'.traderBalances[a][HlpAssets[i]] = 0
  BY StepFair DEF Fair, BrokeFirst
<1> QED BY <1>1, Invariance, PTL DEF LedgerSpec, BrokeBeforeIndebted

(* Nothing is paid on a junior debt while any of a senior one is left, over  *)
(* however many assets the settlement goes through.                          *)
THEOREM SeniorsFirst == LedgerSpec => PaidBySeniority
<1>1. LedgerInv /\ [LedgerNext]_vault
        => \A a \in SubAccounts, i \in 1 .. 4 : \A j \in i + 1 .. 4 :
             vault'.debt[Seniority[i]][a] > 0 =>
                vault'.debt[Seniority[j]][a] >= vault.debt[Seniority[j]][a]
  <2>1. Seniority = LegOrder BY DEF Seniority, LegOrder
  <2> QED BY <2>1, StepFair DEF Fair, InOrder
<1> QED BY <1>1, Invariance, PTL DEF LedgerSpec, PaidBySeniority
=============================================================================
