---------------------------- MODULE PerpBookProofs ----------------------------
(* PerpStorage's totals and lists, for every number of traders, markets and  *)
(* asset classes, any sizes, rates and lengths of time.                      *)
EXTENDS PerpBook, SumsProofs, SequenceTheorems

-----------------------------------------------------------------------------
(* Truncation. *)

LEMMA DivisionIsInt ==
  ASSUME NEW n \in Int, NEW d \in Nat \ {0}
  PROVE  n \div d \in Int /\ Quotient(n, d) \in Int
<1>1. n \div d \in Int /\ (-n) \div d \in Int OBVIOUS
<1> QED BY <1>1 DEF Quotient

LEMMA FloorIs ==
  ASSUME NEW n \in Int, NEW d \in Nat \ {0}
  PROVE  n \div d \in Int /\ d * (n \div d) <= n /\ n <= d * (n \div d) + (d - 1)
OBVIOUS

(* Dividing by d, rounding towards zero, is off by less than d. *)
LEMMA QuotientIs ==
  ASSUME NEW n \in Int, NEW d \in Nat \ {0}
  PROVE  /\ Quotient(n, d) \in Int
         /\ -(d - 1) <= d * Quotient(n, d) - n /\ d * Quotient(n, d) - n <= d - 1
<1>1. CASE n < 0
  <2> DEFINE q == (-n) \div d
  <2>1. q \in Int /\ d * q <= -n /\ -n <= d * q + (d - 1) BY FloorIs
  <2>2. Quotient(n, d) = -q BY <1>1 DEF Quotient
  <2> HIDE DEF q
  <2>3. d * (-q) = -(d * q) BY <2>1
  <2> QED BY <2>1, <2>2, <2>3
<1>2. CASE ~(n < 0)
  <2> DEFINE q == n \div d
  <2>1. q \in Int /\ d * q <= n /\ n <= d * q + (d - 1) BY FloorIs
  <2>2. Quotient(n, d) = q BY <1>2 DEF Quotient
  <2> HIDE DEF q
  <2> QED BY <2>1, <2>2
<1> QED BY <1>1, <1>2

(* What is at most n + 1 units short of n + 1 times d is at most n times d.  *)
LEMMA AtMostWhole ==
  ASSUME NEW d \in Nat \ {0}, NEW y \in Int, NEW n \in Nat, d * y <= (d - 1) * (n + 1)
  PROVE  y <= n
<1> SUFFICES ASSUME n + 1 <= y PROVE FALSE OBVIOUS
<1>1. PICK e \in Nat : y = n + 1 + e
  <2>1. y - (n + 1) \in Nat BY n + 1 <= y
  <2> QED BY <2>1
<1>2. d * y = d * (n + 1) + d * e BY <1>1
<1>3. d * e \in Nat BY <1>1
<1>4. (d - 1) * (n + 1) = d * (n + 1) - (n + 1) OBVIOUS
<1> QED BY <1>2, <1>3, <1>4

(* A later time has no fewer intervals behind it, and one interval later one *)
(* more; the last interval's end has as many as the time it is computed at.  *)
LEMMA LaterIntervals ==
  ASSUME NEW t \in Int, NEW u \in Int, t <= u
  PROVE  /\ IntervalsTo(t) \in Int /\ IntervalsTo(u) \in Int
         /\ IntervalsTo(t) <= IntervalsTo(u)
         /\ t + FundingInterval <= u => IntervalsTo(t) + 1 <= IntervalsTo(u)
<1> DEFINE d == FundingInterval
           m == t \div d
           n == u \div d
<1>0. d \in Nat \ {0} BY BookAssumption
<1>1. m \in Int /\ d * m <= t /\ t <= d * m + (d - 1) BY <1>0, FloorIs
<1>2. n \in Int /\ d * n <= u /\ u <= d * n + (d - 1) BY <1>0, FloorIs
<1> HIDE DEF d, m, n
<1>3. ASSUME NEW a \in Int, NEW b \in Int, d * a < d * b + d PROVE a <= b
  <2> SUFFICES ASSUME b + 1 <= a PROVE FALSE BY <1>3
  <2>1. PICK e \in Nat : a = b + 1 + e
    <3>1. a - (b + 1) \in Nat BY b + 1 <= a
    <3> QED BY <3>1
  <2>2. d * a = d * b + d + d * e BY <1>0, <2>1
  <2>3. d * e \in Nat BY <1>0, <2>1
  <2>4. d * b \in Int /\ d \in Int BY <1>0
  <2> QED BY <1>3, <2>2, <2>3, <2>4
<1>4. d * m \in Int /\ d * n \in Int /\ d \in Int BY <1>0, <1>1, <1>2
<1>5. m <= n
  <2>1. d * m < d * n + d BY <1>1, <1>2, <1>4
  <2> QED BY <1>1, <1>2, <1>3, <2>1
<1>6. ASSUME t + d <= u PROVE m + 1 <= n
  <2>1. d * (m + 1) = d * m + d BY <1>0, <1>1
  <2>2. d * (m + 1) < d * n + d BY <1>1, <1>2, <1>4, <1>6, <2>1
  <2> QED BY <1>1, <1>2, <1>3, <2>2
<1> QED BY <1>1, <1>2, <1>5, <1>6 DEF IntervalsTo, d, m, n

LEMMA IntervalsAreInts ==
  ASSUME NEW t \in Int
  PROVE  IntervalsTo(t) \in Int
<1>1. t <= t OBVIOUS
<1> QED BY <1>1, LaterIntervals

LEMMA LastIntervalIs ==
  ASSUME time \in Nat
  PROVE  LastInterval \in Nat /\ LastInterval <= time
         /\ IntervalsTo(LastInterval) = IntervalsTo(time)
<1> DEFINE d == FundingInterval
           n == time \div d
           l == n * d
           m == l \div d
<1>0. d \in Nat \ {0} BY BookAssumption
<1>1. n \in Int /\ d * n <= time /\ time <= d * n + (d - 1) BY <1>0, FloorIs
<1>2. n \in Nat /\ l \in Nat /\ l = d * n
  <2>1. n \in Nat BY <1>0
  <2> HIDE DEF d, n
  <2> QED BY <1>0, <2>1
<1>3. m \in Int /\ d * m <= l /\ l <= d * m + (d - 1)
  <2> HIDE DEF l
  <2> QED BY <1>0, <1>2, FloorIs
<1> HIDE DEF d, n, m
<1>4. m = n
  <2>1. d * (n - m) <= d - 1 /\ d * (n - m) = d * n - d * m BY <1>0, <1>1, <1>2, <1>3
  <2>2. n - m <= 0
    <3> DEFINE y == n - m
    <3>1. y \in Int /\ d * y <= (d - 1) * (0 + 1) BY <1>0, <1>1, <1>3, <2>1
    <3> HIDE DEF y
    <3>2. y <= 0 BY <1>0, <3>1, AtMostWhole
    <3> QED BY <3>2 DEF y
  <2>3. m - n <= 0
    <3> DEFINE y == m - n
    <3>1. d * y = d * m - d * n BY <1>0, <1>1, <1>3
    <3>2. y \in Int /\ d * y <= (d - 1) * (0 + 1) BY <1>0, <1>1, <1>2, <1>3, <3>1
    <3> HIDE DEF y
    <3>3. y <= 0 BY <1>0, <3>2, AtMostWhole
    <3> QED BY <3>3 DEF y
  <2> QED BY <1>1, <1>3, <2>2, <2>3
<1> QED BY <1>1, <1>2, <1>4 DEF LastInterval, IntervalsTo, d, n, m, l

(* Terms that grow by c times g, each rounded within e: so does their sum,   *)
(* rounded within e for each of them.                                        *)
LEMMA SumRounded ==
  ASSUME NEW S, IsFiniteSet(S), NEW c \in Int, NEW d \in Int, NEW e \in Int,
         NEW g \in [S -> Int], NEW p \in [S -> Int], NEW q \in [S -> Int],
         \A x \in S : /\ d * (q[x] - p[x]) - c * g[x] <= e
                      /\ -e <= d * (q[x] - p[x]) - c * g[x]
  PROVE  /\ d * (SumOver(S, q) - SumOver(S, p)) - c * SumOver(S, g) <= e * Cardinality(S)
         /\ -(e * Cardinality(S)) <= d * (SumOver(S, q) - SumOver(S, p)) - c * SumOver(S, g)
<1> DEFINE minus == -1
           less == -c
           zeros == [x \in S |-> 0]
           r == [x \in S |-> q[x] - p[x]]
           t == [x \in S |-> d * r[x]]
           w == [x \in S |-> t[x] - c * g[x]]
           v == [x \in S |-> -w[x]]
<1>1. \A x \in S : /\ q[x] \in Int /\ p[x] \in Int /\ g[x] \in Int
                   /\ c * g[x] \in Int /\ d * (q[x] - p[x]) \in Int
  OBVIOUS
<1>2. r \in [S -> Int] /\ \A x \in S : r[x] = q[x] + minus * p[x]
  BY <1>1
<1>3. t \in [S -> Int] /\ zeros \in [S -> Int] /\ \A x \in S : t[x] = zeros[x] + d * r[x]
  <2>1. \A x \in S : r[x] \in Int /\ d * r[x] \in Int BY <1>2
  <2> HIDE DEF r
  <2> QED BY <2>1
<1>4. w \in [S -> Int] /\ \A x \in S : w[x] = t[x] + less * g[x]
  <2>1. \A x \in S : t[x] \in Int /\ less * g[x] = -(c * g[x]) BY <1>1, <1>3
  <2> HIDE DEF t, less
  <2> QED BY <1>1, <2>1
<1>5. \A x \in S : w[x] <= e /\ -w[x] <= e
  <2>1. \A x \in S : w[x] = d * (q[x] - p[x]) - c * g[x] OBVIOUS
  <2>2. \A x \in S : w[x] \in Int BY <1>4
  <2> HIDE DEF w
  <2> QED BY <1>1, <2>1, <2>2
<1>6. v \in [S -> Int] /\ (\A x \in S : v[x] = zeros[x] + minus * w[x])
      /\ \A x \in S : v[x] <= e
  <2>1. \A x \in S : w[x] \in Int BY <1>4
  <2> HIDE DEF w
  <2> QED BY <1>5, <2>1
<1>7. minus \in Int /\ less \in Int OBVIOUS
<1>8. SumOver(S, zeros) = 0 BY SumZero
<1> HIDE DEF minus, less, zeros, r, t, w, v
<1>9. SumOver(S, r) = SumOver(S, q) + minus * SumOver(S, p)
  BY ONLY <1>2, <1>7, IsFiniteSet(S), p \in [S -> Int], q \in [S -> Int], SumScaled
<1>10. SumOver(S, t) = SumOver(S, zeros) + d * SumOver(S, r)
  BY ONLY <1>2, <1>3, d \in Int, IsFiniteSet(S), SumScaled
<1>11. SumOver(S, w) = SumOver(S, t) + less * SumOver(S, g)
  BY ONLY <1>3, <1>4, <1>7, IsFiniteSet(S), g \in [S -> Int], SumScaled
<1>12. SumOver(S, v) = SumOver(S, zeros) + minus * SumOver(S, w)
  <2>1. /\ zeros \in [S -> Int] /\ w \in [S -> Int] /\ v \in [S -> Int] /\ minus \in Int
        /\ \A x \in S : v[x] = zeros[x] + minus * w[x]
    BY <1>3, <1>4, <1>6, <1>7
  <2> QED BY ONLY <2>1, IsFiniteSet(S), SumScaled
<1>13. SumOver(S, w) <= e * Cardinality(S) BY <1>4, <1>5, SumAtMost
<1>14. SumOver(S, v) <= e * Cardinality(S) BY <1>6, SumAtMost
<1>15. /\ SumOver(S, p) \in Int /\ SumOver(S, q) \in Int /\ SumOver(S, g) \in Int
       /\ SumOver(S, w) \in Int
  BY <1>4, SumInt
<1>16. e * Cardinality(S) \in Int BY FS_CardinalityType
<1> DEFINE sp == SumOver(S, p)
           sq == SumOver(S, q)
           sg == SumOver(S, g)
           sw == SumOver(S, w)
           all == e * Cardinality(S)
<1>17. /\ sp \in Int /\ sq \in Int /\ sg \in Int /\ sw \in Int /\ all \in Int
       /\ sw <= all /\ SumOver(S, v) <= all
  BY <1>13, <1>14, <1>15, <1>16
<1>18. SumOver(S, v) = -sw BY <1>8, <1>12, <1>17 DEF minus
<1>19. SumOver(S, r) = sq - sp BY <1>9, <1>17 DEF minus
<1>20. SumOver(S, t) = d * (sq - sp)
  <2> HIDE DEF sp, sq
  <2> QED BY <1>8, <1>10, <1>17, <1>19
<1>21. less * sg = -(c * sg) BY <1>17 DEF less
<1>22. sw = d * (sq - sp) - c * sg
  <2>1. sw = d * (sq - sp) + less * sg BY <1>11, <1>20
  <2> HIDE DEF sp, sq, sg, sw
  <2> QED BY <1>17, <1>21, <2>1
<1> QED
  <2>1. sw <= all /\ -all <= sw
    <3> HIDE DEF sw, all
    <3> QED BY <1>17, <1>18
  <2> QED BY <1>22, <2>1

(* Whole numbers of d that are at most the terms: so is the sum's. *)
LEMMA SumFloors ==
  ASSUME NEW S, IsFiniteSet(S), NEW d \in Int, NEW f \in [S -> Int], NEW q \in [S -> Int],
         \A x \in S : d * q[x] <= f[x]
  PROVE  d * SumOver(S, q) <= SumOver(S, f)
<1> DEFINE less == -d
           h == [x \in S |-> f[x] - d * q[x]]
<1>1. \A x \in S : f[x] \in Int /\ d * q[x] \in Int OBVIOUS
<1>2. /\ h \in [S -> Int] /\ h \in [S -> Nat] /\ less \in Int
      /\ \A x \in S : h[x] = f[x] + less * q[x]
  <2>1. \A x \in S : less * q[x] = -(d * q[x]) OBVIOUS
  <2> HIDE DEF less
  <2>2. \A x \in S : h[x] = f[x] + less * q[x] BY <1>1, <2>1
  <2> QED BY <1>1, <2>2 DEF less
<1> HIDE DEF h, less
<1>3. SumOver(S, h) = SumOver(S, f) + less * SumOver(S, q)
  BY ONLY <1>2, IsFiniteSet(S), f \in [S -> Int], q \in [S -> Int], SumScaled
<1>4. SumOver(S, h) \in Nat BY <1>2, SumNat
<1> DEFINE sf == SumOver(S, f)
           sq == SumOver(S, q)
<1>5. sf \in Int /\ sq \in Int BY SumInt
<1>6. SumOver(S, h) = sf + less * sq BY <1>3
<1> HIDE DEF sf, sq
<1>7. less * sq = -(d * sq) BY <1>5 DEF less
<1>8. d * sq <= sf BY <1>4, <1>5, <1>6, <1>7
<1> QED BY <1>8 DEF sf, sq

(* A total w of W, rounded within d - 1, and n terms that grew from P to Q,  *)
(* each rounded twice: they do not part by more than 2 * n.                  *)
LEMMA RoundedTogether ==
  ASSUME NEW d \in Nat \ {0}, NEW n \in Nat, NEW w \in Int, NEW W \in Int,
         NEW g \in Int, d * w - W <= d - 1, -(d - 1) <= d * w - W,
         d * g - W <= (2 * (d - 1)) * n, -((2 * (d - 1)) * n) <= d * g - W
  PROVE  w - g <= 2 * n /\ g - w <= 2 * n
<1> DEFINE m == 2 * n
           all == (2 * (d - 1)) * n
           up == w - g
           down == g - w
<1>1. m \in Nat /\ up \in Int /\ down \in Int OBVIOUS
<1>2. (d - 1) * (m + 1) = all + (d - 1) OBVIOUS
<1>3. d * up = d * w - d * g /\ d * down = d * g - d * w OBVIOUS
<1>4. all \in Int /\ d * w \in Int /\ d * g \in Int OBVIOUS
<1>5. d * up <= (d - 1) * (m + 1) /\ d * down <= (d - 1) * (m + 1)
  <2>1. d * g - W <= all /\ -all <= d * g - W OBVIOUS
  <2> HIDE DEF up, down, m, all
  <2> QED BY <1>2, <1>3, <1>4, <2>1
<1> HIDE DEF up, down, m
<1>6. up <= m /\ down <= m BY <1>1, <1>5, AtMostWhole
<1> QED BY <1>6 DEF up, down, m

-----------------------------------------------------------------------------
(* The book, field by field. *)

Positions ==
  [size : Int, reserve : Int, entryBorrowingRate : Int, lastFundingAccrued : Int]
MarketRecords ==
  [size : [Sides -> Int], accumFunding : [Sides -> Int], currentFundingRate : Int,
   fundingAccrued : Int, lastFundingTime : Int]
ClassRecords ==
  [reserve : Int, sumBorrowingRate : Int, lastBorrowingTime : Int,
   sumBorrowingFee : Int, sumSettledBorrowingFee : Int]
Books ==
  [positions : [PositionIds -> Positions],
   subAccountPositionIds : [SubAccounts -> Seq(PositionIds)],
   activePositionIds : SUBSET PositionIds, activeSubAccounts : SUBSET SubAccounts,
   markets : [Markets -> MarketRecords], classes : [AssetClasses -> ClassRecords],
   reserve : Int]

BookOf(p, l, i, s, m, c, r) ==
  [positions |-> p, subAccountPositionIds |-> l, activePositionIds |-> i,
   activeSubAccounts |-> s, markets |-> m, classes |-> c, reserve |-> r]

LEMMA SetPositions ==
  ASSUME NEW b \in Books, NEW e
  PROVE  [b EXCEPT !.positions = e] =
           BookOf(e, b.subAccountPositionIds, b.activePositionIds, b.activeSubAccounts,
                  b.markets, b.classes, b.reserve)
BY DEF Books, BookOf

LEMMA SetMarkets ==
  ASSUME NEW b \in Books, NEW e
  PROVE  [b EXCEPT !.markets = e] =
           BookOf(b.positions, b.subAccountPositionIds, b.activePositionIds,
                  b.activeSubAccounts, e, b.classes, b.reserve)
BY DEF Books, BookOf

LEMMA SetClasses ==
  ASSUME NEW b \in Books, NEW e
  PROVE  [b EXCEPT !.classes = e] =
           BookOf(b.positions, b.subAccountPositionIds, b.activePositionIds,
                  b.activeSubAccounts, b.markets, e, b.reserve)
BY DEF Books, BookOf

LEMMA SetReserve ==
  ASSUME NEW b \in Books, NEW e
  PROVE  [b EXCEPT !.reserve = e] =
           BookOf(b.positions, b.subAccountPositionIds, b.activePositionIds,
                  b.activeSubAccounts, b.markets, b.classes, e)
BY DEF Books, BookOf

(* The parts of two books that are the same. *)
SameLists(b, r) ==
  /\ r.subAccountPositionIds = b.subAccountPositionIds
  /\ r.activePositionIds = b.activePositionIds
  /\ r.activeSubAccounts = b.activeSubAccounts

OnlyMarket(b, r, m) ==
  /\ r \in Books /\ r.positions = b.positions /\ SameLists(b, r)
  /\ r.classes = b.classes /\ r.reserve = b.reserve
  /\ \A n \in Markets : n # m => r.markets[n] = b.markets[n]

OnlyClass(b, r, c) ==
  /\ r \in Books /\ r.positions = b.positions /\ SameLists(b, r)
  /\ r.markets = b.markets
  /\ \A d \in AssetClasses : d # c => r.classes[d] = b.classes[d]

LEMMA PutMarket ==
  ASSUME NEW b \in Books, NEW m \in Markets, NEW k \in MarketRecords
  PROVE  LET r == [b EXCEPT !.markets[m] = k]
         IN  OnlyMarket(b, r, m) /\ r.markets[m] = k
<1> DEFINE r == [b EXCEPT !.markets[m] = k]
           markets == [b.markets EXCEPT ![m] = k]
<1>1. markets \in [Markets -> MarketRecords] /\ markets[m] = k
      /\ \A n \in Markets : n # m => markets[n] = b.markets[n]
  BY DEF Books
<1>2. r = BookOf(b.positions, b.subAccountPositionIds, b.activePositionIds,
                 b.activeSubAccounts, markets, b.classes, b.reserve)
  BY SetMarkets
<1> HIDE DEF r, markets
<1>3. r \in Books BY <1>1, <1>2 DEF Books, BookOf
<1>4. OnlyMarket(b, r, m) /\ r.markets[m] = k
  BY <1>1, <1>2, <1>3 DEF OnlyMarket, SameLists, BookOf
<1> QED BY <1>4 DEF r

LEMMA PutClass ==
  ASSUME NEW b \in Books, NEW c \in AssetClasses, NEW k \in ClassRecords
  PROVE  LET r == [b EXCEPT !.classes[c] = k]
         IN  OnlyClass(b, r, c) /\ r.classes[c] = k /\ r.reserve = b.reserve
<1> DEFINE r == [b EXCEPT !.classes[c] = k]
           classes == [b.classes EXCEPT ![c] = k]
<1>1. classes \in [AssetClasses -> ClassRecords] /\ classes[c] = k
      /\ \A d \in AssetClasses : d # c => classes[d] = b.classes[d]
  BY DEF Books
<1>2. r = BookOf(b.positions, b.subAccountPositionIds, b.activePositionIds,
                 b.activeSubAccounts, b.markets, classes, b.reserve)
  BY SetClasses
<1> HIDE DEF r, classes
<1>3. r \in Books BY <1>1, <1>2 DEF Books, BookOf
<1>4. OnlyClass(b, r, c) /\ r.classes[c] = k /\ r.reserve = b.reserve
  BY <1>1, <1>2, <1>3 DEF OnlyClass, SameLists, BookOf
<1> QED BY <1>4 DEF r

(* ChangeReserve *)
LEMMA ChangeReserveIs ==
  ASSUME NEW b \in Books, NEW c \in AssetClasses, NEW delta \in Int
  PROVE  LET r == ChangeReserve(b, c, delta)
         IN  /\ OnlyClass(b, r, c) /\ r.reserve = b.reserve + delta
             /\ r.classes[c] = [b.classes[c] EXCEPT !.reserve = @ + delta]
<1> DEFINE q == [b EXCEPT !.reserve = @ + delta]
           k == [b.classes[c] EXCEPT !.reserve = @ + delta]
           r == [q EXCEPT !.classes[c] = k]
<1>1. q = BookOf(b.positions, b.subAccountPositionIds, b.activePositionIds,
                 b.activeSubAccounts, b.markets, b.classes, b.reserve + delta)
  BY SetReserve
<1>2. k \in ClassRecords
  <2>1. b.classes[c] \in ClassRecords BY DEF Books
  <2> QED BY <2>1 DEF ClassRecords
<1>3. [q EXCEPT !.classes[c].reserve = @ + delta]
        = [q EXCEPT !.classes[c] = [q.classes[c] EXCEPT !.reserve = @ + delta]]
  BY Zenon
<1>4. ChangeReserve(b, c, delta) = [q EXCEPT !.classes[c].reserve = @ + delta]
  BY Zenon DEF ChangeReserve
<1> HIDE DEF q
<1>5. q \in Books BY <1>1 DEF Books, BookOf
<1>6. q.classes = b.classes /\ q.reserve = b.reserve + delta
      /\ q.positions = b.positions /\ SameLists(b, q) /\ q.markets = b.markets
  BY <1>1 DEF BookOf, SameLists
<1>7. ChangeReserve(b, c, delta) = r BY <1>3, <1>4, <1>6
<1> HIDE DEF k
<1>8. OnlyClass(q, r, c) /\ r.classes[c] = k /\ r.reserve = q.reserve
  BY <1>2, <1>5, PutClass
<1> HIDE DEF r
<1> QED BY <1>6, <1>7, <1>8 DEF OnlyClass, SameLists, k

(* ChangeSize *)
LEMMA ChangeSizeIs ==
  ASSUME NEW b \in Books, NEW m \in Markets, NEW side \in Sides, NEW delta \in Int
  PROVE  LET r == ChangeSize(b, m, side, delta)
             k == b.markets[m]
         IN  /\ OnlyMarket(b, r, m)
             /\ r.markets[m].size = [k.size EXCEPT ![side] = @ + delta]
             /\ r.markets[m].accumFunding = k.accumFunding
             /\ r.markets[m].fundingAccrued = k.fundingAccrued
             /\ r.markets[m].lastFundingTime = k.lastFundingTime
<1> DEFINE k == b.markets[m]
           size == [k.size EXCEPT ![side] = @ + delta]
           j == [k EXCEPT !.size = size]
           r == [b EXCEPT !.markets[m] = j]
<1>1. k \in MarketRecords BY DEF Books
<1>2. size \in [Sides -> Int] BY <1>1 DEF MarketRecords
<1>3. ChangeSize(b, m, side, delta) = r BY Zenon DEF ChangeSize
<1> HIDE DEF k, size
<1>4. j \in MarketRecords /\ j.size = size /\ j.accumFunding = k.accumFunding
      /\ j.fundingAccrued = k.fundingAccrued /\ j.lastFundingTime = k.lastFundingTime
  BY <1>1, <1>2 DEF MarketRecords
<1> HIDE DEF j
<1>5. OnlyMarket(b, r, m) /\ r.markets[m] = j BY <1>4, PutMarket
<1> HIDE DEF r
<1> QED BY <1>3, <1>4, <1>5 DEF k, size

-----------------------------------------------------------------------------
(* _updateFeeStates *)

LEMMA FeesAreInts ==
  ASSUME NEW b \in Books, NEW id \in PositionIds
  PROVE  /\ BorrowingFee(b, id, b.positions[id]) \in Int
         /\ FundingFee(b, id, b.positions[id]) \in Int
         /\ id[1] \in SubAccounts /\ id[2] \in Markets /\ assetClass[id[2]] \in AssetClasses
         /\ SideOf(b.positions[id]) \in Sides
<1>1. id[1] \in SubAccounts /\ id[2] \in Markets /\ assetClass[id[2]] \in AssetClasses
  BY BookAssumption DEF PositionIds
<1>2. /\ b.positions[id] \in Positions /\ b.markets[id[2]] \in MarketRecords
      /\ b.classes[assetClass[id[2]]] \in ClassRecords
  BY <1>1 DEF Books
<1>3. /\ b.positions[id].size \in Int /\ b.positions[id].reserve \in Int
      /\ b.positions[id].entryBorrowingRate \in Int
      /\ b.positions[id].lastFundingAccrued \in Int
      /\ b.markets[id[2]].fundingAccrued \in Int
      /\ b.classes[assetClass[id[2]]].sumBorrowingRate \in Int
  BY <1>2 DEF Positions, MarketRecords, ClassRecords
<1>4. /\ b.positions[id].size
           * (b.markets[id[2]].fundingAccrued - b.positions[id].lastFundingAccrued) \in Int
      /\ b.positions[id].reserve * (b.classes[assetClass[id[2]]].sumBorrowingRate
                                     - b.positions[id].entryBorrowingRate) \in Int
  BY <1>3
<1>5. FundingFee(b, id, b.positions[id]) \in Int
  BY <1>4, BookAssumption, DivisionIsInt DEF FundingFee, getFundingFee
<1>6. BorrowingFee(b, id, b.positions[id]) \in Int
  BY <1>4, BookAssumption, DivisionIsInt DEF BorrowingFee
<1> QED BY <1>1, <1>5, <1>6 DEF SideOf, Sides

LEMMA updateFeeStatesIs ==
  ASSUME NEW b \in Books, NEW id \in PositionIds
  PROVE  LET p == b.positions[id]
             m == id[2]
             c == assetClass[m]
             r == updateFeeStates(b, id, p)
         IN  /\ r \in Books /\ r.positions = b.positions /\ SameLists(b, r)
             /\ r.reserve = b.reserve
             /\ \A n \in Markets : n # m => r.markets[n] = b.markets[n]
             /\ \A d \in AssetClasses : d # c => r.classes[d] = b.classes[d]
             /\ r.markets[m].size = b.markets[m].size
             /\ r.markets[m].fundingAccrued = b.markets[m].fundingAccrued
             /\ r.markets[m].lastFundingTime = b.markets[m].lastFundingTime
             /\ r.markets[m].accumFunding =
                  [b.markets[m].accumFunding EXCEPT ![SideOf(p)] = @ - FundingFee(b, id, p)]
             /\ r.classes[c] = [b.classes[c] EXCEPT !.sumSettledBorrowingFee =
                                  @ + BorrowingFee(b, id, p)]
<1> DEFINE p == b.positions[id]
           m == id[2]
           c == assetClass[m]
           side == SideOf(p)
           bf == BorrowingFee(b, id, p)
           ff == FundingFee(b, id, p)
           k == [b.classes[c] EXCEPT !.sumSettledBorrowingFee = @ + bf]
           q == [b EXCEPT !.classes[c] = k]
           funding == [b.markets[m].accumFunding EXCEPT ![side] = @ - ff]
           j == [b.markets[m] EXCEPT !.accumFunding = funding]
           r == [q EXCEPT !.markets[m] = j]
<1>1. bf \in Int /\ ff \in Int /\ m \in Markets /\ c \in AssetClasses /\ side \in Sides
  BY FeesAreInts
<1>2. updateFeeStates(b, id, p)
        = [q EXCEPT !.markets[m].accumFunding[side] = @ - ff]
  BY Zenon DEF updateFeeStates
<1>3. [q EXCEPT !.markets[m].accumFunding[side] = @ - ff]
        = [q EXCEPT !.markets[m] = [q.markets[m] EXCEPT !.accumFunding =
             [q.markets[m].accumFunding EXCEPT ![side] = @ - ff]]]
  BY Zenon
<1> HIDE DEF p, m, c, side, bf, ff
<1>4. k \in ClassRecords
  <2>1. b.classes[c] \in ClassRecords BY <1>1 DEF Books
  <2> QED BY <1>1, <2>1 DEF ClassRecords
<1> HIDE DEF k
<1>5. OnlyClass(b, q, c) /\ q.classes[c] = k /\ q.reserve = b.reserve
  BY <1>1, <1>4, PutClass
<1> HIDE DEF q
<1>6. q \in Books /\ q.markets = b.markets BY <1>5 DEF OnlyClass
<1>7. b.markets[m] \in MarketRecords BY <1>1 DEF Books
<1>8. funding \in [Sides -> Int] BY <1>1, <1>7 DEF MarketRecords
<1>9. updateFeeStates(b, id, p) = r BY <1>2, <1>3, <1>6
<1> HIDE DEF funding
<1>10. j \in MarketRecords /\ j.size = b.markets[m].size /\ j.accumFunding = funding
       /\ j.fundingAccrued = b.markets[m].fundingAccrued
       /\ j.lastFundingTime = b.markets[m].lastFundingTime
  BY <1>7, <1>8 DEF MarketRecords
<1> HIDE DEF j
<1>11. OnlyMarket(q, r, m) /\ r.markets[m] = j BY <1>1, <1>6, <1>10, PutMarket
<1> HIDE DEF r
<1>12. /\ r \in Books /\ r.positions = b.positions /\ SameLists(b, r)
       /\ r.reserve = b.reserve
       /\ \A n \in Markets : n # m => r.markets[n] = b.markets[n]
       /\ \A d \in AssetClasses : d # c => r.classes[d] = b.classes[d]
       /\ r.classes[c] = k
  BY <1>5, <1>11 DEF OnlyMarket, OnlyClass, SameLists
<1> QED BY <1>9, <1>10, <1>11, <1>12 DEF p, m, c, side, bf, ff, k, funding

-----------------------------------------------------------------------------
(* The totals of a book, market by market and asset class by asset class. *)

SizeOf(p, side) == IF SideOf(p) = side THEN Abs(p.size) ELSE 0

(* The funding of a position before and after it is truncated. *)
FullFunding(p, accrued, side) ==
  IF SideOf(p) = side THEN p.size * (accrued - p.lastFundingAccrued) ELSE 0
FundingOf(p, accrued, side) == Quotient(FullFunding(p, accrued, side), RatePrecision)

SizesOf(positions, m, side) == [a \in SubAccounts |-> SizeOf(positions[<<a, m>>], side)]
FundingsOf(positions, m, accrued, side) ==
  [a \in SubAccounts |-> FundingOf(positions[<<a, m>>], accrued, side)]

Within(n, bound) == -bound <= n /\ n <= bound

MarketAddsUp(positions, m, k) ==
  \A side \in Sides :
    /\ k.size[side] = SumOver(SubAccounts, SizesOf(positions, m, side))
    /\ Within(k.accumFunding[side]
                - SumOver(SubAccounts, FundingsOf(positions, m, k.fundingAccrued, side)),
              2 * Cardinality(SubAccounts) * IntervalsTo(k.lastFundingTime))

(* A position's borrowing fee before and after it is truncated. *)
ReserveOf(positions, c, id) == IF assetClass[id[2]] = c THEN positions[id].reserve ELSE 0
FullFee(positions, c, rate, id) ==
  IF assetClass[id[2]] = c
  THEN positions[id].reserve * (rate - positions[id].entryBorrowingRate) ELSE 0
FeeOf(positions, c, rate, id) == FullFee(positions, c, rate, id) \div RatePrecision

ReservesOf(positions, c) == [id \in PositionIds |-> ReserveOf(positions, c, id)]
FullFeesOf(positions, c, rate) == [id \in PositionIds |-> FullFee(positions, c, rate, id)]
FeesOf(positions, c, rate) == [id \in PositionIds |-> FeeOf(positions, c, rate, id)]

(* What accrued covers, but for one unit an interval, the fees before they   *)
(* are truncated: settling takes no more than what it stops to owe.  And it  *)
(* exceeds the truncated fees by a unit for each interval and position.      *)
ClassAddsUp(positions, c, k) ==
  LET unsettled == k.sumBorrowingFee - k.sumSettledBorrowingFee
      intervals == IntervalsTo(k.lastBorrowingTime)
  IN  /\ k.reserve = SumOver(PositionIds, ReservesOf(positions, c))
      /\ \A id \in PositionIds : FullFee(positions, c, k.sumBorrowingRate, id) >= 0
      /\ SumOver(PositionIds, FullFeesOf(positions, c, k.sumBorrowingRate))
           <= RatePrecision * (unsettled + intervals)
      /\ unsettled <= SumOver(PositionIds, FeesOf(positions, c, k.sumBorrowingRate))
                        + Cardinality(PositionIds) * intervals

(* Reserves are not negative, and a closed position has none left. *)
Reserved(positions) ==
  \A id \in PositionIds :
    /\ positions[id].reserve \in Nat
    /\ positions[id].size = 0 => positions[id].reserve = 0

Totals(b) ==
  /\ Reserved(b.positions)
  /\ \A m \in Markets : MarketAddsUp(b.positions, m, b.markets[m])
  /\ \A c \in AssetClasses : ClassAddsUp(b.positions, c, b.classes[c])
  /\ b.reserve = SumOver(AssetClasses, [c \in AssetClasses |-> b.classes[c].reserve])

LEMMA IdsFinite == IsFiniteSet(PositionIds)
BY BookAssumption, FS_Product DEF PositionIds

LEMMA PartsAreInts ==
  ASSUME NEW p \in Positions, NEW side, NEW accrued \in Int
  PROVE  /\ SizeOf(p, side) \in Nat /\ FullFunding(p, accrued, side) \in Int
         /\ FundingOf(p, accrued, side) \in Int
         /\ p.size \in Int /\ p.reserve \in Int
<1>1. p.size \in Int /\ p.reserve \in Int /\ p.lastFundingAccrued \in Int BY DEF Positions
<1>2. SizeOf(p, side) \in Nat BY <1>1 DEF SizeOf, Abs
<1>3. FullFunding(p, accrued, side) \in Int BY <1>1 DEF FullFunding
<1>4. FundingOf(p, accrued, side) \in Int BY <1>3, BookAssumption, QuotientIs DEF FundingOf
<1> QED BY <1>1, <1>2, <1>3, <1>4

LEMMA FeesOfAreInts ==
  ASSUME NEW positions \in [PositionIds -> Positions], NEW c, NEW rate \in Int,
         NEW id \in PositionIds
  PROVE  /\ ReserveOf(positions, c, id) \in Int /\ FullFee(positions, c, rate, id) \in Int
         /\ FeeOf(positions, c, rate, id) \in Int
         /\ RatePrecision * FeeOf(positions, c, rate, id) <= FullFee(positions, c, rate, id)
         /\ FullFee(positions, c, rate, id)
              <= RatePrecision * FeeOf(positions, c, rate, id) + (RatePrecision - 1)
<1>1. positions[id].reserve \in Int /\ positions[id].entryBorrowingRate \in Int
  BY DEF Positions
<1>2. ReserveOf(positions, c, id) \in Int BY <1>1 DEF ReserveOf
<1>3. FullFee(positions, c, rate, id) \in Int BY <1>1 DEF FullFee
<1> DEFINE n == FullFee(positions, c, rate, id)
           d == RatePrecision
<1>4. n \in Int /\ d \in Nat \ {0} BY <1>3, BookAssumption
<1>5. FeeOf(positions, c, rate, id) = n \div d BY DEF FeeOf
<1> HIDE DEF n, d
<1>6. n \div d \in Int /\ d * (n \div d) <= n /\ n <= d * (n \div d) + (d - 1)
  BY <1>4, FloorIs
<1> QED BY <1>2, <1>3, <1>5, <1>6 DEF n, d

(* Changed funding: sizes stay; where the funding accrues, each side moves   *)
(* with it, once in an interval.                                             *)
FundingMoves(k, j) ==
  /\ j \in MarketRecords /\ j.size = k.size
  /\ j.lastFundingTime = k.lastFundingTime \/ j.lastFundingTime <= time
  /\ \/ /\ j.fundingAccrued = k.fundingAccrued /\ j.accumFunding = k.accumFunding
        /\ IntervalsTo(k.lastFundingTime) <= IntervalsTo(j.lastFundingTime)
     \/ /\ IntervalsTo(k.lastFundingTime) + 1 <= IntervalsTo(j.lastFundingTime)
        /\ j.accumFunding["long"] = k.accumFunding["long"]
             + getFundingFee(k.size["long"], j.fundingAccrued, k.fundingAccrued)
        /\ j.accumFunding["short"] = k.accumFunding["short"]
             + getFundingFee(-k.size["short"], j.fundingAccrued, k.fundingAccrued)

(* What a position owes of funding moves by its size times what accrued. *)
LEMMA FullFundingMoves ==
  ASSUME NEW p \in Positions, NEW x \in Int, NEW y \in Int
  PROVE  /\ FullFunding(p, y, "long") = FullFunding(p, x, "long") + (y - x) * SizeOf(p, "long")
         /\ FullFunding(p, y, "short")
              = FullFunding(p, x, "short") + (x - y) * SizeOf(p, "short")
<1> DEFINE n == p.size
           last == p.lastFundingAccrued
<1>1. n \in Int /\ last \in Int BY DEF Positions
<1>2. SideOf(p) = IF n > 0 THEN "long" ELSE "short" BY DEF SideOf, IsLong
<1> HIDE DEF n, last
<1>3. n * (y - last) = n * (x - last) + (y - x) * n BY <1>1
<1>4. n * (y - last) = n * (x - last) + (x - y) * (-n) BY <1>1
<1>5. (y - x) * 0 = 0 /\ (x - y) * 0 = 0 OBVIOUS
<1>6. CASE n > 0
  <2>1. FullFunding(p, y, "long") = n * (y - last) /\ FullFunding(p, x, "long") = n * (x - last)
        /\ SizeOf(p, "long") = n
    BY <1>1, <1>2, <1>6 DEF FullFunding, SizeOf, Abs, n, last
  <2>2. FullFunding(p, y, "short") = 0 /\ FullFunding(p, x, "short") = 0
        /\ SizeOf(p, "short") = 0
    BY <1>2, <1>6 DEF FullFunding, SizeOf
  <2> QED BY <1>3, <1>5, <2>1, <2>2
<1>7. CASE ~(n > 0)
  <2>1. FullFunding(p, y, "short") = n * (y - last)
        /\ FullFunding(p, x, "short") = n * (x - last)
        /\ SizeOf(p, "short") = -n
    BY <1>1, <1>2, <1>7 DEF FullFunding, SizeOf, Abs, n, last
  <2>2. FullFunding(p, y, "long") = 0 /\ FullFunding(p, x, "long") = 0
        /\ SizeOf(p, "long") = 0
    BY <1>2, <1>7 DEF FullFunding, SizeOf
  <2> QED BY <1>4, <1>5, <2>1, <2>2
<1> QED BY <1>6, <1>7

(* The positions of a side, as funding accrues by c for a unit of their      *)
(* sizes: they do not part from the side's total by more than two units each.*)
LEMMA SideAccrues ==
  ASSUME NEW positions \in [PositionIds -> Positions], NEW m \in Markets, NEW side,
         NEW x \in Int, NEW y \in Int, NEW c \in Int, NEW total \in Int,
         total = SumOver(SubAccounts, SizesOf(positions, m, side)),
         \A p \in Positions :
           FullFunding(p, y, side) = FullFunding(p, x, side) + c * SizeOf(p, side)
  PROVE  LET moved == SumOver(SubAccounts, FundingsOf(positions, m, y, side))
                        - SumOver(SubAccounts, FundingsOf(positions, m, x, side))
             fee == Quotient(c * total, RatePrecision)
         IN  /\ fee \in Int /\ moved \in Int
             /\ Within(fee - moved, 2 * Cardinality(SubAccounts))
<1> DEFINE R == RatePrecision
           sizes == SizesOf(positions, m, side)
           feesX == FundingsOf(positions, m, x, side)
           feesY == FundingsOf(positions, m, y, side)
           sx == SumOver(SubAccounts, feesX)
           sy == SumOver(SubAccounts, feesY)
           N == Cardinality(SubAccounts)
           e == 2 * (R - 1)
           W == c * total
           w == Quotient(W, R)
<1>1. R \in Nat \ {0} /\ IsFiniteSet(SubAccounts) /\ N \in Nat /\ e \in Int
  BY BookAssumption, FS_CardinalityType
<1>2. \A a \in SubAccounts : <<a, m>> \in PositionIds /\ positions[<<a, m>>] \in Positions
  BY DEF PositionIds
<1>3. /\ sizes \in [SubAccounts -> Int] /\ feesX \in [SubAccounts -> Int]
      /\ feesY \in [SubAccounts -> Int]
  BY <1>2, PartsAreInts DEF SizesOf, FundingsOf
<1>4. ASSUME NEW a \in SubAccounts
      PROVE  /\ R * (feesY[a] - feesX[a]) - c * sizes[a] <= e
             /\ -e <= R * (feesY[a] - feesX[a]) - c * sizes[a]
  <2> DEFINE p == positions[<<a, m>>]
             fx == FullFunding(p, x, side)
             fy == FullFunding(p, y, side)
             qx == Quotient(fx, R)
             qy == Quotient(fy, R)
             n == SizeOf(p, side)
  <2>1. fx \in Int /\ fy \in Int /\ n \in Int /\ fy = fx + c * n
    BY <1>2, PartsAreInts
  <2>2. feesX[a] = qx /\ feesY[a] = qy /\ sizes[a] = n
    BY DEF FundingOf, SizesOf, FundingsOf
  <2> HIDE DEF p, fx, fy, n, R
  <2>3. qx \in Int /\ -(R - 1) <= R * qx - fx /\ R * qx - fx <= R - 1
    BY <1>1, <2>1, QuotientIs
  <2>4. qy \in Int /\ -(R - 1) <= R * qy - fy /\ R * qy - fy <= R - 1
    BY <1>1, <2>1, QuotientIs
  <2> HIDE DEF qx, qy
  <2>5. R * (qy - qx) = R * qy - R * qx BY <1>1, <2>3, <2>4
  <2>6. c * n = fy - fx /\ c * n \in Int BY <2>1
  <2>7. R * (qy - qx) - c * n = (R * qy - fy) - (R * qx - fx)
    <3>1. R * qy \in Int /\ R * qx \in Int BY <1>1, <2>3, <2>4
    <3> QED BY <2>1, <2>5, <2>6, <3>1
  <2>8. R * qy - fy \in Int /\ R * qx - fx \in Int BY <1>1, <2>1, <2>3, <2>4
  <2>9. R * (qy - qx) - c * n <= e /\ -e <= R * (qy - qx) - c * n
    BY <1>1, <2>3, <2>4, <2>7, <2>8
  <2> QED BY <2>2, <2>9
<1>5. W \in Int OBVIOUS
<1> HIDE DEF R, sizes, feesX, feesY, e
<1>6. w \in Int /\ -(R - 1) <= R * w - W /\ R * w - W <= R - 1
  <2> HIDE DEF W
  <2> QED BY <1>1, <1>5, QuotientIs
<1>7. /\ R * (sy - sx) - c * SumOver(SubAccounts, sizes) <= e * N
      /\ -(e * N) <= R * (sy - sx) - c * SumOver(SubAccounts, sizes)
  <2>1. /\ IsFiniteSet(SubAccounts) /\ c \in Int /\ R \in Int /\ e \in Int
        /\ sizes \in [SubAccounts -> Int] /\ feesX \in [SubAccounts -> Int]
        /\ feesY \in [SubAccounts -> Int]
    BY <1>1, <1>3
  <2>2. \A a \in SubAccounts : /\ R * (feesY[a] - feesX[a]) - c * sizes[a] <= e
                              /\ -e <= R * (feesY[a] - feesX[a]) - c * sizes[a]
    BY <1>4
  <2> QED BY ONLY <2>1, <2>2, SumRounded
<1>8. c * SumOver(SubAccounts, sizes) = W BY DEF sizes
<1>9. sx \in Int /\ sy \in Int BY <1>1, <1>3, SumInt
<1> HIDE DEF sx, sy, N, w, W
<1> DEFINE g == sy - sx
<1>10. g \in Int /\ R * g - W <= (2 * (R - 1)) * N /\ -((2 * (R - 1)) * N) <= R * g - W
  BY <1>7, <1>8, <1>9 DEF e
<1> HIDE DEF g
<1>11. w - g <= 2 * N /\ g - w <= 2 * N
  BY <1>1, <1>5, <1>6, <1>10, RoundedTogether
<1>12. Within(w - g, 2 * N) BY <1>1, <1>6, <1>10, <1>11 DEF Within
<1> QED BY <1>6, <1>10, <1>12 DEF g, sx, sy, w, W, N, feesX, feesY, R

(* A drift within b units an interval that grows by up to b, in an interval  *)
(* more.                                                                     *)
LEMMA DriftGrows ==
  ASSUME NEW b \in Nat, NEW n \in Int, NEW l \in Int, n + 1 <= l,
         NEW d \in Int, NEW e \in Int, Within(d, b * n), Within(e - d, b)
  PROVE  Within(e, b * l)
<1>1. PICK i \in Nat : l = n + 1 + i
  <2>1. l - (n + 1) \in Nat BY n + 1 <= l
  <2> QED BY <2>1
<1>2. b * l = b * n + b + b * i BY <1>1
<1>3. b * i \in Nat /\ b * n \in Int BY <1>1
<1> QED BY <1>2, <1>3 DEF Within

LEMMA DriftStays ==
  ASSUME NEW b \in Nat, NEW n \in Int, NEW l \in Int, n <= l,
         NEW d \in Int, Within(d, b * n)
  PROVE  Within(d, b * l)
<1>1. PICK i \in Nat : l = n + i
  <2>1. l - n \in Nat BY n <= l
  <2> QED BY <2>1
<1>2. b * l = b * n + b * i BY <1>1
<1>3. b * i \in Nat /\ b * n \in Int BY <1>1
<1> QED BY <1>2, <1>3 DEF Within

LEMMA FundingMovesKeeps ==
  ASSUME NEW positions \in [PositionIds -> Positions], NEW m \in Markets,
         NEW k \in MarketRecords, MarketAddsUp(positions, m, k), NEW j, FundingMoves(k, j)
  PROVE  MarketAddsUp(positions, m, j)
<1> DEFINE x == k.fundingAccrued
           y == j.fundingAccrued
           N == Cardinality(SubAccounts)
           n == IntervalsTo(k.lastFundingTime)
           l == IntervalsTo(j.lastFundingTime)
           sum(side, z) == SumOver(SubAccounts, FundingsOf(positions, m, z, side))
<1>1. /\ x \in Int /\ y \in Int /\ j \in MarketRecords
      /\ k.size \in [Sides -> Int] /\ k.accumFunding \in [Sides -> Int]
      /\ j.accumFunding \in [Sides -> Int] /\ j.size = k.size
  BY DEF MarketRecords, FundingMoves
<1>2. n \in Int /\ l \in Int /\ 2 * N \in Nat
  <2>1. k.lastFundingTime \in Int /\ j.lastFundingTime \in Int
    BY <1>1 DEF MarketRecords
  <2>2. n \in Int /\ l \in Int BY <2>1, IntervalsAreInts
  <2>3. N \in Nat BY BookAssumption, FS_CardinalityType
  <2> HIDE DEF N
  <2> QED BY <2>2, <2>3
<1>3. \A side \in Sides, z \in Int : sum(side, z) \in Int
  <2> SUFFICES ASSUME NEW side \in Sides, NEW z \in Int PROVE sum(side, z) \in Int
    OBVIOUS
  <2>1. \A a \in SubAccounts : positions[<<a, m>>] \in Positions BY DEF PositionIds
  <2>2. FundingsOf(positions, m, z, side) \in [SubAccounts -> Int]
    BY <2>1, PartsAreInts DEF FundingsOf
  <2> QED BY <2>2, BookAssumption, SumInt
<1>4. \A side \in Sides :
        /\ k.size[side] = SumOver(SubAccounts, SizesOf(positions, m, side))
        /\ Within(k.accumFunding[side] - sum(side, x), 2 * N * n)
  BY DEF MarketAddsUp
<1> SUFFICES ASSUME NEW side \in Sides
             PROVE  Within(j.accumFunding[side] - sum(side, y), 2 * N * l)
  BY <1>1, <1>4 DEF MarketAddsUp
<1>5. Within(k.accumFunding[side] - sum(side, x), 2 * N * n) BY <1>4
<1> DEFINE d == k.accumFunding[side] - sum(side, x)
           e == j.accumFunding[side] - sum(side, y)
<1>6. d \in Int /\ e \in Int BY <1>1, <1>3
<1>7. CASE y = x /\ j.accumFunding = k.accumFunding /\ n <= l
  <2>1. e = d BY <1>7
  <2> HIDE DEF sum, d, e, N, n, l
  <2>2. Within(d, 2 * N * n) BY <1>5 DEF d
  <2>3. Within(d, 2 * N * l) BY <1>2, <1>6, <1>7, <2>2, DriftStays
  <2> QED BY <2>1, <2>3 DEF e
<1>8. CASE /\ n + 1 <= l
           /\ j.accumFunding["long"] = k.accumFunding["long"]
                + getFundingFee(k.size["long"], y, x)
           /\ j.accumFunding["short"] = k.accumFunding["short"]
                + getFundingFee(-k.size["short"], y, x)
  <2> DEFINE c == IF side = "long" THEN y - x ELSE x - y
             total == k.size[side]
             fee == Quotient(c * total, RatePrecision)
             moved == sum(side, y) - sum(side, x)
  <2>1. c \in Int /\ total \in Int BY <1>1
  <2>2. \A p \in Positions :
          FullFunding(p, y, side) = FullFunding(p, x, side) + c * SizeOf(p, side)
    <3>1. CASE side = "long" BY <1>1, <3>1, FullFundingMoves
    <3>2. CASE side = "short" BY <1>1, <3>2, FullFundingMoves
    <3> QED BY <3>1, <3>2 DEF Sides
  <2>3. total = SumOver(SubAccounts, SizesOf(positions, m, side))
    BY <1>4
  <2>4. j.accumFunding[side] = k.accumFunding[side] + fee
    <3>1. CASE side = "long"
      <4>1. k.size["long"] * (y - x) = (y - x) * k.size["long"] BY <1>1 DEF Sides
      <4> HIDE DEF x, y
      <4> QED BY <1>8, <3>1, <4>1 DEF getFundingFee
    <3>2. CASE side = "short"
      <4>1. (-k.size["short"]) * (y - x) = (x - y) * k.size["short"] BY <1>1 DEF Sides
      <4> HIDE DEF x, y
      <4> QED BY <1>8, <3>2, <4>1 DEF getFundingFee
    <3> QED BY <3>1, <3>2 DEF Sides
  <2> HIDE DEF c, total, x, y
  <2>5. fee \in Int /\ moved \in Int /\ Within(fee - moved, 2 * N)
    <3>1. /\ positions \in [PositionIds -> Positions] /\ m \in Markets
          /\ x \in Int /\ y \in Int /\ c \in Int /\ total \in Int
      BY <1>1, <2>1
    <3> QED BY ONLY <2>2, <2>3, <3>1, SideAccrues
  <2>6. e - d = fee - moved
    <3>1. /\ sum(side, y) \in Int /\ sum(side, x) \in Int
          /\ k.accumFunding[side] \in Int /\ j.accumFunding[side] \in Int
      BY <1>1, <1>3
    <3> HIDE DEF sum, fee
    <3> QED BY <2>4, <2>5, <3>1
  <2> HIDE DEF sum, d, e, N, n, l, fee, moved
  <2>7. Within(d, 2 * N * n) /\ Within(e - d, 2 * N) BY <1>5, <2>5, <2>6 DEF d
  <2>8. Within(e, 2 * N * l) BY <1>2, <1>6, <1>8, <2>7, DriftGrows
  <2> QED BY <2>8 DEF e
<1> QED BY <1>7, <1>8 DEF FundingMoves

(* A changed borrowing rate: what has accrued grows with the reserve, once   *)
(* in an interval, rounded down.                                             *)
BorrowingMoves(k, j) ==
  LET rate == j.sumBorrowingRate - k.sumBorrowingRate
      before == IntervalsTo(k.lastBorrowingTime)
      after == IntervalsTo(j.lastBorrowingTime)
  IN  /\ j \in ClassRecords /\ j.reserve = k.reserve
      /\ j.sumSettledBorrowingFee = k.sumSettledBorrowingFee
      /\ \/ /\ rate = 0 /\ before <= after
            /\ j.sumBorrowingFee = k.sumBorrowingFee
         \/ /\ before + 1 <= after
            /\ k.reserve >= 0 => rate >= 0
            /\ j.sumBorrowingFee = k.sumBorrowingFee + (k.reserve * rate) \div RatePrecision

(* The three sums over the positions are integers. *)
LEMMA ClassSumsAreInts ==
  ASSUME NEW positions \in [PositionIds -> Positions], NEW c, NEW rate \in Int
  PROVE  /\ ReservesOf(positions, c) \in [PositionIds -> Int]
         /\ FullFeesOf(positions, c, rate) \in [PositionIds -> Int]
         /\ FeesOf(positions, c, rate) \in [PositionIds -> Int]
         /\ SumOver(PositionIds, ReservesOf(positions, c)) \in Int
         /\ SumOver(PositionIds, FullFeesOf(positions, c, rate)) \in Int
         /\ SumOver(PositionIds, FeesOf(positions, c, rate)) \in Int
<1>1. ReservesOf(positions, c) \in [PositionIds -> Int]
  BY FeesOfAreInts DEF ReservesOf
<1>2. FullFeesOf(positions, c, rate) \in [PositionIds -> Int]
  BY FeesOfAreInts DEF FullFeesOf
<1>3. FeesOf(positions, c, rate) \in [PositionIds -> Int]
  BY FeesOfAreInts DEF FeesOf
<1> QED BY <1>1, <1>2, <1>3, IdsFinite, SumInt

(* The fees of positions as the rate grows, against the reserve's. *)
LEMMA FeesAccrue ==
  ASSUME NEW positions \in [PositionIds -> Positions], NEW c, NEW x \in Int, NEW y \in Int,
         NEW reserve \in Int, reserve = SumOver(PositionIds, ReservesOf(positions, c))
  PROVE  LET fee == (reserve * (y - x)) \div RatePrecision
             moved == SumOver(PositionIds, FeesOf(positions, c, y))
                        - SumOver(PositionIds, FeesOf(positions, c, x))
         IN  /\ \A id \in PositionIds :
                  FullFee(positions, c, y, id)
                    = FullFee(positions, c, x, id) + (y - x) * ReserveOf(positions, c, id)
             /\ fee \in Int /\ moved \in Int
             /\ SumOver(PositionIds, FullFeesOf(positions, c, y))
                  - SumOver(PositionIds, FullFeesOf(positions, c, x))
                  <= RatePrecision * (fee + 1)
             /\ fee - moved <= Cardinality(PositionIds)
<1> DEFINE R == RatePrecision
           N == Cardinality(PositionIds)
           rate == y - x
           W == reserve * rate
           fee == W \div R
           reserves == ReservesOf(positions, c)
           fullX == FullFeesOf(positions, c, x)
           fullY == FullFeesOf(positions, c, y)
           feesX == FeesOf(positions, c, x)
           feesY == FeesOf(positions, c, y)
           sx == SumOver(PositionIds, feesX)
           sy == SumOver(PositionIds, feesY)
           ux == SumOver(PositionIds, fullX)
           uy == SumOver(PositionIds, fullY)
           e == R - 1
<1>1. R \in Nat \ {0} /\ e \in Nat /\ IsFiniteSet(PositionIds) /\ N \in Nat
  BY BookAssumption, IdsFinite, FS_CardinalityType
<1>2. /\ reserves \in [PositionIds -> Int]
      /\ fullX \in [PositionIds -> Int] /\ fullY \in [PositionIds -> Int]
      /\ feesX \in [PositionIds -> Int] /\ feesY \in [PositionIds -> Int]
      /\ sx \in Int /\ sy \in Int /\ ux \in Int /\ uy \in Int
  BY ClassSumsAreInts
<1>3. rate \in Int /\ W \in Int OBVIOUS
<1>4. ASSUME NEW id \in PositionIds
      PROVE  FullFee(positions, c, y, id)
               = FullFee(positions, c, x, id) + rate * ReserveOf(positions, c, id)
  <2> DEFINE n == positions[id].reserve
             entry == positions[id].entryBorrowingRate
  <2>1. n \in Int /\ entry \in Int BY DEF Positions
  <2>2. CASE assetClass[id[2]] = c
    <3>1. /\ ReserveOf(positions, c, id) = n
          /\ FullFee(positions, c, x, id) = n * (x - entry)
          /\ FullFee(positions, c, y, id) = n * (y - entry)
      BY <2>2 DEF ReserveOf, FullFee
    <3> HIDE DEF n, entry
    <3>2. n * (y - entry) = n * (x - entry) + (y - x) * n BY <2>1
    <3> QED BY <3>1, <3>2
  <2>3. CASE assetClass[id[2]] # c
    <3>1. /\ ReserveOf(positions, c, id) = 0
          /\ FullFee(positions, c, x, id) = 0 /\ FullFee(positions, c, y, id) = 0
      BY <2>3 DEF ReserveOf, FullFee
    <3>2. (y - x) * 0 = 0 OBVIOUS
    <3> QED BY <3>1, <3>2
  <2> QED BY <2>2, <2>3
<1>5. \A id \in PositionIds : fullY[id] = fullX[id] + rate * reserves[id]
  BY <1>4 DEF FullFeesOf, ReservesOf
<1>6. ASSUME NEW id \in PositionIds
      PROVE  /\ R * (feesY[id] - feesX[id]) - rate * reserves[id] <= e
             /\ -e <= R * (feesY[id] - feesX[id]) - rate * reserves[id]
  <2> DEFINE fx == FullFee(positions, c, x, id)
             fy == FullFee(positions, c, y, id)
             qx == FeeOf(positions, c, x, id)
             qy == FeeOf(positions, c, y, id)
             n == ReserveOf(positions, c, id)
  <2>1. /\ n \in Int /\ fx \in Int /\ qx \in Int /\ R * qx <= fx /\ fx <= R * qx + e
        /\ fy \in Int /\ qy \in Int /\ R * qy <= fy /\ fy <= R * qy + e
    BY FeesOfAreInts
  <2>2. feesX[id] = qx /\ feesY[id] = qy /\ reserves[id] = n BY DEF FeesOf, ReservesOf
  <2>3. fy = fx + rate * n BY <1>4
  <2> HIDE DEF fx, fy, qx, qy, n, R, e, rate
  <2>4. R * (qy - qx) = R * qy - R * qx /\ R * qy \in Int /\ R * qx \in Int
    BY <1>1, <2>1
  <2>5. rate * n \in Int BY <1>3, <2>1
  <2>6. R * (qy - qx) - rate * n <= e /\ -e <= R * (qy - qx) - rate * n
    BY <1>1, <2>1, <2>3, <2>4, <2>5
  <2> QED BY <2>2, <2>6
<1>7. SumOver(PositionIds, reserves) = reserve OBVIOUS
<1> HIDE DEF R, rate, reserves, fullX, fullY, feesX, feesY, e, N
<1>8. fee \in Int /\ R * fee <= W /\ W <= R * fee + (R - 1)
  <2> HIDE DEF W
  <2> QED BY <1>1, <1>3, FloorIs
<1>9. uy = ux + rate * reserve
  <2>1. uy = ux + rate * SumOver(PositionIds, reserves)
    <3>1. /\ IsFiniteSet(PositionIds) /\ rate \in Int /\ fullX \in [PositionIds -> Int]
          /\ reserves \in [PositionIds -> Int] /\ fullY \in [PositionIds -> Int]
      BY <1>1, <1>2, <1>3
    <3> QED BY ONLY <1>5, <3>1, SumScaled
  <2> QED BY <1>7, <2>1
<1>10. -(e * N) <= R * (sy - sx) - rate * reserve
  <2>1. /\ IsFiniteSet(PositionIds) /\ rate \in Int /\ R \in Int /\ e \in Int
        /\ reserves \in [PositionIds -> Int] /\ feesX \in [PositionIds -> Int]
        /\ feesY \in [PositionIds -> Int]
    BY <1>1, <1>2, <1>3
  <2>2. \A id \in PositionIds : /\ R * (feesY[id] - feesX[id]) - rate * reserves[id] <= e
                                /\ -e <= R * (feesY[id] - feesX[id]) - rate * reserves[id]
    BY <1>6
  <2>3. -(e * Cardinality(PositionIds))
          <= R * (SumOver(PositionIds, feesY) - SumOver(PositionIds, feesX))
               - rate * SumOver(PositionIds, reserves)
    BY ONLY <2>1, <2>2, SumRounded
  <2> QED BY <1>7, <2>3 DEF N
<1>11. rate * reserve = W /\ e = R - 1 BY <1>3 DEF e
<1> HIDE DEF sx, sy, ux, uy, W, fee
<1>12. uy - ux <= R * (fee + 1)
  <2>1. R * (fee + 1) = R * fee + R BY <1>1, <1>8
  <2> QED BY <1>1, <1>2, <1>3, <1>8, <1>9, <1>11, <2>1
<1>13. fee - (sy - sx) <= N
  <2> DEFINE g == fee - (sy - sx)
  <2>1. g \in Int BY <1>2, <1>8
  <2>2. R * g = R * fee - R * (sy - sx) BY <1>1, <1>2, <1>8
  <2>3. (R - 1) * (N + 1) = e * N + e BY <1>1, <1>11
  <2>4. R * (sy - sx) \in Int /\ e * N \in Int /\ R * fee \in Int BY <1>1, <1>2, <1>8
  <2> HIDE DEF g
  <2>5. R * g <= (R - 1) * (N + 1)
    BY <1>1, <1>3, <1>8, <1>10, <1>11, <2>2, <2>3, <2>4
  <2>6. g <= N BY <1>1, <2>1, <2>5, AtMostWhole
  <2> QED BY <2>6 DEF g
<1>14. sy - sx \in Int BY <1>2
<1> QED BY <1>4, <1>8, <1>12, <1>13, <1>14
        DEF rate, fee, W, R, N, sx, sy, ux, uy, feesX, feesY, fullX, fullY

LEMMA BorrowingMovesKeeps ==
  ASSUME NEW positions \in [PositionIds -> Positions], Reserved(positions),
         NEW c \in AssetClasses, NEW k \in ClassRecords, ClassAddsUp(positions, c, k),
         NEW j, BorrowingMoves(k, j)
  PROVE  ClassAddsUp(positions, c, j)
<1> DEFINE R == RatePrecision
           N == Cardinality(PositionIds)
           x == k.sumBorrowingRate
           y == j.sumBorrowingRate
           rate == y - x
           n == IntervalsTo(k.lastBorrowingTime)
           l == IntervalsTo(j.lastBorrowingTime)
           u == k.sumBorrowingFee - k.sumSettledBorrowingFee
           v == j.sumBorrowingFee - j.sumSettledBorrowingFee
           fee == (k.reserve * rate) \div R
           full(z) == SumOver(PositionIds, FullFeesOf(positions, c, z))
           fees(z) == SumOver(PositionIds, FeesOf(positions, c, z))
<1>1. /\ x \in Int /\ y \in Int /\ k.reserve \in Int /\ u \in Int /\ v \in Int
      /\ k.sumBorrowingFee \in Int /\ k.sumSettledBorrowingFee \in Int
      /\ k.lastBorrowingTime \in Int /\ j.lastBorrowingTime \in Int
      /\ j.reserve = k.reserve /\ j.sumSettledBorrowingFee = k.sumSettledBorrowingFee
  BY DEF ClassRecords, BorrowingMoves
<1>2. n \in Int /\ l \in Int BY <1>1, IntervalsAreInts
<1>3. R \in Nat \ {0} /\ N \in Nat BY BookAssumption, IdsFinite, FS_CardinalityType
<1>4. /\ k.reserve = SumOver(PositionIds, ReservesOf(positions, c))
      /\ \A id \in PositionIds : FullFee(positions, c, x, id) >= 0
      /\ full(x) <= R * (u + n) /\ u <= fees(x) + N * n
  BY DEF ClassAddsUp
<1>5. full(x) \in Int /\ full(y) \in Int /\ fees(x) \in Int /\ fees(y) \in Int
  <2> HIDE DEF x, y
  <2> QED BY <1>1, ClassSumsAreInts
<1>6. CASE rate = 0 /\ n <= l /\ j.sumBorrowingFee = k.sumBorrowingFee
  <2>1. y = x /\ v = u BY <1>1, <1>6
  <2>2. PICK i \in Nat : l = n + i
    <3>1. l - n \in Nat BY <1>2, <1>6
    <3> QED BY <1>2, <3>1
  <2> HIDE DEF x, n, l, u, full, fees, R, N
  <2>3. R * (u + l) = R * (u + n) + R * i /\ N * l = N * n + N * i
    BY <1>1, <1>2, <1>3, <2>2
  <2>4. R * i \in Nat /\ N * i \in Nat /\ R * (u + n) \in Int /\ N * n \in Int
    BY <1>1, <1>2, <1>3
  <2>5. full(x) <= R * (u + l) /\ u <= fees(x) + N * l
    BY <1>1, <1>4, <1>5, <2>3, <2>4
  <2> QED BY <1>1, <1>4, <2>1, <2>5 DEF ClassAddsUp, x, y, u, v, l, full, fees, R, N
<1>7. CASE /\ n + 1 <= l /\ (k.reserve >= 0 => rate >= 0)
           /\ j.sumBorrowingFee = k.sumBorrowingFee + fee
  <2>1. /\ \A id \in PositionIds : FullFee(positions, c, y, id)
             = FullFee(positions, c, x, id) + rate * ReserveOf(positions, c, id)
        /\ fee \in Int /\ full(y) - full(x) <= R * (fee + 1)
        /\ fee - (fees(y) - fees(x)) <= N
    <3>1. /\ x \in Int /\ y \in Int /\ k.reserve \in Int
          /\ positions \in [PositionIds -> Positions]
          /\ k.reserve = SumOver(PositionIds, ReservesOf(positions, c))
      BY <1>1, <1>4
    <3> HIDE DEF x, y
    <3> QED BY <3>1, FeesAccrue
  <2>2. v = u + fee BY <1>1, <1>7, <2>1
  <2>3. \A id \in PositionIds : ReserveOf(positions, c, id) \in Nat
    BY DEF Reserved, ReserveOf
  <2>4. rate \in Nat
    <3>1. ReservesOf(positions, c) \in [PositionIds -> Nat] BY <2>3 DEF ReservesOf
    <3>2. k.reserve \in Nat BY <1>4, <3>1, IdsFinite, SumNat
    <3> QED BY <1>1, <1>7, <3>2
  <2>5. ASSUME NEW id \in PositionIds PROVE FullFee(positions, c, y, id) >= 0
    <3> DEFINE f == FullFee(positions, c, x, id)
               r == ReserveOf(positions, c, id)
    <3>1. f \in Int /\ f >= 0 /\ r \in Nat /\ FullFee(positions, c, y, id) = f + rate * r
      BY <1>1, <1>4, <2>1, <2>3, FeesOfAreInts
    <3> HIDE DEF f, r, rate
    <3>2. rate * r \in Nat BY <2>4, <3>1
    <3> QED BY <3>1, <3>2
  <2>6. PICK i \in Nat : l = n + 1 + i
    <3>1. l - (n + 1) \in Nat BY <1>2, <1>7
    <3> QED BY <1>2, <3>1
  <2> HIDE DEF x, y, n, l, u, v, full, fees, R, N, fee
  <2>7. R * (v + l) = R * (u + n) + R * (fee + 1) + R * i
    BY <1>1, <1>2, <1>3, <2>1, <2>2, <2>6
  <2>8. N * l = N * n + N + N * i BY <1>2, <1>3, <2>6
  <2>9. /\ R * i \in Nat /\ N * i \in Nat /\ R * (u + n) \in Int /\ N * n \in Int
        /\ R * (fee + 1) \in Int
    BY <1>1, <1>2, <1>3, <2>1
  <2>10. full(y) <= R * (v + l)
    BY <1>4, <1>5, <2>1, <2>7, <2>9
  <2>11. v <= fees(y) + N * l
    BY <1>1, <1>3, <1>4, <1>5, <2>1, <2>2, <2>8, <2>9
  <2> QED BY <1>1, <1>4, <2>5, <2>10, <2>11 DEF ClassAddsUp, y, v, l, full, fees, R, N
<1> QED BY <1>6, <1>7 DEF BorrowingMoves

(* A position that is as of the present rates owes nothing. *)
UpToDate(q, accrued, rate) ==
  /\ q \in Positions
  /\ q.size # 0 => q.lastFundingAccrued = accrued
  /\ q.reserve # 0 => q.entryBorrowingRate = rate

LEMMA NothingIsNothing == 0 \div RatePrecision = 0 /\ Quotient(0, RatePrecision) = 0
<1> DEFINE R == RatePrecision
           n == 0 \div R
<1>1. R \in Nat \ {0} BY BookAssumption
<1> HIDE DEF R
<1>2. n \in Int /\ R * n <= 0 /\ 0 <= R * n + (R - 1) BY <1>1, FloorIs
<1> HIDE DEF n
<1>3. n <= 0
  <2>1. R * n <= (R - 1) * (0 + 1) BY <1>1, <1>2
  <2> QED BY <1>1, <1>2, <2>1, AtMostWhole
<1>4. -n <= 0
  <2> DEFINE y == -n
  <2>1. y \in Int /\ R * y <= (R - 1) * (0 + 1) BY <1>1, <1>2
  <2> HIDE DEF y
  <2>2. y <= 0 BY <1>1, <2>1, AtMostWhole
  <2> QED BY <2>2 DEF y
<1> QED BY <1>2, <1>3, <1>4 DEF Quotient, R, n

(* The market of a position that becomes q: its size moves with the          *)
(* position's, and what the position owed is settled.                        *)
MarketMoved(k, j, p, q) ==
  /\ j \in MarketRecords /\ j.fundingAccrued = k.fundingAccrued
  /\ j.lastFundingTime = k.lastFundingTime
  /\ \A side \in Sides :
       /\ j.size[side] = k.size[side] - SizeOf(p, side) + SizeOf(q, side)
       /\ j.accumFunding[side] = k.accumFunding[side] - FundingOf(p, k.fundingAccrued, side)

LEMMA MarketMovedKeeps ==
  ASSUME NEW positions \in [PositionIds -> Positions], NEW id \in PositionIds, NEW q,
         NEW m \in Markets, NEW k \in MarketRecords, MarketAddsUp(positions, m, k),
         NEW rate, UpToDate(q, k.fundingAccrued, rate), NEW j,
         IF m = id[2] THEN MarketMoved(k, j, positions[id], q) ELSE j = k
  PROVE  MarketAddsUp([positions EXCEPT ![id] = q], m, j)
<1> DEFINE moved == [positions EXCEPT ![id] = q]
           x == k.fundingAccrued
           b == id[1]
           bound == 2 * Cardinality(SubAccounts) * IntervalsTo(k.lastFundingTime)
<1>1. \A a \in SubAccounts : <<a, m>> \in PositionIds BY DEF PositionIds
<1>2. /\ moved \in [PositionIds -> Positions] /\ moved[id] = q
      /\ \A i \in PositionIds : i # id => moved[i] = positions[i]
  BY DEF UpToDate
<1>3. IsFiniteSet(SubAccounts) BY BookAssumption
<1>4. id = <<id[1], id[2]>> /\ b \in SubAccounts BY DEF PositionIds
<1>5. x \in Int BY DEF MarketRecords
<1> HIDE DEF moved
<1>6. CASE m # id[2]
  <2>1. \A a \in SubAccounts : moved[<<a, m>>] = positions[<<a, m>>]
    BY <1>1, <1>2, <1>4, <1>6
  <2>2. j = k BY <1>6
  <2>3. ASSUME NEW side \in Sides
        PROVE  /\ SizesOf(moved, m, side) = SizesOf(positions, m, side)
               /\ FundingsOf(moved, m, x, side) = FundingsOf(positions, m, x, side)
    BY <2>1 DEF SizesOf, FundingsOf
  <2> QED BY <2>2, <2>3 DEF MarketAddsUp, moved
<1>7. CASE m = id[2]
  <2>1. MarketMoved(k, j, positions[id], q) BY <1>7
  <2>2. \A a \in SubAccounts : a # b => moved[<<a, m>>] = positions[<<a, m>>]
    BY <1>1, <1>2, <1>4
  <2>3. <<b, m>> = id BY <1>4, <1>7
  <2> SUFFICES ASSUME NEW side \in Sides
               PROVE  /\ j.size[side] = SumOver(SubAccounts, SizesOf(moved, m, side))
                      /\ Within(j.accumFunding[side]
                                  - SumOver(SubAccounts, FundingsOf(moved, m, x, side)),
                                bound)
    BY <2>1 DEF MarketAddsUp, MarketMoved, moved
  <2> DEFINE sizes(r) == SizesOf(r, m, side)
             fees(r) == FundingsOf(r, m, x, side)
  <2>4. \A r \in [PositionIds -> Positions] :
           sizes(r) \in [SubAccounts -> Int] /\ fees(r) \in [SubAccounts -> Int]
    BY <1>1, <1>5, PartsAreInts DEF SizesOf, FundingsOf
  <2>5. /\ sizes(positions)[b] = SizeOf(positions[id], side)
        /\ fees(positions)[b] = FundingOf(positions[id], x, side)
        /\ sizes(moved)[b] = SizeOf(q, side) /\ fees(moved)[b] = FundingOf(q, x, side)
    BY <1>2, <1>4, <2>3 DEF SizesOf, FundingsOf
  <2>6. FundingOf(q, x, side) = 0
    <3>1. FullFunding(q, x, side) = 0
      <4>1. q.size \in Int /\ q.lastFundingAccrued \in Int
            /\ (q.size # 0 => q.lastFundingAccrued = x)
        BY DEF UpToDate, Positions
      <4> HIDE DEF x
      <4>2. q.size * (x - q.lastFundingAccrued) = 0
        <5>1. CASE q.size = 0 BY <1>5, <4>1, <5>1
        <5>2. CASE q.size # 0 BY <1>5, <4>1, <5>2
        <5> QED BY <5>1, <5>2
      <4> QED BY <4>2 DEF FullFunding
    <3> QED BY <3>1, NothingIsNothing DEF FundingOf
  <2>7. \A a \in SubAccounts : a # b => /\ sizes(moved)[a] = sizes(positions)[a]
                                        /\ fees(moved)[a] = fees(positions)[a]
    BY <2>2 DEF SizesOf, FundingsOf
  <2>8. /\ k.size[side] = SumOver(SubAccounts, sizes(positions))
        /\ Within(k.accumFunding[side] - SumOver(SubAccounts, fees(positions)), bound)
    BY DEF MarketAddsUp
  <2>9. /\ k.size[side] \in Int /\ k.accumFunding[side] \in Int
    BY DEF MarketRecords
  <2>10. /\ j.size[side] = k.size[side] - SizeOf(positions[id], side) + SizeOf(q, side)
         /\ j.accumFunding[side] = k.accumFunding[side] - FundingOf(positions[id], x, side)
    BY <2>1 DEF MarketMoved
  <2> HIDE DEF sizes, fees, x, b, bound
  <2>11. SumOver(SubAccounts, sizes(moved))
           = SumOver(SubAccounts, sizes(positions)) - sizes(positions)[b] + sizes(moved)[b]
    BY <1>2, <1>3, <1>4, <2>4, <2>7, SumUpdate
  <2>12. SumOver(SubAccounts, fees(moved))
           = SumOver(SubAccounts, fees(positions)) - fees(positions)[b] + fees(moved)[b]
    BY <1>2, <1>3, <1>4, <2>4, <2>7, SumUpdate
  <2>13. fees(positions)[b] \in Int /\ SumOver(SubAccounts, fees(positions)) \in Int
    BY <1>3, <1>4, <2>4, SumInt
  <2>14. j.size[side] = SumOver(SubAccounts, sizes(moved))
    BY <2>5, <2>8, <2>9, <2>10, <2>11
  <2>15. j.accumFunding[side] - SumOver(SubAccounts, fees(moved))
           = k.accumFunding[side] - SumOver(SubAccounts, fees(positions))
    BY <2>5, <2>6, <2>9, <2>10, <2>12, <2>13
  <2>16. Within(j.accumFunding[side] - SumOver(SubAccounts, fees(moved)), bound)
    BY <2>8, <2>15
  <2> QED BY <2>14, <2>16 DEF sizes, fees
<1> QED BY <1>6, <1>7

(* The asset class of a position that becomes q. *)
ClassMoved(k, j, p, q) ==
  /\ j \in ClassRecords /\ j.sumBorrowingRate = k.sumBorrowingRate
  /\ j.lastBorrowingTime = k.lastBorrowingTime
  /\ j.reserve = k.reserve - p.reserve + q.reserve
  /\ j.sumBorrowingFee = k.sumBorrowingFee
  /\ j.sumSettledBorrowingFee =
       k.sumSettledBorrowingFee
         + (p.reserve * (k.sumBorrowingRate - p.entryBorrowingRate)) \div RatePrecision

LEMMA ClassMovedKeeps ==
  ASSUME NEW positions \in [PositionIds -> Positions], NEW id \in PositionIds, NEW q,
         NEW c \in AssetClasses, NEW k \in ClassRecords, ClassAddsUp(positions, c, k),
         NEW accrued, UpToDate(q, accrued, k.sumBorrowingRate), NEW j,
         IF c = assetClass[id[2]] THEN ClassMoved(k, j, positions[id], q) ELSE j = k
  PROVE  ClassAddsUp([positions EXCEPT ![id] = q], c, j)
<1> DEFINE moved == [positions EXCEPT ![id] = q]
           R == RatePrecision
           n == IntervalsTo(k.lastBorrowingTime)
           N == Cardinality(PositionIds)
           u == k.sumBorrowingFee - k.sumSettledBorrowingFee
           v == j.sumBorrowingFee - j.sumSettledBorrowingFee
           x == k.sumBorrowingRate
           reserves(r) == ReservesOf(r, c)
           full(r) == FullFeesOf(r, c, x)
           fees(r) == FeesOf(r, c, x)
           p == positions[id]
           ff == p.reserve * (x - p.entryBorrowingRate)
           bf == ff \div R
<1>1. /\ moved \in [PositionIds -> Positions] /\ moved[id] = q
      /\ \A i \in PositionIds : i # id => moved[i] = positions[i]
  BY DEF UpToDate
<1>2. /\ x \in Int /\ k.reserve \in Int /\ k.sumBorrowingFee \in Int
      /\ k.sumSettledBorrowingFee \in Int /\ u \in Int /\ k.lastBorrowingTime \in Int
  BY DEF ClassRecords
<1>3. R \in Nat \ {0} /\ N \in Nat /\ n \in Int
  BY <1>2, BookAssumption, IdsFinite, FS_CardinalityType, IntervalsAreInts
<1> HIDE DEF moved
<1>4. ASSUME NEW r \in [PositionIds -> Positions]
      PROVE  /\ reserves(r) \in [PositionIds -> Int] /\ full(r) \in [PositionIds -> Int]
             /\ fees(r) \in [PositionIds -> Int]
             /\ SumOver(PositionIds, full(r)) \in Int
             /\ SumOver(PositionIds, fees(r)) \in Int
  <2> HIDE DEF x
  <2> QED BY <1>2, ClassSumsAreInts
<1>5. \A i \in PositionIds : i # id => /\ reserves(moved)[i] = reserves(positions)[i]
                                       /\ full(moved)[i] = full(positions)[i]
                                       /\ fees(moved)[i] = fees(positions)[i]
  BY <1>1 DEF ReservesOf, FullFeesOf, FeesOf, ReserveOf, FullFee, FeeOf
<1>6. /\ k.reserve = SumOver(PositionIds, reserves(positions))
      /\ \A i \in PositionIds : FullFee(positions, c, x, i) >= 0
      /\ SumOver(PositionIds, full(positions)) <= R * (u + n)
      /\ u <= SumOver(PositionIds, fees(positions)) + N * n
  BY DEF ClassAddsUp
<1>7. p.reserve \in Int /\ q.reserve \in Int /\ ff \in Int
  <2>1. p \in Positions OBVIOUS
  <2> QED BY <1>2, <2>1 DEF Positions, UpToDate
<1>8. bf \in Int /\ R * bf <= ff
  <2> HIDE DEF ff, R
  <2> QED BY <1>3, <1>7, FloorIs
<1>9. q.reserve * (x - q.entryBorrowingRate) = 0
  <2>1. q.entryBorrowingRate \in Int /\ (q.reserve # 0 => q.entryBorrowingRate = x)
    BY DEF UpToDate, Positions
  <2> HIDE DEF x
  <2>2. CASE q.reserve = 0 BY <1>2, <2>1, <2>2
  <2>3. CASE q.reserve # 0 BY <1>2, <1>7, <2>1, <2>3
  <2> QED BY <2>2, <2>3
<1>10. \A i \in PositionIds : FullFee(moved, c, x, i) >= 0
  <2> SUFFICES ASSUME NEW i \in PositionIds PROVE FullFee(moved, c, x, i) >= 0 OBVIOUS
  <2>1. CASE i = id BY <1>1, <1>9, <2>1 DEF FullFee
  <2>2. CASE i # id
    <3>1. FullFee(moved, c, x, i) = FullFee(positions, c, x, i)
      BY <1>1, <2>2 DEF FullFee
    <3> QED BY <1>6, <3>1
  <2> QED BY <2>1, <2>2
<1>11. CASE c = assetClass[id[2]]
  <2>1. /\ reserves(positions)[id] = p.reserve /\ reserves(moved)[id] = q.reserve
        /\ full(positions)[id] = ff /\ full(moved)[id] = 0
        /\ fees(positions)[id] = bf /\ fees(moved)[id] = 0
    <3>1. /\ ReserveOf(positions, c, id) = p.reserve /\ ReserveOf(moved, c, id) = q.reserve
          /\ FullFee(positions, c, x, id) = ff /\ FullFee(moved, c, x, id) = 0
      BY <1>1, <1>9, <1>11 DEF ReserveOf, FullFee
    <3>2. FeeOf(positions, c, x, id) = bf /\ FeeOf(moved, c, x, id) = 0
      BY <3>1, NothingIsNothing DEF FeeOf
    <3> QED BY <3>1, <3>2 DEF ReservesOf, FullFeesOf, FeesOf
  <2>2. /\ j.sumBorrowingRate = x /\ j.reserve = k.reserve - p.reserve + q.reserve
        /\ j.lastBorrowingTime = k.lastBorrowingTime
        /\ j.sumBorrowingFee = k.sumBorrowingFee
        /\ j.sumSettledBorrowingFee = k.sumSettledBorrowingFee + bf
    BY <1>11 DEF ClassMoved
  <2>3. v = u - bf BY <1>2, <1>8, <2>2
  <2> HIDE DEF reserves, full, fees, x, p, ff, bf, u, v, n, N, R
  <2>4. SumOver(PositionIds, reserves(moved))
          = SumOver(PositionIds, reserves(positions)) - reserves(positions)[id]
              + reserves(moved)[id]
    BY <1>1, <1>4, <1>5, IdsFinite, SumUpdate
  <2>5. SumOver(PositionIds, full(moved))
          = SumOver(PositionIds, full(positions)) - full(positions)[id] + full(moved)[id]
    BY <1>1, <1>4, <1>5, IdsFinite, SumUpdate
  <2>6. SumOver(PositionIds, fees(moved))
          = SumOver(PositionIds, fees(positions)) - fees(positions)[id] + fees(moved)[id]
    BY <1>1, <1>4, <1>5, IdsFinite, SumUpdate
  <2>7. j.reserve = SumOver(PositionIds, reserves(moved))
    BY <1>2, <1>6, <1>7, <2>1, <2>2, <2>4
  <2>8. SumOver(PositionIds, full(moved)) <= R * (v + n)
    <3> DEFINE sf == SumOver(PositionIds, full(positions))
               sm == SumOver(PositionIds, full(moved))
    <3>1. sf \in Int /\ sm = sf - ff /\ sf <= R * (u + n) BY <1>1, <1>4, <1>6, <1>7, <2>1, <2>5
    <3> HIDE DEF sf, sm
    <3>2. R * (v + n) = R * (u + n) - R * bf BY <1>2, <1>3, <1>8, <2>3
    <3>3. R * (u + n) \in Int /\ R * bf \in Int BY <1>2, <1>3, <1>8
    <3>4. sm <= R * (v + n) BY <1>7, <1>8, <3>1, <3>2, <3>3
    <3> QED BY <3>4 DEF sm
  <2>9. v <= SumOver(PositionIds, fees(moved)) + N * n
    <3> DEFINE sf == SumOver(PositionIds, fees(positions))
               sm == SumOver(PositionIds, fees(moved))
    <3>1. sf \in Int /\ sm = sf - bf /\ u <= sf + N * n BY <1>1, <1>4, <1>6, <1>8, <2>1, <2>6
    <3> HIDE DEF sf, sm
    <3>2. N * n \in Int BY <1>3
    <3>3. v <= sm + N * n BY <1>2, <1>8, <2>3, <3>1, <3>2
    <3> QED BY <3>3 DEF sm
  <2> QED BY <1>10, <2>2, <2>7, <2>8, <2>9
          DEF ClassAddsUp, reserves, full, fees, moved, v, R, N, n, x
<1>12. CASE c # assetClass[id[2]]
  <2>1. j = k BY <1>12
  <2>2. /\ reserves(moved) = reserves(positions) /\ full(moved) = full(positions)
        /\ fees(moved) = fees(positions)
    BY <1>1, <1>12 DEF ReservesOf, FullFeesOf, FeesOf, ReserveOf, FullFee, FeeOf
  <2> HIDE DEF reserves, full, fees
  <2>3. /\ k.reserve = SumOver(PositionIds, reserves(moved))
        /\ SumOver(PositionIds, full(moved)) <= R * (u + n)
        /\ u <= SumOver(PositionIds, fees(moved)) + N * n
    BY <1>6, <2>2
  <2> QED BY <1>10, <2>1, <2>3 DEF ClassAddsUp, reserves, full, fees, moved
<1> QED BY <1>11, <1>12

(* r is b with position id become q, its fees settled. *)
Moved(b, r, id, q) ==
  LET m == id[2]
      c == assetClass[m]
      p == b.positions[id]
  IN  /\ r \in Books /\ r.positions = [b.positions EXCEPT ![id] = q]
      /\ UpToDate(q, b.markets[m].fundingAccrued, b.classes[c].sumBorrowingRate)
      /\ q.reserve \in Nat /\ (q.size = 0 => q.reserve = 0)
      /\ \A n \in Markets : n # m => r.markets[n] = b.markets[n]
      /\ \A d \in AssetClasses : d # c => r.classes[d] = b.classes[d]
      /\ MarketMoved(b.markets[m], r.markets[m], p, q)
      /\ ClassMoved(b.classes[c], r.classes[c], p, q)
      /\ r.reserve = b.reserve - p.reserve + q.reserve

LEMMA MovedKeeps ==
  ASSUME NEW b \in Books, Totals(b), NEW id \in PositionIds, NEW q, NEW r,
         Moved(b, r, id, q)
  PROVE  Totals(r)
<1> DEFINE m == id[2]
           c == assetClass[m]
           p == b.positions[id]
           accrued == b.markets[m].fundingAccrued
           rate == b.classes[c].sumBorrowingRate
<1>1. m \in Markets /\ c \in AssetClasses BY FeesAreInts
<1>2. /\ r \in Books /\ r.positions = [b.positions EXCEPT ![id] = q]
      /\ UpToDate(q, accrued, rate)
      /\ \A n \in Markets : n # m => r.markets[n] = b.markets[n]
      /\ \A d \in AssetClasses : d # c => r.classes[d] = b.classes[d]
      /\ MarketMoved(b.markets[m], r.markets[m], p, q)
      /\ ClassMoved(b.classes[c], r.classes[c], p, q)
      /\ r.reserve = b.reserve - p.reserve + q.reserve
  BY DEF Moved
<1>3. b.positions \in [PositionIds -> Positions] BY DEF Books
<1>4. Reserved(r.positions)
  BY <1>2, <1>3 DEF Totals, Reserved, Moved
<1>5. ASSUME NEW n \in Markets PROVE MarketAddsUp(r.positions, n, r.markets[n])
  <2>1. b.markets[n] \in MarketRecords BY DEF Books
  <2>2. MarketAddsUp(b.positions, n, b.markets[n]) BY DEF Totals
  <2>3. IF n = id[2] THEN MarketMoved(b.markets[n], r.markets[n], b.positions[id], q)
        ELSE r.markets[n] = b.markets[n]
    BY <1>2
  <2>4. CASE n = m
    <3>1. UpToDate(q, b.markets[n].fundingAccrued, rate) BY <1>2, <2>4
    <3> HIDE DEF m, c, p, accrued, rate
    <3>2. MarketAddsUp([b.positions EXCEPT ![id] = q], n, r.markets[n])
      BY <1>3, <2>1, <2>2, <2>3, <3>1, MarketMovedKeeps
    <3> QED BY <1>2, <3>2
  <2>5. CASE n # m
    <3>1. \A a \in SubAccounts : <<a, n>> \in PositionIds /\ <<a, n>> # id
      BY <2>5 DEF PositionIds
    <3>2. \A a \in SubAccounts : r.positions[<<a, n>>] = b.positions[<<a, n>>]
      BY <1>2, <1>3, <3>1
    <3>3. ASSUME NEW side, NEW x
          PROVE  /\ SizesOf(r.positions, n, side) = SizesOf(b.positions, n, side)
                 /\ FundingsOf(r.positions, n, x, side) = FundingsOf(b.positions, n, x, side)
      BY <3>2 DEF SizesOf, FundingsOf
    <3> QED BY <1>2, <2>2, <2>5, <3>3 DEF MarketAddsUp
  <2> QED BY <2>4, <2>5
<1>6. ASSUME NEW d \in AssetClasses PROVE ClassAddsUp(r.positions, d, r.classes[d])
  <2>1. b.classes[d] \in ClassRecords BY DEF Books
  <2>2. ClassAddsUp(b.positions, d, b.classes[d]) BY DEF Totals
  <2>3. CASE d = c
    <3>1. /\ UpToDate(q, accrued, b.classes[d].sumBorrowingRate)
          /\ d = assetClass[id[2]]
          /\ ClassMoved(b.classes[d], r.classes[d], b.positions[id], q)
      BY <1>2, <2>3
    <3> HIDE DEF m, c, p, accrued, rate
    <3>2. ClassAddsUp([b.positions EXCEPT ![id] = q], d, r.classes[d])
      BY <1>3, <2>1, <2>2, <3>1, ClassMovedKeeps
    <3> QED BY <1>2, <3>2
  <2>4. CASE d # c
    <3> DEFINE x == b.classes[d].sumBorrowingRate
    <3>1. \A i \in PositionIds :
            /\ ReserveOf(r.positions, d, i) = ReserveOf(b.positions, d, i)
            /\ FullFee(r.positions, d, x, i) = FullFee(b.positions, d, x, i)
      BY <1>2, <1>3, <2>4 DEF ReserveOf, FullFee
    <3>2. /\ ReservesOf(r.positions, d) = ReservesOf(b.positions, d)
          /\ FullFeesOf(r.positions, d, x) = FullFeesOf(b.positions, d, x)
          /\ FeesOf(r.positions, d, x) = FeesOf(b.positions, d, x)
      BY <3>1 DEF ReservesOf, FullFeesOf, FeesOf, FeeOf
    <3> QED BY <1>2, <2>2, <2>4, <3>1, <3>2 DEF ClassAddsUp
  <2> QED BY <2>3, <2>4
<1>7. r.reserve = SumOver(AssetClasses, [d \in AssetClasses |-> r.classes[d].reserve])
  <2> DEFINE f == [d \in AssetClasses |-> b.classes[d].reserve]
             h == [d \in AssetClasses |-> r.classes[d].reserve]
  <2>1. f \in [AssetClasses -> Int] /\ h \in [AssetClasses -> Int]
    <3>1. \A d \in AssetClasses : b.classes[d] \in ClassRecords /\ r.classes[d] \in ClassRecords
      BY <1>2 DEF Books
    <3> QED BY <3>1 DEF ClassRecords
  <2>2. \A d \in AssetClasses : d # c => h[d] = f[d] BY <1>2
  <2>3. h[c] = f[c] - p.reserve + q.reserve BY <1>1, <1>2 DEF ClassMoved
  <2>4. b.reserve = SumOver(AssetClasses, f) BY DEF Totals
  <2>5. p.reserve \in Int /\ q.reserve \in Int /\ b.reserve \in Int /\ f[c] \in Int
    <3>1. p \in Positions BY DEF Books
    <3> QED BY <1>1, <1>2, <2>1, <3>1 DEF Positions, UpToDate, Books
  <2>6. IsFiniteSet(AssetClasses) BY BookAssumption
  <2> HIDE DEF f, h, p, c
  <2>7. SumOver(AssetClasses, h) = SumOver(AssetClasses, f) - f[c] + h[c]
    BY <1>1, <2>1, <2>2, <2>6, SumUpdate
  <2>8. r.reserve = SumOver(AssetClasses, h)
    BY <1>2, <2>3, <2>4, <2>5, <2>7
  <2> QED BY <2>8 DEF h
<1> QED BY <1>4, <1>5, <1>6, <1>7 DEF Totals

-----------------------------------------------------------------------------
(* The lists. *)

Distinct(list) == \A i, j \in DOMAIN list : list[i] = list[j] => i = j
Listed(list, id) == \E i \in DOMAIN list : list[i] = id

(* Every open position is on its sub-account's list, once, and in the sets.  *)
ListsExact(b) ==
  /\ \A a \in SubAccounts : Distinct(b.subAccountPositionIds[a])
  /\ \A a \in SubAccounts, id \in PositionIds :
       Listed(b.subAccountPositionIds[a], id) <=> id[1] = a /\ b.positions[id].size # 0
  /\ b.activePositionIds = {id \in PositionIds : b.positions[id].size # 0}
  /\ b.activeSubAccounts =
       {a \in SubAccounts : \E id \in PositionIds : id[1] = a /\ b.positions[id].size # 0}

LEMMA AppendIs ==
  ASSUME NEW list \in Seq(PositionIds), Distinct(list), NEW id \in PositionIds,
         ~Listed(list, id)
  PROVE  LET r == Append(list, id)
         IN  /\ r \in Seq(PositionIds) /\ Distinct(r)
             /\ \A i \in PositionIds : Listed(r, i) <=> i = id \/ Listed(list, i)
<1> DEFINE n == Len(list)
           r == Append(list, id)
<1>1. n \in Nat /\ DOMAIN list = 1 .. n OBVIOUS
<1>2. /\ r \in Seq(PositionIds) /\ DOMAIN r = 1 .. n + 1 /\ r[n + 1] = id
      /\ \A i \in 1 .. n : r[i] = list[i]
  OBVIOUS
<1> HIDE DEF n, r
<1>3. Distinct(r) BY <1>1, <1>2 DEF Distinct, Listed
<1>4. ASSUME NEW i \in PositionIds PROVE Listed(r, i) <=> i = id \/ Listed(list, i)
  <2>1. ASSUME i = id PROVE Listed(r, i)
    BY <1>1, <1>2, <2>1 DEF Listed
  <2>2. ASSUME Listed(list, i) PROVE Listed(r, i)
    <3>1. PICK j \in 1 .. n : list[j] = i BY <1>1, <2>2 DEF Listed
    <3>2. j \in 1 .. n + 1 /\ r[j] = i BY <1>1, <1>2, <3>1
    <3> QED BY <1>2, <3>2 DEF Listed
  <2>3. ASSUME Listed(r, i) PROVE i = id \/ Listed(list, i)
    <3>1. PICK j \in 1 .. n + 1 : r[j] = i BY <1>2, <2>3 DEF Listed
    <3>2. CASE j = n + 1 BY <1>2, <3>1, <3>2
    <3>3. CASE j # n + 1
      <4>1. j \in 1 .. n BY <1>1, <3>3
      <4>2. list[j] = i BY <1>2, <3>1, <4>1
      <4> QED BY <1>1, <4>1, <4>2 DEF Listed
    <3> QED BY <3>2, <3>3
  <2> QED BY <2>1, <2>2, <2>3
<1> QED BY <1>2, <1>3, <1>4 DEF r

(* Swapping with the last and popping removes the position and no other. *)
LEMMA SwapWithLastAndPopIs ==
  ASSUME NEW list \in Seq(PositionIds), Distinct(list), NEW id \in PositionIds,
         Listed(list, id)
  PROVE  LET r == SwapWithLastAndPop(list, id)
         IN  /\ r \in Seq(PositionIds) /\ Distinct(r)
             /\ \A i \in PositionIds : Listed(r, i) <=> i # id /\ Listed(list, i)
<1> DEFINE n == Len(list)
           r == SwapWithLastAndPop(list, id)
<1>1. n \in Nat /\ DOMAIN list = 1 .. n /\ \A i \in 1 .. n : list[i] \in PositionIds
  OBVIOUS
<1>2. r = [j \in 1 .. n - 1 |-> IF list[j] = id THEN list[n] ELSE list[j]]
  BY DEF SwapWithLastAndPop
<1> HIDE DEF n, r
<1>3. PICK k \in 1 .. n : list[k] = id BY <1>1 DEF Listed
<1>4. n - 1 \in Nat /\ n \in 1 .. n BY <1>1, <1>3
<1>5. \A j \in 1 .. n : list[j] = id <=> j = k BY <1>1, <1>3 DEF Distinct
<1>6. \A j \in 1 .. n - 1 : /\ r[j] = (IF j = k THEN list[n] ELSE list[j])
                            /\ r[j] \in PositionIds
  BY <1>1, <1>2, <1>4, <1>5
<1>7. r \in [1 .. n - 1 -> PositionIds] BY <1>2, <1>6
<1>8. r \in Seq(PositionIds) /\ DOMAIN r = 1 .. n - 1
  BY <1>4, <1>7, SeqDef
<1>9. Distinct(r)
  <2> SUFFICES ASSUME NEW i \in 1 .. n - 1, NEW j \in 1 .. n - 1, r[i] = r[j] PROVE i = j
    BY <1>8 DEF Distinct
  <2>1. i \in 1 .. n /\ j \in 1 .. n /\ i # n /\ j # n BY <1>1
  <2> QED BY <1>1, <1>4, <1>6, <2>1 DEF Distinct
<1>10. ASSUME NEW i \in PositionIds, Listed(r, i) PROVE i # id /\ Listed(list, i)
  <2>1. PICK j \in 1 .. n - 1 : r[j] = i BY <1>8, <1>10 DEF Listed
  <2>2. j \in 1 .. n /\ j # n BY <1>1
  <2>3. CASE j = k
    <3>1. i = list[n] /\ k # n BY <1>6, <2>1, <2>2, <2>3
    <3> QED BY <1>1, <1>4, <1>5, <3>1 DEF Listed
  <2>4. CASE j # k
    <3>1. i = list[j] BY <1>6, <2>1, <2>4
    <3> QED BY <1>1, <1>5, <2>2, <2>4, <3>1 DEF Listed
  <2> QED BY <2>3, <2>4
<1>11. ASSUME NEW i \in PositionIds, i # id, Listed(list, i) PROVE Listed(r, i)
  <2>1. PICK j \in 1 .. n : list[j] = i BY <1>1, <1>11 DEF Listed
  <2>2. j # k BY <1>3, <1>11, <2>1
  <2>3. CASE j = n
    <3>1. k \in 1 .. n - 1 BY <1>1, <2>2, <2>3
    <3>2. r[k] = i BY <1>6, <2>1, <2>3, <3>1
    <3> QED BY <1>8, <3>1, <3>2 DEF Listed
  <2>4. CASE j # n
    <3>1. j \in 1 .. n - 1 BY <1>1, <2>4
    <3>2. r[j] = i BY <1>6, <2>1, <2>2, <3>1
    <3> QED BY <1>8, <3>1, <3>2 DEF Listed
  <2> QED BY <2>3, <2>4
<1> QED BY <1>8, <1>9, <1>10, <1>11 DEF r

(* What changes when the position id becomes q, and no total does yet. *)
Saved(b, r, id, q) ==
  /\ r \in Books /\ r.positions = [b.positions EXCEPT ![id] = q]
  /\ r.markets = b.markets /\ r.classes = b.classes /\ r.reserve = b.reserve

LEMMA SetList ==
  ASSUME NEW b \in Books, NEW a \in SubAccounts, NEW e
  PROVE  [b EXCEPT !.subAccountPositionIds[a] = e] =
           BookOf(b.positions, [b.subAccountPositionIds EXCEPT ![a] = e],
                  b.activePositionIds, b.activeSubAccounts, b.markets, b.classes, b.reserve)
<1> DEFINE lists == [b.subAccountPositionIds EXCEPT ![a] = e]
<1>1. [b EXCEPT !.subAccountPositionIds[a] = e] = [b EXCEPT !.subAccountPositionIds = lists]
  BY Zenon
<1> HIDE DEF lists
<1>2. [b EXCEPT !.subAccountPositionIds = lists] =
        BookOf(b.positions, lists, b.activePositionIds, b.activeSubAccounts, b.markets,
               b.classes, b.reserve)
  BY DEF Books, BookOf
<1> QED BY <1>1, <1>2 DEF lists

LEMMA SetActiveIds ==
  ASSUME NEW b \in Books, NEW e
  PROVE  [b EXCEPT !.activePositionIds = e] =
           BookOf(b.positions, b.subAccountPositionIds, e, b.activeSubAccounts,
                  b.markets, b.classes, b.reserve)
BY DEF Books, BookOf

LEMMA SetActiveSubAccounts ==
  ASSUME NEW b \in Books, NEW e
  PROVE  [b EXCEPT !.activeSubAccounts = e] =
           BookOf(b.positions, b.subAccountPositionIds, b.activePositionIds, e,
                  b.markets, b.classes, b.reserve)
BY DEF Books, BookOf

(* savePosition of a position that is open. *)
LEMMA savePositionIs ==
  ASSUME NEW b \in Books, ListsExact(b), NEW id \in PositionIds,
         NEW q \in Positions, q.size # 0
  PROVE  LET r == savePosition(b, id, q)
         IN  Saved(b, r, id, q) /\ ListsExact(r)
<1> DEFINE a == id[1]
           list == b.subAccountPositionIds[a]
           positions == [b.positions EXCEPT ![id] = q]
           new == b.positions[id].size = 0
           appended == [b EXCEPT !.subAccountPositionIds[a] = Append(@, id)]
           active == [appended EXCEPT !.activePositionIds = @ \cup {id}]
           listed == [active EXCEPT !.activeSubAccounts = @ \cup {a}]
           s == IF new THEN listed ELSE b
           r == [s EXCEPT !.positions[id] = q]
<1>1. a \in SubAccounts /\ list \in Seq(PositionIds) BY DEF PositionIds, Books
<1>2. positions \in [PositionIds -> Positions] /\ positions[id] = q
      /\ \A i \in PositionIds : i # id => positions[i] = b.positions[i]
  BY DEF Books
<1>3. savePosition(b, id, q) = r BY Zenon DEF savePosition
<1>4. CASE new
  <2> DEFINE lists == [b.subAccountPositionIds EXCEPT ![a] = Append(list, id)]
             ids == b.activePositionIds \cup {id}
             subs == b.activeSubAccounts \cup {a}
  <2>1. ~Listed(list, id) BY <1>1, <1>4 DEF ListsExact
  <2>2. /\ Append(list, id) \in Seq(PositionIds) /\ Distinct(Append(list, id))
        /\ \A i \in PositionIds : Listed(Append(list, id), i) <=> i = id \/ Listed(list, i)
    BY <1>1, <2>1, AppendIs DEF ListsExact
  <2>3. /\ lists \in [SubAccounts -> Seq(PositionIds)] /\ lists[a] = Append(list, id)
        /\ \A d \in SubAccounts : d # a => lists[d] = b.subAccountPositionIds[d]
    BY <1>1, <2>2 DEF Books
  <2>4. ids \subseteq PositionIds /\ subs \subseteq SubAccounts BY <1>1 DEF Books
  <2>5. appended = BookOf(b.positions, lists, b.activePositionIds, b.activeSubAccounts,
                          b.markets, b.classes, b.reserve)
    BY <1>1, SetList
  <2>6. s = listed BY <1>4
  <2> HIDE DEF lists, appended
  <2>7. appended \in Books BY <2>3, <2>5 DEF Books, BookOf
  <2>8. active = BookOf(b.positions, lists, ids, b.activeSubAccounts, b.markets,
                        b.classes, b.reserve)
    BY <2>5, <2>7, SetActiveIds DEF BookOf
  <2> HIDE DEF active, ids
  <2>9. active \in Books BY <2>3, <2>4, <2>8 DEF Books, BookOf
  <2>10. listed = BookOf(b.positions, lists, ids, subs, b.markets, b.classes, b.reserve)
    BY <2>8, <2>9, SetActiveSubAccounts DEF BookOf
  <2> HIDE DEF listed, s, subs
  <2>11. s \in Books BY <2>3, <2>4, <2>6, <2>10 DEF Books, BookOf
  <2>12. s.positions = b.positions BY <2>6, <2>10 DEF BookOf
  <2>13. r = BookOf(positions, lists, ids, subs, b.markets, b.classes, b.reserve)
    BY <2>6, <2>10, <2>11, <2>12, SetPositions DEF BookOf
  <2> HIDE DEF r, positions
  <2>14. r \in Books BY <1>2, <2>3, <2>4, <2>13 DEF Books, BookOf
  <2>15. /\ r.positions = positions /\ r.subAccountPositionIds = lists
         /\ r.activePositionIds = ids /\ r.activeSubAccounts = subs
         /\ r.markets = b.markets /\ r.classes = b.classes /\ r.reserve = b.reserve
    BY <2>13 DEF BookOf
  <2>16. Saved(b, r, id, q) BY <2>14, <2>15 DEF Saved, positions
  <2>17. ListsExact(r)
    <3>1. ASSUME NEW d \in SubAccounts PROVE Distinct(lists[d])
      <4>1. CASE d = a
        <5>1. lists[d] = Append(list, id) BY <2>3, <4>1
        <5> HIDE DEF list
        <5> QED BY <2>2, <5>1
      <4>2. CASE d # a
        <5>1. lists[d] = b.subAccountPositionIds[d] BY <2>3, <4>2
        <5> QED BY <5>1 DEF ListsExact
      <4> QED BY <4>1, <4>2
    <3>2. ASSUME NEW d \in SubAccounts, NEW i \in PositionIds
          PROVE  Listed(lists[d], i) <=> i[1] = d /\ positions[i].size # 0
      <4>1. CASE d = a
        <5>1. lists[d] = Append(list, id) BY <2>3, <4>1
        <5>2. Listed(list, i) <=> i[1] = a /\ b.positions[i].size # 0
          BY <1>1 DEF ListsExact
        <5>3. IF i = id THEN i[1] = a /\ positions[i].size # 0
              ELSE positions[i] = b.positions[i]
          BY <1>2
        <5> HIDE DEF list, a
        <5>4. Listed(lists[d], i) <=> i = id \/ Listed(list, i) BY <2>2, <5>1
        <5> QED BY <4>1, <5>2, <5>3, <5>4
      <4>2. CASE d # a
        <5>1. lists[d] = b.subAccountPositionIds[d] BY <2>3, <4>2
        <5>2. Listed(lists[d], i) <=> i[1] = d /\ b.positions[i].size # 0
          BY <5>1 DEF ListsExact
        <5>3. i[1] = d => positions[i] = b.positions[i] BY <1>2, <4>2
        <5>4. id[1] # d BY <4>2
        <5>5. i = id => i[1] # d BY <5>4
        <5> HIDE DEF a
        <5> QED BY <5>2, <5>3, <5>5
      <4> QED BY <4>1, <4>2
    <3>3. ids = {i \in PositionIds : positions[i].size # 0}
      BY <1>2 DEF ListsExact, ids
    <3>4. subs = {d \in SubAccounts :
                    \E i \in PositionIds : i[1] = d /\ positions[i].size # 0}
      BY <1>1, <1>2, <1>4 DEF ListsExact, subs
    <3> QED BY <2>15, <3>1, <3>2, <3>3, <3>4 DEF ListsExact
  <2> QED BY <1>3, <2>16, <2>17
<1>5. CASE ~new
  <2>1. s = b BY <1>5
  <2>2. r = BookOf(positions, b.subAccountPositionIds, b.activePositionIds,
                   b.activeSubAccounts, b.markets, b.classes, b.reserve)
    BY <2>1, SetPositions
  <2> HIDE DEF r, positions
  <2>3. r \in Books BY <1>2, <2>2 DEF Books, BookOf
  <2>4. /\ r.positions = positions /\ r.subAccountPositionIds = b.subAccountPositionIds
        /\ r.activePositionIds = b.activePositionIds
        /\ r.activeSubAccounts = b.activeSubAccounts
        /\ r.markets = b.markets /\ r.classes = b.classes /\ r.reserve = b.reserve
    BY <2>2 DEF BookOf
  <2>5. Saved(b, r, id, q) BY <2>3, <2>4 DEF Saved, positions
  <2>6. \A i \in PositionIds : positions[i].size # 0 <=> b.positions[i].size # 0
    BY <1>2, <1>5
  <2>7. ListsExact(r) BY <2>4, <2>6 DEF ListsExact
  <2> QED BY <1>3, <2>5, <2>7
<1> QED BY <1>4, <1>5

(* The lists of a sub-account that may have closed its last position. *)
ExactBut(b, a) ==
  /\ \A d \in SubAccounts : Distinct(b.subAccountPositionIds[d])
  /\ \A d \in SubAccounts, id \in PositionIds :
       Listed(b.subAccountPositionIds[d], id) <=> id[1] = d /\ b.positions[id].size # 0
  /\ b.activePositionIds = {id \in PositionIds : b.positions[id].size # 0}
  /\ \A d \in SubAccounts :
       d \in b.activeSubAccounts <=>
         d = a \/ \E id \in PositionIds : id[1] = d /\ b.positions[id].size # 0

SameBook(b, r) ==
  /\ r \in Books /\ r.positions = b.positions
  /\ r.markets = b.markets /\ r.classes = b.classes /\ r.reserve = b.reserve

(* A sub-account without a position left is no longer active. *)
LEMMA InactiveIs ==
  ASSUME NEW b \in Books, NEW a \in SubAccounts, ListsExact(b) \/ ExactBut(b, a)
  PROVE  LET r == IF b.subAccountPositionIds[a] = <<>>
                  THEN [b EXCEPT !.activeSubAccounts = @ \ {a}] ELSE b
         IN  SameBook(b, r) /\ ListsExact(r)
<1> DEFINE list == b.subAccountPositionIds[a]
           subs == b.activeSubAccounts \ {a}
           s == [b EXCEPT !.activeSubAccounts = subs]
           r == IF list = <<>> THEN [b EXCEPT !.activeSubAccounts = @ \ {a}] ELSE b
           open(d) == \E id \in PositionIds : id[1] = d /\ b.positions[id].size # 0
<1>1. list \in Seq(PositionIds) BY DEF Books
<1>2. \A id \in PositionIds : Listed(list, id) <=> id[1] = a /\ b.positions[id].size # 0
  BY DEF ListsExact, ExactBut
<1>3. list = <<>> <=> ~ open(a)
  <2>1. ASSUME list = <<>> PROVE ~ open(a)
    BY <1>2, <2>1 DEF Listed
  <2>2. ASSUME list # <<>> PROVE open(a)
    <3>1. 1 \in DOMAIN list /\ list[1] \in PositionIds BY <1>1, <2>2
    <3>2. Listed(list, list[1]) BY <3>1 DEF Listed
    <3> QED BY <1>2, <3>1, <3>2
  <2> QED BY <2>1, <2>2
<1>4. \A d \in SubAccounts : d # a => (d \in b.activeSubAccounts <=> open(d))
  BY DEF ListsExact, ExactBut
<1>5. b.activeSubAccounts \subseteq SubAccounts BY DEF Books
<1>6. CASE list = <<>>
  <2>1. r = s BY <1>6
  <2>2. s = BookOf(b.positions, b.subAccountPositionIds, b.activePositionIds, subs,
                   b.markets, b.classes, b.reserve)
    BY SetActiveSubAccounts
  <2>3. subs = {d \in SubAccounts : open(d)} BY <1>3, <1>4, <1>5, <1>6
  <2>4. subs \subseteq SubAccounts BY <1>5
  <2> HIDE DEF r, s, subs, list
  <2>5. s \in Books BY <2>2, <2>4 DEF Books, BookOf
  <2>6. /\ SameBook(b, s) /\ s.subAccountPositionIds = b.subAccountPositionIds
        /\ s.activePositionIds = b.activePositionIds /\ s.activeSubAccounts = subs
    BY <2>2, <2>5 DEF BookOf, SameBook
  <2>7. ListsExact(s)
    <3>1. /\ \A d \in SubAccounts : Distinct(s.subAccountPositionIds[d])
          /\ \A d \in SubAccounts, id \in PositionIds :
               Listed(s.subAccountPositionIds[d], id)
                 <=> id[1] = d /\ s.positions[id].size # 0
          /\ s.activePositionIds = {id \in PositionIds : s.positions[id].size # 0}
      BY <2>6 DEF ListsExact, ExactBut, SameBook
    <3>2. s.activeSubAccounts =
            {d \in SubAccounts : \E id \in PositionIds :
               id[1] = d /\ s.positions[id].size # 0}
      BY <2>3, <2>6 DEF SameBook
    <3> QED BY <3>1, <3>2 DEF ListsExact
  <2> QED BY <2>1, <2>6, <2>7 DEF r, list
<1>7. CASE list # <<>>
  <2>1. r = b BY <1>7
  <2>2. ListsExact(b)
    <3>1. CASE ListsExact(b) BY <3>1
    <3>2. CASE ExactBut(b, a)
      <4>1. b.activeSubAccounts = {d \in SubAccounts : open(d)}
        BY <1>3, <1>4, <1>5, <1>7, <3>2 DEF ExactBut
      <4> QED BY <3>2, <4>1 DEF ExactBut, ListsExact
    <3> QED BY <3>1, <3>2
  <2>3. SameBook(b, b) BY DEF SameBook
  <2> QED BY <2>1, <2>2, <2>3
<1> QED BY <1>6, <1>7

(* removePositionFromSubAccount: the position is closed, if it was not. *)
LEMMA removePositionFromSubAccountIs ==
  ASSUME NEW b \in Books, ListsExact(b), Reserved(b.positions), NEW id \in PositionIds
  PROVE  LET r == removePositionFromSubAccount(b, id)
         IN  \E q \in Positions : /\ q.size = 0 /\ q.reserve = 0
                                  /\ Saved(b, r, id, q) /\ ListsExact(r)
<1> DEFINE a == id[1]
           list == b.subAccountPositionIds[a]
           found == \E i \in DOMAIN list : list[i] = id
           popped == SwapWithLastAndPop(list, id)
           lists == [b.subAccountPositionIds EXCEPT ![a] = popped]
           positions == [b.positions EXCEPT ![id] = NoPosition]
           ids == b.activePositionIds \ {id}
           s1 == [b EXCEPT !.subAccountPositionIds[a] = SwapWithLastAndPop(@, id)]
           s2 == [s1 EXCEPT !.positions[id] = NoPosition]
           s3 == [s2 EXCEPT !.activePositionIds = @ \ {id}]
           end == IF found THEN s3 ELSE b
           r == IF end.subAccountPositionIds[a] = <<>>
                THEN [end EXCEPT !.activeSubAccounts = @ \ {a}] ELSE end
<1>1. a \in SubAccounts /\ list \in Seq(PositionIds) BY DEF PositionIds, Books
<1>2. removePositionFromSubAccount(b, id) = r
  <2> DEFINE removed == [b EXCEPT !.subAccountPositionIds[a] = SwapWithLastAndPop(@, id),
                                  !.positions[id] = NoPosition,
                                  !.activePositionIds = @ \ {id}]
             last == IF found THEN removed ELSE b
  <2>1. removed = s3 BY Zenon
  <2>2. removePositionFromSubAccount(b, id) =
          IF last.subAccountPositionIds[a] = <<>>
          THEN [last EXCEPT !.activeSubAccounts = @ \ {a}] ELSE last
    BY Zenon DEF removePositionFromSubAccount
  <2>3. last = end BY <2>1
  <2> HIDE DEF last, end
  <2> QED BY <2>2, <2>3
<1>3. NoPosition \in Positions /\ NoPosition.size = 0 /\ NoPosition.reserve = 0
  BY DEF NoPosition, Positions
<1>4. CASE found
  <2>1. Listed(list, id) BY <1>4 DEF Listed
  <2>2. /\ popped \in Seq(PositionIds) /\ Distinct(popped)
        /\ \A i \in PositionIds : Listed(popped, i) <=> i # id /\ Listed(list, i)
    <3>1. Distinct(list) BY <1>1 DEF ListsExact
    <3> QED BY <1>1, <2>1, <3>1, SwapWithLastAndPopIs
  <2>3. /\ lists \in [SubAccounts -> Seq(PositionIds)] /\ lists[a] = popped
        /\ \A d \in SubAccounts : d # a => lists[d] = b.subAccountPositionIds[d]
    <3>1. b.subAccountPositionIds \in [SubAccounts -> Seq(PositionIds)] BY DEF Books
    <3> HIDE DEF popped, list
    <3> QED BY <1>1, <2>2, <3>1
  <2>4. /\ positions \in [PositionIds -> Positions] /\ positions[id] = NoPosition
        /\ \A i \in PositionIds : i # id => positions[i] = b.positions[i]
    BY <1>3 DEF Books
  <2>5. ids \subseteq PositionIds BY DEF Books
  <2>6. s1 = BookOf(b.positions, lists, b.activePositionIds, b.activeSubAccounts,
                    b.markets, b.classes, b.reserve)
    <3>1. s1 = [b EXCEPT !.subAccountPositionIds[a] = popped] BY Zenon
    <3> HIDE DEF s1, popped
    <3> QED BY <1>1, <3>1, SetList
  <2>7. end = s3 BY <1>4
  <2> HIDE DEF lists, s1
  <2>8. s1 \in Books BY <2>3, <2>6 DEF Books, BookOf
  <2>9. s2 = [s1 EXCEPT !.positions = [s1.positions EXCEPT ![id] = NoPosition]]
    BY Zenon
  <2>10. s1.positions = b.positions BY <2>6 DEF BookOf
  <2>11. s2 = [s1 EXCEPT !.positions = positions] BY <2>9, <2>10
  <2> HIDE DEF s2, positions
  <2>12. s2 = BookOf(positions, lists, b.activePositionIds, b.activeSubAccounts,
                     b.markets, b.classes, b.reserve)
    BY <2>6, <2>8, <2>11, SetPositions DEF BookOf
  <2>13. s2 \in Books BY <2>3, <2>4, <2>12 DEF Books, BookOf
  <2>14. s3 = BookOf(positions, lists, ids, b.activeSubAccounts, b.markets, b.classes,
                     b.reserve)
    BY <2>12, <2>13, SetActiveIds DEF BookOf
  <2> HIDE DEF s3, end, ids
  <2>15. end \in Books
    BY <2>3, <2>4, <2>5, <2>7, <2>14 DEF Books, BookOf
  <2>16. /\ end.positions = positions /\ end.subAccountPositionIds = lists
         /\ end.activePositionIds = ids /\ end.activeSubAccounts = b.activeSubAccounts
         /\ end.markets = b.markets /\ end.classes = b.classes /\ end.reserve = b.reserve
    BY <2>7, <2>14 DEF BookOf
  <2>17. ExactBut(end, a)
    <3>1. ASSUME NEW d \in SubAccounts PROVE Distinct(lists[d])
      <4> HIDE DEF popped, a
      <4>1. CASE d = a BY <2>2, <2>3, <4>1
      <4>2. CASE d # a BY <2>3, <4>2 DEF ListsExact
      <4> QED BY <4>1, <4>2
    <3>2. ASSUME NEW d \in SubAccounts, NEW i \in PositionIds
          PROVE  Listed(lists[d], i) <=> i[1] = d /\ positions[i].size # 0
      <4>1. CASE d = a
        <5>1. lists[d] = popped BY <2>3, <4>1
        <5>2. Listed(list, i) <=> i[1] = a /\ b.positions[i].size # 0
          BY <1>1 DEF ListsExact
        <5>3. IF i = id THEN positions[i].size = 0 ELSE positions[i] = b.positions[i]
          BY <1>3, <2>4
        <5> HIDE DEF list, a, popped
        <5>4. Listed(lists[d], i) <=> i # id /\ Listed(list, i) BY <2>2, <5>1
        <5> QED BY <4>1, <5>2, <5>3, <5>4
      <4>2. CASE d # a
        <5>1. lists[d] = b.subAccountPositionIds[d] BY <2>3, <4>2
        <5>2. Listed(lists[d], i) <=> i[1] = d /\ b.positions[i].size # 0
          BY <5>1 DEF ListsExact
        <5>3. i[1] = d => positions[i] = b.positions[i] BY <2>4, <4>2
        <5>4. id[1] # d BY <4>2
        <5>5. i = id => i[1] # d BY <5>4
        <5> HIDE DEF a
        <5> QED BY <5>2, <5>3, <5>5
      <4> QED BY <4>1, <4>2
    <3>3. ids = {i \in PositionIds : positions[i].size # 0}
      BY <1>3, <2>4 DEF ListsExact, ids
    <3>4. ASSUME NEW d \in SubAccounts
          PROVE  d \in b.activeSubAccounts <=>
                   d = a \/ \E i \in PositionIds : i[1] = d /\ positions[i].size # 0
      <4>1. d \in b.activeSubAccounts <=>
              \E i \in PositionIds : i[1] = d /\ b.positions[i].size # 0
        BY DEF ListsExact
      <4>2. b.positions[id].size # 0 BY <1>1, <2>1 DEF ListsExact
      <4>3. CASE d = a BY <4>1, <4>2, <4>3
      <4>4. CASE d # a BY <2>4, <4>1, <4>4
      <4> QED BY <4>3, <4>4
    <3> QED BY <2>16, <3>1, <3>2, <3>3, <3>4 DEF ExactBut
  <2>18. SameBook(end, r) /\ ListsExact(r)
    BY <1>1, <2>15, <2>17, InactiveIs
  <2> HIDE DEF r
  <2>19. Saved(b, r, id, NoPosition)
    BY <2>16, <2>18 DEF SameBook, Saved, positions
  <2> QED BY <1>2, <1>3, <2>18, <2>19
<1>5. CASE ~found
  <2>1. end = b BY <1>5
  <2>2. ~Listed(list, id) BY <1>5 DEF Listed
  <2>3. b.positions[id].size = 0 BY <1>1, <2>2 DEF ListsExact
  <2>4. b.positions[id] \in Positions /\ b.positions[id].reserve = 0
    BY <2>3 DEF Books, Reserved
  <2>5. SameBook(end, r) /\ ListsExact(r)
    BY <1>1, <2>1, InactiveIs
  <2>6. b.positions = [b.positions EXCEPT ![id] = b.positions[id]] BY DEF Books
  <2> HIDE DEF r, end
  <2>7. Saved(b, r, id, b.positions[id])
    BY <2>1, <2>5, <2>6 DEF SameBook, Saved
  <2> QED BY <1>2, <2>3, <2>4, <2>5, <2>7
<1> QED BY <1>4, <1>5

-----------------------------------------------------------------------------
(* A change of a position, as increasing, decreasing and liquidating do it:  *)
(* fees settled, the reserve changed by dr, the size of its side by d, and   *)
(* the position then saved or removed.                                       *)

Accounted(b, s, id, dr, side, d) ==
  LET m == id[2]
      c == assetClass[m]
      p == b.positions[id]
      k == b.markets[m]
      h == b.classes[c]
  IN  /\ s \in Books /\ s.positions = b.positions /\ SameLists(b, s)
      /\ s.reserve = b.reserve + dr
      /\ \A n \in Markets : n # m => s.markets[n] = b.markets[n]
      /\ \A e \in AssetClasses : e # c => s.classes[e] = b.classes[e]
      /\ s.markets[m].fundingAccrued = k.fundingAccrued
      /\ s.markets[m].lastFundingTime = k.lastFundingTime
      /\ s.markets[m].size = [k.size EXCEPT ![side] = @ + d]
      /\ s.markets[m].accumFunding =
           [k.accumFunding EXCEPT ![SideOf(p)] = @ - FundingFee(b, id, p)]
      /\ s.classes[c].reserve = h.reserve + dr
      /\ s.classes[c].sumBorrowingRate = h.sumBorrowingRate
      /\ s.classes[c].lastBorrowingTime = h.lastBorrowingTime
      /\ s.classes[c].sumBorrowingFee = h.sumBorrowingFee
      /\ s.classes[c].sumSettledBorrowingFee =
           h.sumSettledBorrowingFee + BorrowingFee(b, id, p)

LEMMA AccountedIs ==
  ASSUME NEW b \in Books, NEW id \in PositionIds, NEW dr \in Int,
         NEW side \in Sides, NEW d \in Int
  PROVE  LET paid == updateFeeStates(b, id, b.positions[id])
             s == ChangeSize(ChangeReserve(paid, assetClass[id[2]], dr), id[2], side, d)
         IN  Accounted(b, s, id, dr, side, d)
<1> DEFINE m == id[2]
           c == assetClass[m]
           p == b.positions[id]
           k == b.markets[m]
           h == b.classes[c]
           bf == BorrowingFee(b, id, p)
           paid == updateFeeStates(b, id, p)
           t == ChangeReserve(paid, c, dr)
           s == ChangeSize(t, m, side, d)
<1>1. m \in Markets /\ c \in AssetClasses /\ bf \in Int BY FeesAreInts
<1>2. /\ paid \in Books /\ paid.positions = b.positions /\ SameLists(b, paid)
      /\ paid.reserve = b.reserve
      /\ \A n \in Markets : n # m => paid.markets[n] = b.markets[n]
      /\ \A e \in AssetClasses : e # c => paid.classes[e] = b.classes[e]
      /\ paid.markets[m].size = k.size
      /\ paid.markets[m].fundingAccrued = k.fundingAccrued
      /\ paid.markets[m].lastFundingTime = k.lastFundingTime
      /\ paid.markets[m].accumFunding =
           [k.accumFunding EXCEPT ![SideOf(p)] = @ - FundingFee(b, id, p)]
      /\ paid.classes[c] = [h EXCEPT !.sumSettledBorrowingFee = @ + bf]
  BY updateFeeStatesIs
<1> HIDE DEF paid
<1>3. /\ OnlyClass(paid, t, c) /\ t.reserve = paid.reserve + dr
      /\ t.classes[c] = [paid.classes[c] EXCEPT !.reserve = @ + dr]
  <2>1. paid \in Books BY <1>2
  <2> HIDE DEF m, c
  <2> QED BY <1>1, <2>1, ChangeReserveIs
<1> HIDE DEF t
<1>4. t \in Books /\ t.markets = paid.markets BY <1>3 DEF OnlyClass
<1>5. /\ OnlyMarket(t, s, m)
      /\ s.markets[m].size = [t.markets[m].size EXCEPT ![side] = @ + d]
      /\ s.markets[m].accumFunding = t.markets[m].accumFunding
      /\ s.markets[m].fundingAccrued = t.markets[m].fundingAccrued
      /\ s.markets[m].lastFundingTime = t.markets[m].lastFundingTime
  BY <1>1, <1>4, ChangeSizeIs
<1> HIDE DEF s
<1>6. h \in ClassRecords BY <1>1 DEF Books
<1>7. LET j == [h EXCEPT !.sumSettledBorrowingFee = @ + bf]
      IN  /\ j \in ClassRecords /\ j.sumSettledBorrowingFee = h.sumSettledBorrowingFee + bf
          /\ j.reserve = h.reserve /\ j.sumBorrowingRate = h.sumBorrowingRate
          /\ j.lastBorrowingTime = h.lastBorrowingTime
          /\ j.sumBorrowingFee = h.sumBorrowingFee
  <2> HIDE DEF h, bf
  <2> QED BY <1>1, <1>6 DEF ClassRecords
<1> HIDE DEF h, bf, k
<1>8. /\ paid.classes[c] \in ClassRecords
      /\ paid.classes[c].sumSettledBorrowingFee = h.sumSettledBorrowingFee + bf
      /\ paid.classes[c].reserve = h.reserve
      /\ paid.classes[c].sumBorrowingRate = h.sumBorrowingRate
      /\ paid.classes[c].lastBorrowingTime = h.lastBorrowingTime
      /\ paid.classes[c].sumBorrowingFee = h.sumBorrowingFee
  BY <1>2, <1>7
<1>9. /\ t.classes[c].reserve = h.reserve + dr
      /\ t.classes[c].sumSettledBorrowingFee = h.sumSettledBorrowingFee + bf
      /\ t.classes[c].sumBorrowingRate = h.sumBorrowingRate
      /\ t.classes[c].lastBorrowingTime = h.lastBorrowingTime
      /\ t.classes[c].sumBorrowingFee = h.sumBorrowingFee
  <2> DEFINE j == paid.classes[c]
  <2>1. LET i == [j EXCEPT !.reserve = @ + dr]
        IN  /\ i.reserve = j.reserve + dr
            /\ i.sumSettledBorrowingFee = j.sumSettledBorrowingFee
            /\ i.sumBorrowingRate = j.sumBorrowingRate
            /\ i.lastBorrowingTime = j.lastBorrowingTime
            /\ i.sumBorrowingFee = j.sumBorrowingFee
    <3>1. j \in ClassRecords BY <1>8
    <3> HIDE DEF j
    <3> QED BY <3>1 DEF ClassRecords
  <2> QED BY <1>3, <1>8, <2>1
<1>10. /\ s \in Books /\ s.positions = b.positions /\ SameLists(b, s)
       /\ s.reserve = b.reserve + dr /\ s.classes = t.classes
       /\ \A n \in Markets : n # m => s.markets[n] = b.markets[n]
       /\ \A e \in AssetClasses : e # c => s.classes[e] = b.classes[e]
  BY <1>2, <1>3, <1>5 DEF OnlyMarket, OnlyClass, SameLists
<1>11. /\ s.markets[m].fundingAccrued = k.fundingAccrued
       /\ s.markets[m].lastFundingTime = k.lastFundingTime
       /\ s.markets[m].size = [k.size EXCEPT ![side] = @ + d]
       /\ s.markets[m].accumFunding =
            [k.accumFunding EXCEPT ![SideOf(p)] = @ - FundingFee(b, id, p)]
  BY <1>2, <1>4, <1>5
<1>12. /\ s.classes[c].reserve = h.reserve + dr
       /\ s.classes[c].sumSettledBorrowingFee = h.sumSettledBorrowingFee + bf
       /\ s.classes[c].sumBorrowingRate = h.sumBorrowingRate
       /\ s.classes[c].lastBorrowingTime = h.lastBorrowingTime
       /\ s.classes[c].sumBorrowingFee = h.sumBorrowingFee
  BY <1>9, <1>10
<1> QED BY Zenon, <1>10, <1>11, <1>12 DEF Accounted, s, t, paid, h, bf, k

(* What a decreased position keeps is reserved again. *)
LEMMA ReservedAgain ==
  ASSUME NEW b, NEW s, NEW id \in PositionIds, NEW dr \in Int, NEW side, NEW d,
         NEW e \in Int, Accounted(b, s, id, dr, side, d), b \in Books
  PROVE  Accounted(b, ReserveAgain(s, assetClass[id[2]], e), id, dr + e, side, d)
<1> DEFINE c == assetClass[id[2]]
           t == ReserveAgain(s, c, e)
           h == b.classes[c]
           j == s.classes[c]
<1>1. c \in AssetClasses /\ s \in Books BY FeesAreInts DEF Accounted
<1>2. /\ OnlyClass(s, t, c) /\ t.reserve = s.reserve + e
      /\ t.classes[c] = [s.classes[c] EXCEPT !.reserve = @ + e]
  BY <1>1, ChangeReserveIs DEF ReserveAgain
<1>3. j \in ClassRecords /\ h \in ClassRecords /\ b.reserve \in Int
  BY <1>1 DEF Books
<1>4. /\ j.reserve = h.reserve + dr /\ j.sumBorrowingRate = h.sumBorrowingRate
      /\ j.lastBorrowingTime = h.lastBorrowingTime
      /\ j.sumBorrowingFee = h.sumBorrowingFee
      /\ j.sumSettledBorrowingFee =
           h.sumSettledBorrowingFee + BorrowingFee(b, id, b.positions[id])
  BY DEF Accounted
<1>5. LET i == [j EXCEPT !.reserve = @ + e]
      IN  /\ i.reserve = h.reserve + (dr + e)
          /\ i.sumSettledBorrowingFee = j.sumSettledBorrowingFee
          /\ i.sumBorrowingRate = j.sumBorrowingRate
          /\ i.lastBorrowingTime = j.lastBorrowingTime
          /\ i.sumBorrowingFee = j.sumBorrowingFee
  <2> HIDE DEF j, h
  <2> QED BY <1>3, <1>4 DEF ClassRecords
<1> HIDE DEF t, h
<1>6. /\ t.classes[c].reserve = h.reserve + (dr + e)
      /\ t.classes[c].sumSettledBorrowingFee = j.sumSettledBorrowingFee
      /\ t.classes[c].sumBorrowingRate = j.sumBorrowingRate
      /\ t.classes[c].lastBorrowingTime = j.lastBorrowingTime
      /\ t.classes[c].sumBorrowingFee = j.sumBorrowingFee
  BY <1>2, <1>5
<1>7. t.reserve = b.reserve + (dr + e)
  BY <1>2, <1>3 DEF Accounted
<1>8. /\ t \in Books /\ t.positions = s.positions /\ SameLists(s, t)
      /\ t.markets = s.markets
      /\ \A x \in AssetClasses : x # c => t.classes[x] = s.classes[x]
  BY <1>2 DEF OnlyClass
<1> HIDE DEF j
<1>9. /\ t.classes[c].reserve = h.reserve + (dr + e)
      /\ t.classes[c].sumBorrowingRate = h.sumBorrowingRate
      /\ t.classes[c].lastBorrowingTime = h.lastBorrowingTime
      /\ t.classes[c].sumBorrowingFee = h.sumBorrowingFee
      /\ t.classes[c].sumSettledBorrowingFee =
           h.sumSettledBorrowingFee + BorrowingFee(b, id, b.positions[id])
  BY <1>4, <1>6
<1>10. /\ s.positions = b.positions /\ SameLists(b, s)
       /\ \A n \in Markets : n # id[2] => s.markets[n] = b.markets[n]
       /\ \A x \in AssetClasses : x # c => s.classes[x] = b.classes[x]
       /\ s.markets[id[2]].fundingAccrued = b.markets[id[2]].fundingAccrued
       /\ s.markets[id[2]].lastFundingTime = b.markets[id[2]].lastFundingTime
       /\ s.markets[id[2]].size = [b.markets[id[2]].size EXCEPT ![side] = @ + d]
       /\ s.markets[id[2]].accumFunding =
            [b.markets[id[2]].accumFunding EXCEPT ![SideOf(b.positions[id])] =
               @ - FundingFee(b, id, b.positions[id])]
  BY Zenon DEF Accounted
<1>11. SameLists(b, t) BY <1>8, <1>10 DEF SameLists
<1>12. /\ t.positions = b.positions
       /\ \A x \in AssetClasses : x # c => t.classes[x] = b.classes[x]
  BY <1>8, <1>10
<1> QED BY Zenon, <1>7, <1>8, <1>9, <1>10, <1>11, <1>12 DEF Accounted, h, t

(* The accounted sizes and reserves being those of what is saved, all of it  *)
(* moves the position.                                                       *)
LEMMA AccountedMoves ==
  ASSUME NEW b \in Books, NEW s, NEW r, NEW id \in PositionIds, NEW dr \in Int,
         NEW side \in Sides, NEW d \in Int, NEW q,
         Accounted(b, s, id, dr, side, d), Saved(s, r, id, q),
         UpToDate(q, b.markets[id[2]].fundingAccrued,
                  b.classes[assetClass[id[2]]].sumBorrowingRate),
         q.reserve \in Nat, q.size = 0 => q.reserve = 0,
         q.reserve = b.positions[id].reserve + dr,
         \A x \in Sides : SizeOf(q, x) = SizeOf(b.positions[id], x)
                                           + (IF x = side THEN d ELSE 0)
  PROVE  Moved(b, r, id, q)
<1> DEFINE m == id[2]
           c == assetClass[m]
           p == b.positions[id]
           k == b.markets[m]
           j == r.markets[m]
           ff == FundingFee(b, id, p)
<1>1. m \in Markets /\ c \in AssetClasses /\ ff \in Int /\ SideOf(p) \in Sides
  BY FeesAreInts
<1>2. p \in Positions /\ k \in MarketRecords /\ b.classes[c] \in ClassRecords
      /\ b.reserve \in Int
  BY <1>1 DEF Books
<1>3. p.reserve \in Int /\ p.size \in Int BY <1>2 DEF Positions
<1>4. r \in Books /\ j \in MarketRecords /\ r.classes[c] \in ClassRecords
  BY <1>1 DEF Saved, Books
<1>5. MarketMoved(k, j, p, q)
  <2>1. /\ j.fundingAccrued = k.fundingAccrued
        /\ j.lastFundingTime = k.lastFundingTime
        /\ j.size = [k.size EXCEPT ![side] = @ + d]
        /\ j.accumFunding = [k.accumFunding EXCEPT ![SideOf(p)] = @ - ff]
    BY DEF Accounted, Saved
  <2>2. k.size \in [Sides -> Int] /\ k.accumFunding \in [Sides -> Int]
    BY <1>2 DEF MarketRecords
  <2> SUFFICES ASSUME NEW x \in Sides
               PROVE  /\ j.size[x] = k.size[x] - SizeOf(p, x) + SizeOf(q, x)
                      /\ j.accumFunding[x] = k.accumFunding[x]
                                               - FundingOf(p, k.fundingAccrued, x)
    <3> HIDE DEF j, k, p
    <3> QED BY <1>4, <2>1 DEF MarketMoved
  <2>3. FundingOf(p, k.fundingAccrued, x) = IF SideOf(p) = x THEN ff ELSE 0
    <3>1. FundingFee(b, id, p) = Quotient(p.size * (k.fundingAccrued - p.lastFundingAccrued),
                                          RatePrecision)
      BY DEF FundingFee, getFundingFee
    <3> QED BY <3>1, NothingIsNothing DEF FundingOf, FullFunding
  <2>4. SizeOf(p, x) \in Int BY <1>3 DEF SizeOf, Abs
  <2>5. SizeOf(q, x) = SizeOf(p, x) + (IF x = side THEN d ELSE 0) OBVIOUS
  <2>6. k.size[x] \in Int /\ k.accumFunding[x] \in Int BY <2>2
  <2>7. j.size[x] = k.size[x] + (IF x = side THEN d ELSE 0)
    BY <2>1, <2>2, <2>6
  <2>8. j.accumFunding[x] = k.accumFunding[x] - (IF SideOf(p) = x THEN ff ELSE 0)
    BY <1>1, <2>1, <2>2, <2>6
  <2> HIDE DEF j, k, p, ff
  <2> QED BY <2>3, <2>4, <2>5, <2>6, <2>7, <2>8
<1>6. ClassMoved(b.classes[c], r.classes[c], p, q)
  <2> DEFINE h == b.classes[c]
             i == r.classes[c]
  <2>1. /\ i.reserve = h.reserve + dr /\ i.sumBorrowingRate = h.sumBorrowingRate
        /\ i.lastBorrowingTime = h.lastBorrowingTime
        /\ i.sumBorrowingFee = h.sumBorrowingFee
        /\ i.sumSettledBorrowingFee = h.sumSettledBorrowingFee + BorrowingFee(b, id, p)
    BY DEF Accounted, Saved
  <2>2. BorrowingFee(b, id, p)
          = (p.reserve * (h.sumBorrowingRate - p.entryBorrowingRate)) \div RatePrecision
    BY DEF BorrowingFee
  <2>3. h.reserve \in Int BY <1>2 DEF ClassRecords
  <2>4. i.reserve = h.reserve - p.reserve + q.reserve
    BY <1>3, <2>1, <2>3
  <2> QED BY <1>4, <2>1, <2>2, <2>4 DEF ClassMoved
<1>7. r.reserve = b.reserve - p.reserve + q.reserve
  <2>1. r.reserve = b.reserve + dr BY DEF Accounted, Saved
  <2> QED BY <1>2, <1>3, <2>1
<1>8. /\ r \in Books /\ r.positions = [b.positions EXCEPT ![id] = q]
      /\ \A n \in Markets : n # m => r.markets[n] = b.markets[n]
      /\ \A x \in AssetClasses : x # c => r.classes[x] = b.classes[x]
  BY DEF Accounted, Saved
<1> QED BY <1>5, <1>6, <1>7, <1>8 DEF Moved

-----------------------------------------------------------------------------
(* The rates brought up to date. *)

RatesMoved(b, r) ==
  /\ r \in Books /\ r.positions = b.positions /\ SameLists(b, r) /\ r.reserve = b.reserve
  /\ \A m \in Markets : FundingMoves(b.markets[m], r.markets[m])
  /\ \A c \in AssetClasses : BorrowingMoves(b.classes[c], r.classes[c])

LEMMA FundingStays == ASSUME NEW k \in MarketRecords PROVE FundingMoves(k, k)
<1>1. k.lastFundingTime \in Int BY DEF MarketRecords
<1>2. IntervalsTo(k.lastFundingTime) \in Int BY <1>1, IntervalsAreInts
<1> QED BY <1>2 DEF FundingMoves

LEMMA BorrowingStays == ASSUME NEW k \in ClassRecords PROVE BorrowingMoves(k, k)
<1>1. k.sumBorrowingRate \in Int /\ k.lastBorrowingTime \in Int BY DEF ClassRecords
<1>2. IntervalsTo(k.lastBorrowingTime) \in Int BY <1>1, IntervalsAreInts
<1>3. k.sumBorrowingRate - k.sumBorrowingRate = 0 BY <1>1
<1> QED BY <1>2, <1>3 DEF BorrowingMoves

LEMMA RatesMovedKeeps ==
  ASSUME NEW b \in Books, Totals(b), NEW r, RatesMoved(b, r)
  PROVE  Totals(r)
<1>1. r.positions = b.positions /\ b.positions \in [PositionIds -> Positions]
  BY DEF RatesMoved, Books
<1>2. ASSUME NEW m \in Markets PROVE MarketAddsUp(r.positions, m, r.markets[m])
  <2>1. b.markets[m] \in MarketRecords BY DEF Books
  <2>2. MarketAddsUp(b.positions, m, b.markets[m]) BY DEF Totals
  <2>3. FundingMoves(b.markets[m], r.markets[m]) BY DEF RatesMoved
  <2> QED BY <1>1, <2>1, <2>2, <2>3, FundingMovesKeeps
<1>3. ASSUME NEW c \in AssetClasses PROVE ClassAddsUp(r.positions, c, r.classes[c])
  <2>1. b.classes[c] \in ClassRecords BY DEF Books
  <2>2. ClassAddsUp(b.positions, c, b.classes[c]) BY DEF Totals
  <2>3. BorrowingMoves(b.classes[c], r.classes[c]) BY DEF RatesMoved
  <2>4. Reserved(b.positions) BY DEF Totals
  <2> QED BY <1>1, <2>1, <2>2, <2>3, <2>4, BorrowingMovesKeeps
<1>4. \A c \in AssetClasses : r.classes[c].reserve = b.classes[c].reserve
  BY DEF RatesMoved, BorrowingMoves
<1>5. r.reserve = SumOver(AssetClasses, [c \in AssetClasses |-> r.classes[c].reserve])
  BY <1>4 DEF RatesMoved, Totals
<1> QED BY <1>1, <1>2, <1>3, <1>5 DEF Totals

(* Where the positions and the lists stay, the lists stay exact. *)
LEMMA ListsStay ==
  ASSUME NEW b, ListsExact(b), NEW r, r.positions = b.positions, SameLists(b, r)
  PROVE  ListsExact(r)
BY DEF ListsExact, SameLists

(* The interval that ends what accrues: none ended later, and one more than  *)
(* at a time that is an interval earlier.                                    *)
LEMMA IntervalEnds ==
  ASSUME time \in Nat, NEW last \in Int
  PROVE  /\ LastInterval \in Int /\ LastInterval <= time
         /\ last = 0 => IntervalsTo(last) <= IntervalsTo(LastInterval)
         /\ last + FundingInterval <= time
              => IntervalsTo(last) + 1 <= IntervalsTo(LastInterval)
<1>1. LastInterval \in Nat /\ LastInterval <= time
      /\ IntervalsTo(LastInterval) = IntervalsTo(time)
  BY LastIntervalIs
<1>2. ASSUME last = 0 PROVE IntervalsTo(last) <= IntervalsTo(LastInterval)
  <2>1. last <= LastInterval /\ LastInterval \in Int BY <1>1, <1>2
  <2> QED BY <2>1, LaterIntervals
<1>3. ASSUME last + FundingInterval <= time
      PROVE  IntervalsTo(last) + 1 <= IntervalsTo(LastInterval)
  <2>1. last <= time /\ time \in Int BY <1>3, BookAssumption
  <2>2. IntervalsTo(last) + 1 <= IntervalsTo(time) BY <1>3, <2>1, LaterIntervals
  <2> QED BY <1>1, <2>2
<1> QED BY <1>1, <1>2, <1>3

(* updateBorrowingRate *)
LEMMA updateBorrowingRateIs ==
  ASSUME NEW b \in Books, NEW c \in AssetClasses, time \in Nat
  PROVE  LET r == updateBorrowingRate(b, c)
         IN  OnlyClass(b, r, c) /\ r.reserve = b.reserve
             /\ BorrowingMoves(b.classes[c], r.classes[c])
<1> DEFINE k == b.classes[c]
           intervals == (time - k.lastBorrowingTime) \div FundingInterval
           rate == (BaseBorrowingRate * k.reserve * intervals) \div Tvl
           fee == (k.reserve * rate) \div RatePrecision
           k1 == [k EXCEPT !.sumBorrowingRate = @ + rate]
           k2 == [k1 EXCEPT !.lastBorrowingTime = LastInterval]
           k3 == [k2 EXCEPT !.sumBorrowingFee = @ + fee]
           t == [k EXCEPT !.lastBorrowingTime = LastInterval]
           r == updateBorrowingRate(b, c)
<1>1. k \in ClassRecords BY DEF Books
<1>2. /\ k.reserve \in Int /\ k.lastBorrowingTime \in Int /\ k.sumBorrowingRate \in Int
      /\ k.sumBorrowingFee \in Int
  BY <1>1 DEF ClassRecords
<1>3. LastInterval \in Int BY <1>2, IntervalEnds
<1>4. rate \in Int
  <2>1. time - k.lastBorrowingTime \in Int BY <1>2
  <2>2. intervals \in Int BY <2>1, BookAssumption, DivisionIsInt
  <2> HIDE DEF intervals
  <2>3. BaseBorrowingRate * k.reserve \in Int BY <1>2, BookAssumption
  <2>4. BaseBorrowingRate * k.reserve * intervals \in Int BY <2>2, <2>3
  <2> QED BY <2>4, BookAssumption, DivisionIsInt
<1>5. fee \in Int
  <2>1. k.reserve * rate \in Int BY <1>2, <1>4
  <2> HIDE DEF k, rate
  <2> QED BY <2>1, BookAssumption, DivisionIsInt
<1>6. r = IF k.lastBorrowingTime = 0 THEN [b EXCEPT !.classes[c] = t]
          ELSE IF k.lastBorrowingTime + FundingInterval > time THEN b
          ELSE [b EXCEPT !.classes[c] = k3]
  <2>1. [b EXCEPT !.classes[c].lastBorrowingTime = LastInterval]
          = [b EXCEPT !.classes[c] = t]
    BY Zenon
  <2>2. [k EXCEPT !.sumBorrowingRate = @ + rate, !.lastBorrowingTime = LastInterval,
                  !.sumBorrowingFee = @ + (k.reserve * rate) \div RatePrecision] = k3
    BY Zenon
  <2> HIDE DEF k1, k2, k3, t
  <2> QED BY <2>1, <2>2 DEF updateBorrowingRate
<1>7. t \in ClassRecords /\ (k.lastBorrowingTime = 0 => BorrowingMoves(k, t))
  <2>1. /\ t \in ClassRecords /\ t.reserve = k.reserve
        /\ t.sumBorrowingRate = k.sumBorrowingRate /\ t.sumBorrowingFee = k.sumBorrowingFee
        /\ t.sumSettledBorrowingFee = k.sumSettledBorrowingFee
        /\ t.lastBorrowingTime = LastInterval
    <3> HIDE DEF k
    <3> QED BY <1>1, <1>3 DEF ClassRecords
  <2>2. k.lastBorrowingTime = 0
          => IntervalsTo(k.lastBorrowingTime) <= IntervalsTo(LastInterval)
    BY <1>2, IntervalEnds
  <2>3. t.sumBorrowingRate - k.sumBorrowingRate = 0 BY <1>2, <2>1
  <2> HIDE DEF t, k
  <2> QED BY <2>1, <2>2, <2>3 DEF BorrowingMoves
<1>7a. k.lastBorrowingTime + FundingInterval <= time /\ k.reserve >= 0 => rate >= 0
  <2> SUFFICES ASSUME k.lastBorrowingTime + FundingInterval <= time, k.reserve >= 0
               PROVE  rate >= 0
    OBVIOUS
  <2>1. k.reserve \in Nat BY <1>2
  <2>2. intervals \in Nat
    <3> DEFINE n == time - k.lastBorrowingTime
    <3>1. n \in Nat /\ FundingInterval \in Nat \ {0} BY <1>2, BookAssumption
    <3> HIDE DEF n
    <3>2. n \div FundingInterval \in Nat BY <3>1
    <3> QED BY <3>2 DEF n
  <2> DEFINE n == BaseBorrowingRate * k.reserve * intervals
  <2>3. n \in Nat
    <3> HIDE DEF intervals, k
    <3>1. BaseBorrowingRate * k.reserve \in Nat BY <2>1, BookAssumption
    <3> QED BY <2>2, <3>1
  <2> HIDE DEF n
  <2>4. n \div Tvl \in Nat BY <2>3, BookAssumption
  <2> QED BY <2>4 DEF n
<1> HIDE DEF rate
<1>8. /\ k3 \in ClassRecords /\ k3.reserve = k.reserve
      /\ k3.sumBorrowingRate = k.sumBorrowingRate + rate
      /\ k3.sumBorrowingFee = k.sumBorrowingFee + fee
      /\ k3.sumSettledBorrowingFee = k.sumSettledBorrowingFee
      /\ k3.lastBorrowingTime = LastInterval
  <2> HIDE DEF k, fee
  <2>1. /\ k1 \in ClassRecords /\ k1.reserve = k.reserve
        /\ k1.sumBorrowingRate = k.sumBorrowingRate + rate
        /\ k1.sumBorrowingFee = k.sumBorrowingFee
        /\ k1.sumSettledBorrowingFee = k.sumSettledBorrowingFee
    BY <1>1, <1>4 DEF ClassRecords
  <2> HIDE DEF k1
  <2>2. /\ k2 \in ClassRecords /\ k2.reserve = k.reserve
        /\ k2.sumBorrowingRate = k.sumBorrowingRate + rate
        /\ k2.sumBorrowingFee = k.sumBorrowingFee
        /\ k2.sumSettledBorrowingFee = k.sumSettledBorrowingFee
        /\ k2.lastBorrowingTime = LastInterval
    BY <1>3, <2>1 DEF ClassRecords
  <2> HIDE DEF k2
  <2> QED BY <1>5, <2>2 DEF ClassRecords
<1>9. k.lastBorrowingTime + FundingInterval <= time => BorrowingMoves(k, k3)
  <2> HIDE DEF k, k3
  <2>1. k3.sumBorrowingRate - k.sumBorrowingRate = rate BY <1>2, <1>4, <1>8
  <2>2. k.lastBorrowingTime + FundingInterval <= time
          => IntervalsTo(k.lastBorrowingTime) + 1 <= IntervalsTo(k3.lastBorrowingTime)
    BY <1>2, <1>8, IntervalEnds
  <2> QED BY <1>8, <1>7a, <2>1, <2>2 DEF BorrowingMoves
<1> HIDE DEF r, t, k3
<1>10. CASE r = b
  <2>1. OnlyClass(b, b, c) BY DEF OnlyClass, SameLists
  <2> QED BY <1>1, <1>10, <2>1, BorrowingStays DEF r
<1>11. CASE k.lastBorrowingTime = 0 /\ r = [b EXCEPT !.classes[c] = t]
  <2>1. OnlyClass(b, r, c) /\ r.classes[c] = t /\ r.reserve = b.reserve
    BY <1>7, <1>11, PutClass
  <2> QED BY <1>7, <1>11, <2>1 DEF r
<1>12. CASE /\ k.lastBorrowingTime + FundingInterval <= time
            /\ r = [b EXCEPT !.classes[c] = k3]
  <2>1. OnlyClass(b, r, c) /\ r.classes[c] = k3 /\ r.reserve = b.reserve
    BY <1>8, <1>12, PutClass
  <2> QED BY <1>9, <1>12, <2>1 DEF r
<1>13. ~(k.lastBorrowingTime + FundingInterval > time)
         => k.lastBorrowingTime + FundingInterval <= time
  BY <1>2, BookAssumption
<1> QED BY <1>6, <1>10, <1>11, <1>12, <1>13

LEMMA VelocityIsInt ==
  ASSUME NEW k \in MarketRecords PROVE getFundingRateVelocity(k) \in Int
<1>1. k.size["long"] \in Int /\ k.size["short"] \in Int BY DEF MarketRecords, Sides
<1>2. (k.size["long"] - k.size["short"]) * MaxFundingRate \in Int
  BY <1>1, BookAssumption
<1>3. Quotient((k.size["long"] - k.size["short"]) * MaxFundingRate, MaxSkewScale) \in Int
  BY <1>2, BookAssumption, DivisionIsInt
<1> QED BY <1>3, BookAssumption DEF getFundingRateVelocity

(* updateFundingRate *)
LEMMA updateFundingRateIs ==
  ASSUME NEW b \in Books, NEW m \in Markets, time \in Nat
  PROVE  LET r == updateFundingRate(b, m)
         IN  OnlyMarket(b, r, m) /\ FundingMoves(b.markets[m], r.markets[m])
<1> DEFINE k == b.markets[m]
           elapsed == time - k.lastFundingTime
           rate == k.currentFundingRate + getFundingRateVelocity(k) * elapsed
           accrued == k.fundingAccrued + Quotient((k.currentFundingRate + rate) * elapsed, 2)
           fee == [long |-> getFundingFee(k.size["long"], accrued, k.fundingAccrued),
                   short |-> getFundingFee(-k.size["short"], accrued, k.fundingAccrued)]
           accum == [side \in Sides |-> k.accumFunding[side] + fee[side]]
           k1 == [k EXCEPT !.currentFundingRate = rate]
           k2 == [k1 EXCEPT !.fundingAccrued = accrued]
           k3 == [k2 EXCEPT !.accumFunding = accum]
           k4 == [k3 EXCEPT !.lastFundingTime = LastInterval]
           t == [k EXCEPT !.lastFundingTime = LastInterval]
           r == updateFundingRate(b, m)
<1>1. k \in MarketRecords BY DEF Books
<1>2. /\ k.currentFundingRate \in Int /\ k.fundingAccrued \in Int
      /\ k.lastFundingTime \in Int /\ k.size["long"] \in Int /\ k.size["short"] \in Int
      /\ k.accumFunding["long"] \in Int /\ k.accumFunding["short"] \in Int
  BY <1>1 DEF MarketRecords, Sides
<1>3. LastInterval \in Int /\ LastInterval <= time BY <1>2, IntervalEnds
<1>4. rate \in Int /\ accrued \in Int
  <2>1. elapsed \in Int BY <1>2
  <2>2. getFundingRateVelocity(k) \in Int BY <1>1, VelocityIsInt
  <2> HIDE DEF elapsed, k
  <2>3. getFundingRateVelocity(k) * elapsed \in Int BY <2>1, <2>2
  <2>4. rate \in Int BY <1>2, <2>3
  <2> HIDE DEF rate
  <2>5. (k.currentFundingRate + rate) * elapsed \in Int BY <1>2, <2>1, <2>4
  <2>6. Quotient((k.currentFundingRate + rate) * elapsed, 2) \in Int
    BY <2>5, DivisionIsInt
  <2> QED BY <1>2, <2>4, <2>6
<1>5. r = IF k.lastFundingTime = 0 THEN [b EXCEPT !.markets[m] = t]
          ELSE IF k.lastFundingTime + FundingInterval > time THEN b
          ELSE [b EXCEPT !.markets[m] = k4]
  <2>1. [b EXCEPT !.markets[m].lastFundingTime = LastInterval]
          = [b EXCEPT !.markets[m] = t]
    BY Zenon
  <2>2. [k EXCEPT !.currentFundingRate = rate, !.fundingAccrued = accrued,
                  !.accumFunding = [side \in Sides |-> @[side] + fee[side]],
                  !.lastFundingTime = LastInterval]
          = [[k2 EXCEPT !.accumFunding = [side \in Sides |-> @[side] + fee[side]]]
               EXCEPT !.lastFundingTime = LastInterval]
    BY Zenon
  <2>3. k2.accumFunding = k.accumFunding
    <3> HIDE DEF k, rate, accrued
    <3> QED BY <1>1 DEF MarketRecords
  <2>4. [k2 EXCEPT !.accumFunding = [side \in Sides |-> @[side] + fee[side]]] = k3
    <3>1. [k2 EXCEPT !.accumFunding = [side \in Sides |-> @[side] + fee[side]]]
            = [k2 EXCEPT !.accumFunding =
                 [side \in Sides |-> k2.accumFunding[side] + fee[side]]]
      BY Zenon
    <3> HIDE DEF k2
    <3> QED BY <2>3, <3>1
  <2>5. updateFundingRate(b, m) =
          IF k.lastFundingTime = 0
          THEN [b EXCEPT !.markets[m].lastFundingTime = LastInterval]
          ELSE IF k.lastFundingTime + FundingInterval > time THEN b
          ELSE [b EXCEPT !.markets[m] =
                  [k EXCEPT !.currentFundingRate = rate, !.fundingAccrued = accrued,
                            !.accumFunding = [side \in Sides |-> @[side] + fee[side]],
                            !.lastFundingTime = LastInterval]]
    BY Zenon DEF updateFundingRate
  <2> QED BY Zenon, <2>1, <2>2, <2>4, <2>5
<1>6. t \in MarketRecords /\ (k.lastFundingTime = 0 => FundingMoves(k, t))
  <2>1. /\ t \in MarketRecords /\ t.size = k.size
        /\ t.fundingAccrued = k.fundingAccrued /\ t.accumFunding = k.accumFunding
        /\ t.lastFundingTime = LastInterval
    <3> HIDE DEF k
    <3> QED BY <1>1, <1>3 DEF MarketRecords
  <2>2. k.lastFundingTime = 0
          => IntervalsTo(k.lastFundingTime) <= IntervalsTo(LastInterval)
    BY <1>2, IntervalEnds
  <2> HIDE DEF t, k
  <2> QED BY <1>3, <2>1, <2>2 DEF FundingMoves
<1> HIDE DEF rate, accrued
<1>7. /\ accum \in [Sides -> Int]
      /\ accum["long"] = k.accumFunding["long"]
                           + getFundingFee(k.size["long"], accrued, k.fundingAccrued)
      /\ accum["short"] = k.accumFunding["short"]
                            + getFundingFee(-k.size["short"], accrued, k.fundingAccrued)
  <2> DEFINE long == getFundingFee(k.size["long"], accrued, k.fundingAccrued)
             short == getFundingFee(-k.size["short"], accrued, k.fundingAccrued)
  <2>1. /\ k.size["long"] * (accrued - k.fundingAccrued) \in Int
        /\ (-k.size["short"]) * (accrued - k.fundingAccrued) \in Int
    BY <1>2, <1>4
  <2>2. long \in Int /\ short \in Int
    <3> HIDE DEF k
    <3> QED BY <2>1, BookAssumption, DivisionIsInt DEF getFundingFee
  <2>3. fee["long"] = long /\ fee["short"] = short OBVIOUS
  <2> HIDE DEF fee, k, long, short
  <2>4. /\ accum \in [Sides -> Int] /\ accum["long"] = k.accumFunding["long"] + long
        /\ accum["short"] = k.accumFunding["short"] + short
    BY <1>2, <2>2, <2>3 DEF Sides
  <2> QED BY <2>4 DEF long, short
<1> HIDE DEF accum
<1>8. /\ k4 \in MarketRecords /\ k4.size = k.size /\ k4.fundingAccrued = accrued
      /\ k4.accumFunding = accum /\ k4.lastFundingTime = LastInterval
  <2> HIDE DEF k
  <2>1. k1 \in MarketRecords /\ k1.size = k.size BY <1>1, <1>4 DEF MarketRecords
  <2> HIDE DEF k1
  <2>2. k2 \in MarketRecords /\ k2.size = k.size /\ k2.fundingAccrued = accrued
    BY <1>4, <2>1 DEF MarketRecords
  <2> HIDE DEF k2
  <2>3. k3 \in MarketRecords /\ k3.size = k.size /\ k3.fundingAccrued = accrued
        /\ k3.accumFunding = accum
    BY <1>7, <2>2 DEF MarketRecords
  <2> HIDE DEF k3
  <2> QED BY <1>3, <2>3 DEF MarketRecords
<1>9. k.lastFundingTime + FundingInterval <= time => FundingMoves(k, k4)
  <2> HIDE DEF k4, k
  <2>1. k.lastFundingTime + FundingInterval <= time
          => IntervalsTo(k.lastFundingTime) + 1 <= IntervalsTo(LastInterval)
    BY <1>2, IntervalEnds
  <2> QED BY <1>3, <1>7, <1>8, <2>1 DEF FundingMoves
<1> HIDE DEF r, t, k4
<1>10. CASE r = b
  <2>1. OnlyMarket(b, b, m) BY DEF OnlyMarket, SameLists
  <2> QED BY <1>1, <1>10, <2>1, FundingStays DEF r
<1>11. CASE k.lastFundingTime = 0 /\ r = [b EXCEPT !.markets[m] = t]
  <2>1. OnlyMarket(b, r, m) /\ r.markets[m] = t BY <1>6, <1>11, PutMarket
  <2> QED BY <1>6, <1>11, <2>1 DEF r
<1>12. CASE /\ k.lastFundingTime + FundingInterval <= time
            /\ r = [b EXCEPT !.markets[m] = k4]
  <2>1. OnlyMarket(b, r, m) /\ r.markets[m] = k4 BY <1>8, <1>12, PutMarket
  <2> QED BY <1>9, <1>12, <2>1 DEF r
<1>13. ~(k.lastFundingTime + FundingInterval > time)
         => k.lastFundingTime + FundingInterval <= time
  BY <1>2, BookAssumption
<1> QED BY <1>5, <1>10, <1>11, <1>12, <1>13

(* UpdateRates *)
LEMMA UpdateRatesIs ==
  ASSUME NEW b \in Books, NEW m \in Markets, time \in Nat
  PROVE  RatesMoved(b, UpdateRates(b, m))
<1> DEFINE c == assetClass[m]
           s == updateBorrowingRate(b, c)
           r == updateFundingRate(s, m)
<1>1. c \in AssetClasses BY BookAssumption
<1>2. OnlyClass(b, s, c) /\ s.reserve = b.reserve
      /\ BorrowingMoves(b.classes[c], s.classes[c])
  BY <1>1, updateBorrowingRateIs
<1> HIDE DEF s
<1>3. s \in Books BY <1>2 DEF OnlyClass
<1>4. OnlyMarket(s, r, m) /\ FundingMoves(s.markets[m], r.markets[m])
  BY <1>3, updateFundingRateIs
<1> HIDE DEF r, c
<1>5. /\ r \in Books /\ r.positions = b.positions /\ SameLists(b, r)
      /\ r.reserve = b.reserve /\ r.classes = s.classes /\ s.markets = b.markets
  BY <1>2, <1>4 DEF OnlyMarket, OnlyClass, SameLists
<1>6. ASSUME NEW n \in Markets PROVE FundingMoves(b.markets[n], r.markets[n])
  <2>1. b.markets[n] \in MarketRecords BY DEF Books
  <2>2. n # m => r.markets[n] = b.markets[n] BY <1>4, <1>5 DEF OnlyMarket
  <2> QED BY <1>4, <1>5, <2>1, <2>2, FundingStays
<1>7. ASSUME NEW d \in AssetClasses PROVE BorrowingMoves(b.classes[d], r.classes[d])
  <2>1. b.classes[d] \in ClassRecords BY DEF Books
  <2>2. d # c => r.classes[d] = b.classes[d] BY <1>2, <1>5 DEF OnlyClass
  <2> QED BY <1>2, <1>5, <2>1, <2>2, BorrowingStays
<1>8. UpdateRates(b, m) = r BY DEF UpdateRates, r, s, c
<1> QED BY <1>5, <1>6, <1>7, <1>8 DEF RatesMoved

-----------------------------------------------------------------------------
(* The actions. *)

(* No market's funding accrued later than now: setting a rate then counts no *)
(* interval backwards.                                                       *)
Clocked(b, t) == \A m \in Markets : b.markets[m].lastFundingTime <= t

Sound(b, t) == b \in Books /\ Totals(b) /\ ListsExact(b) /\ Clocked(b, t)

LEMMA RatesMovedSound ==
  ASSUME NEW b, Sound(b, time), NEW r, RatesMoved(b, r)
  PROVE  Sound(r, time) /\ r.positions = b.positions
<1>1. r \in Books /\ r.positions = b.positions /\ SameLists(b, r) BY DEF RatesMoved
<1>2. Clocked(r, time)
  <2> SUFFICES ASSUME NEW m \in Markets PROVE r.markets[m].lastFundingTime <= time
    BY DEF Clocked
  <2>1. FundingMoves(b.markets[m], r.markets[m]) BY DEF RatesMoved
  <2>2. b.markets[m].lastFundingTime <= time BY DEF Sound, Clocked
  <2> QED BY <2>1, <2>2 DEF FundingMoves
<1>3. b \in Books /\ Totals(b) /\ ListsExact(b) BY DEF Sound
<1>4. Totals(r) BY <1>3, RatesMovedKeeps
<1>5. ListsExact(r) BY <1>1, <1>3, ListsStay
<1> QED BY <1>1, <1>2, <1>4, <1>5 DEF Sound

LEMMA MovedSound ==
  ASSUME NEW b, Sound(b, time), NEW id \in PositionIds, NEW q, NEW r, Moved(b, r, id, q),
         ListsExact(r)
  PROVE  Sound(r, time)
<1>1. r \in Books BY DEF Moved
<1>2. Clocked(r, time)
  <2> SUFFICES ASSUME NEW m \in Markets PROVE r.markets[m].lastFundingTime <= time
    BY DEF Clocked
  <2>1. r.markets[m].lastFundingTime = b.markets[m].lastFundingTime
    <3>1. CASE m = id[2] BY <3>1 DEF Moved, MarketMoved
    <3>2. CASE m # id[2] BY <3>2 DEF Moved
    <3> QED BY <3>1, <3>2
  <2> QED BY <2>1 DEF Sound, Clocked
<1>3. b \in Books /\ Totals(b) BY DEF Sound
<1>4. Totals(r) BY <1>3, MovedKeeps
<1> QED BY <1>1, <1>2, <1>4 DEF Sound

(* A settled position is as of the present rates. *)
LEMMA SettledIs ==
  ASSUME NEW b \in Books, NEW id \in PositionIds, NEW size \in Int, NEW reserve \in Int
  PROVE  LET paid == updateFeeStates(b, id, b.positions[id])
             q == Settled(paid, id, b.positions[id], size, reserve)
         IN  /\ q.size = size /\ q.reserve = reserve
             /\ UpToDate(q, b.markets[id[2]].fundingAccrued,
                         b.classes[assetClass[id[2]]].sumBorrowingRate)
<1> DEFINE m == id[2]
           c == assetClass[m]
           p == b.positions[id]
           paid == updateFeeStates(b, id, p)
           q == Settled(paid, id, p, size, reserve)
           h == b.classes[c]
           bf == BorrowingFee(b, id, p)
<1>1. m \in Markets /\ c \in AssetClasses /\ bf \in Int BY FeesAreInts
<1>2. paid.markets[m].fundingAccrued = b.markets[m].fundingAccrued
      /\ paid.classes[c] = [h EXCEPT !.sumSettledBorrowingFee = @ + bf]
  <2>1. updateFeeStates(b, id, b.positions[id]).markets[id[2]].fundingAccrued
          = b.markets[id[2]].fundingAccrued
    BY ONLY updateFeeStatesIs, b \in Books, id \in PositionIds, Zenon
  <2>2. updateFeeStates(b, id, b.positions[id]).classes[assetClass[id[2]]]
          = [b.classes[assetClass[id[2]]] EXCEPT !.sumSettledBorrowingFee =
               @ + BorrowingFee(b, id, b.positions[id])]
    BY ONLY updateFeeStatesIs, b \in Books, id \in PositionIds, Zenon
  <2> QED BY ONLY <2>1, <2>2, Zenon
<1>3. h \in ClassRecords /\ b.markets[m] \in MarketRecords BY <1>1 DEF Books
<1>4. [h EXCEPT !.sumSettledBorrowingFee = @ + bf].sumBorrowingRate = h.sumBorrowingRate
  <2> HIDE DEF h, bf
  <2> QED BY <1>3 DEF ClassRecords
<1>5. h.sumBorrowingRate \in Int /\ b.markets[m].fundingAccrued \in Int
  BY <1>3 DEF ClassRecords, MarketRecords
<1>6. q = [size |-> size, reserve |-> reserve,
           entryBorrowingRate |-> paid.classes[c].sumBorrowingRate,
           lastFundingAccrued |-> paid.markets[m].fundingAccrued]
  BY DEF Settled
<1> HIDE DEF q, h, bf, paid
<1>7. paid.classes[c].sumBorrowingRate = h.sumBorrowingRate BY <1>2, <1>4
<1>8. /\ q \in Positions /\ q.size = size /\ q.reserve = reserve
      /\ q.lastFundingAccrued = b.markets[m].fundingAccrued
      /\ q.entryBorrowingRate = h.sumBorrowingRate
  BY <1>2, <1>5, <1>6, <1>7 DEF Positions
<1> QED BY <1>8 DEF q, h, paid, UpToDate

(* A position closed, all of it: also one that is closed already. *)
LEMMA CloseSound ==
  ASSUME NEW b, Sound(b, time), NEW id \in PositionIds
  PROVE  LET p == b.positions[id]
             m == id[2]
             c == assetClass[m]
             paid == updateFeeStates(b, id, p)
             less == ChangeSize(ChangeReserve(paid, c, -p.reserve), m, SideOf(p),
                                -Abs(p.size))
         IN  Sound(removePositionFromSubAccount(less, id), time)
<1> DEFINE p == b.positions[id]
           m == id[2]
           c == assetClass[m]
           paid == updateFeeStates(b, id, p)
           less == ChangeSize(ChangeReserve(paid, c, -p.reserve), m, SideOf(p),
                              -Abs(p.size))
           r == removePositionFromSubAccount(less, id)
<1>1. b \in Books /\ p \in Positions /\ SideOf(p) \in Sides
  BY FeesAreInts DEF Sound, Books
<1>2. p.size \in Int /\ p.reserve \in Int BY <1>1 DEF Positions
<1>3. -p.reserve \in Int /\ -Abs(p.size) \in Int BY <1>2 DEF Abs
<1>4. Accounted(b, less, id, -p.reserve, SideOf(p), -Abs(p.size))
  BY <1>1, <1>3, AccountedIs
<1> HIDE DEF less
<1>5. less \in Books /\ ListsExact(less) /\ Reserved(less.positions)
  BY <1>4, ListsStay DEF Accounted, Sound, Totals
<1>6. PICK q \in Positions : /\ q.size = 0 /\ q.reserve = 0
                             /\ Saved(less, r, id, q) /\ ListsExact(r)
  BY <1>5, removePositionFromSubAccountIs
<1> HIDE DEF r
<1>7. \A x \in Sides : SizeOf(q, x) = SizeOf(p, x)
                                        + (IF x = SideOf(p) THEN -Abs(p.size) ELSE 0)
  BY <1>2, <1>6 DEF SizeOf, Abs
<1>8. q.reserve = p.reserve + (-p.reserve) /\ q.reserve \in Nat BY <1>2, <1>6
<1>9. UpToDate(q, b.markets[m].fundingAccrued, b.classes[c].sumBorrowingRate)
  BY <1>6 DEF UpToDate
<1>10. Moved(b, r, id, q)
  <2> HIDE DEF p, m, c
  <2>1. Accounted(b, less, id, -b.positions[id].reserve, SideOf(p), -Abs(p.size))
    BY <1>4 DEF p
  <2>2. \A x \in Sides : SizeOf(q, x) = SizeOf(b.positions[id], x)
                                          + (IF x = SideOf(p) THEN -Abs(p.size) ELSE 0)
    BY <1>7 DEF p
  <2>3. -b.positions[id].reserve \in Int
        /\ q.reserve = b.positions[id].reserve + (-b.positions[id].reserve)
    BY <1>3, <1>8 DEF p
  <2>4. UpToDate(q, b.markets[id[2]].fundingAccrued,
                 b.classes[assetClass[id[2]]].sumBorrowingRate)
    BY <1>9 DEF m, c
  <2> QED BY <1>1, <1>3, <1>6, <1>8, <2>1, <2>2, <2>3, <2>4, AccountedMoves
<1>11. Sound(r, time) BY <1>6, <1>10, MovedSound
<1> QED BY <1>11 DEF r, less

(* increasePosition *)
LEMMA IncreaseSound ==
  ASSUME NEW b, Sound(b, time), NEW id \in PositionIds, NEW delta \in Int, delta # 0,
         b.positions[id].size # 0 => IsLong(b.positions[id]) = (delta > 0),
         NEW reserve \in Nat
  PROVE  LET p == b.positions[id]
             m == id[2]
             c == assetClass[m]
             side == IF delta > 0 THEN "long" ELSE "short"
             paid == updateFeeStates(b, id, p)
             grown == ChangeSize(ChangeReserve(paid, c, reserve), m, side, Abs(delta))
             q == Settled(paid, id, p, p.size + delta, p.reserve + reserve)
         IN  Sound(savePosition(grown, id, q), time)
<1> DEFINE p == b.positions[id]
           m == id[2]
           c == assetClass[m]
           side == IF delta > 0 THEN "long" ELSE "short"
           paid == updateFeeStates(b, id, p)
           grown == ChangeSize(ChangeReserve(paid, c, reserve), m, side, Abs(delta))
           q == Settled(paid, id, p, p.size + delta, p.reserve + reserve)
           r == savePosition(grown, id, q)
<1>1. b \in Books /\ p \in Positions /\ side \in Sides /\ p.reserve \in Nat
  BY DEF Sound, Books, Sides, Totals, Reserved
<1>2. p.size \in Int BY <1>1 DEF Positions
<1>3. Abs(delta) \in Int /\ reserve \in Int /\ p.size + delta \in Int
      /\ p.reserve + reserve \in Nat
  BY <1>1, <1>2 DEF Abs
<1>4. Accounted(b, grown, id, reserve, side, Abs(delta))
  BY <1>1, <1>3, AccountedIs
<1>5. /\ q.size = p.size + delta /\ q.reserve = p.reserve + reserve
      /\ UpToDate(q, b.markets[id[2]].fundingAccrued,
                  b.classes[assetClass[id[2]]].sumBorrowingRate)
  BY <1>1, <1>3, SettledIs
<1> HIDE DEF grown, q
<1>6. q \in Positions /\ q.size # 0
  BY <1>2, <1>5 DEF UpToDate, IsLong
<1>7. grown \in Books /\ ListsExact(grown)
  BY <1>4, ListsStay DEF Accounted, Sound
<1>8. Saved(grown, r, id, q) /\ ListsExact(r)
  BY <1>6, <1>7, savePositionIs
<1> HIDE DEF r
<1>9. ASSUME NEW x \in Sides
      PROVE  SizeOf(q, x) = SizeOf(b.positions[id], x) + (IF x = side THEN Abs(delta) ELSE 0)
  <2> DEFINE n == p.size
  <2>1. n \in Int /\ q.size = n + delta /\ (n # 0 => (n > 0) = (delta > 0))
    BY <1>2, <1>5 DEF IsLong
  <2>2. /\ SizeOf(q, x) = IF (IF q.size > 0 THEN "long" ELSE "short") = x
                          THEN Abs(q.size) ELSE 0
        /\ SizeOf(b.positions[id], x) = IF (IF n > 0 THEN "long" ELSE "short") = x
                          THEN Abs(n) ELSE 0
    BY DEF SizeOf, SideOf, IsLong
  <2> HIDE DEF n, p, q
  <2> QED BY <2>1, <2>2 DEF Abs, Sides
<1>10. q.reserve = b.positions[id].reserve + reserve /\ q.reserve \in Nat
  BY <1>3, <1>5
<1>11. Moved(b, r, id, q)
  <2> HIDE DEF p, side
  <2> QED BY <1>1, <1>3, <1>4, <1>5, <1>6, <1>8, <1>9, <1>10, AccountedMoves
<1>12. Sound(r, time) BY <1>8, <1>11, MovedSound
<1> QED BY <1>12 DEF r, grown, q

(* _decreasePosition, where some of the position is left. *)
LEMMA LessSound ==
  ASSUME NEW b, Sound(b, time), NEW id \in PositionIds, NEW size \in Nat,
         size < Abs(b.positions[id].size), NEW reserve \in Nat
  PROVE  LET p == b.positions[id]
             m == id[2]
             c == assetClass[m]
             left == Abs(p.size) - size
             paid == updateFeeStates(b, id, p)
             less == ChangeSize(ChangeReserve(paid, c, -p.reserve), m, SideOf(p), -size)
             q == Settled(paid, id, p, IF IsLong(p) THEN left ELSE -left, reserve)
         IN  Sound(savePosition(ReserveAgain(less, c, reserve), id, q), time)
<1> DEFINE p == b.positions[id]
           m == id[2]
           c == assetClass[m]
           side == SideOf(p)
           left == Abs(p.size) - size
           kept == IF IsLong(p) THEN left ELSE -left
           paid == updateFeeStates(b, id, p)
           less == ChangeSize(ChangeReserve(paid, c, -p.reserve), m, side, -size)
           again == ReserveAgain(less, c, reserve)
           q == Settled(paid, id, p, kept, reserve)
           r == savePosition(again, id, q)
<1>1. b \in Books /\ p \in Positions /\ side \in Sides
  BY FeesAreInts DEF Sound, Books
<1>2. p.size \in Int /\ p.reserve \in Int BY <1>1 DEF Positions
<1>3. -p.reserve \in Int /\ -size \in Int /\ kept \in Int /\ kept # 0 /\ reserve \in Int
      /\ -p.reserve + reserve \in Int
  BY <1>2 DEF Abs
<1>4. Accounted(b, less, id, -p.reserve, side, -size)
  BY <1>1, <1>3, AccountedIs
<1>5. /\ q.size = kept /\ q.reserve = reserve
      /\ UpToDate(q, b.markets[id[2]].fundingAccrued,
                  b.classes[assetClass[id[2]]].sumBorrowingRate)
  <2> HIDE DEF kept
  <2> QED BY <1>1, <1>3, SettledIs
<1> HIDE DEF less
<1>6. Accounted(b, again, id, -p.reserve + reserve, side, -size)
  BY <1>1, <1>3, <1>4, ReservedAgain
<1> HIDE DEF again, q
<1>7. q \in Positions /\ q.size # 0 BY <1>3, <1>5 DEF UpToDate
<1>8. again \in Books /\ ListsExact(again)
  BY <1>6, ListsStay DEF Accounted, Sound
<1>9. Saved(again, r, id, q) /\ ListsExact(r)
  BY <1>7, <1>8, savePositionIs
<1> HIDE DEF r
<1>10. ASSUME NEW x \in Sides
       PROVE  SizeOf(q, x) = SizeOf(b.positions[id], x) + (IF x = side THEN -size ELSE 0)
  <2> DEFINE n == p.size
             long == IF n > 0 THEN "long" ELSE "short"
  <2>1. n \in Int /\ size < Abs(n)
        /\ q.size = IF n > 0 THEN Abs(n) - size ELSE -(Abs(n) - size)
    BY <1>2, <1>5 DEF IsLong
  <2>2. /\ SizeOf(q, x) = IF (IF q.size > 0 THEN "long" ELSE "short") = x
                          THEN Abs(q.size) ELSE 0
        /\ SizeOf(b.positions[id], x) = IF long = x THEN Abs(n) ELSE 0
        /\ side = long
    BY DEF SizeOf, SideOf, IsLong
  <2> HIDE DEF n, p, q, side
  <2> QED BY <2>1, <2>2 DEF Abs, Sides
<1>11. q.reserve = b.positions[id].reserve + (-p.reserve + reserve) /\ q.reserve \in Nat
  BY <1>2, <1>5
<1>12. Moved(b, r, id, q)
  <2> HIDE DEF p, side
  <2> QED BY <1>1, <1>3, <1>5, <1>6, <1>7, <1>9, <1>10, <1>11, AccountedMoves
<1>13. Sound(r, time) BY <1>9, <1>12, MovedSound
<1> QED BY <1>13 DEF r, again, less, q

(* What holds in every state. *)
Configured == config \in [Markets -> [active : BOOLEAN, reserveRate : Nat]]
              /\ \A m \in Markets : config[m] \in Configs[m]

PerpInv ==
  /\ Sound(book, time)
  /\ Configured
  /\ fundingFeeReserve \in 0 .. MaxFunds
  /\ time \in Nat

LEMMA SettleFundingIs ==
  ASSUME NEW fee \in Int, fundingFeeReserve \in 0 .. MaxFunds, SettleFunding(fee)
  PROVE  fundingFeeReserve' \in 0 .. MaxFunds
<1>1. MaxFunds \in Nat BY BookAssumption
<1>2. CASE fee < 0 BY <1>1, <1>2 DEF SettleFunding
<1>3. CASE ~(fee < 0) BY <1>1, <1>3 DEF SettleFunding
<1> QED BY <1>2, <1>3

(* The rates brought up to date for a position: it stays as it was. *)
LEMMA Updated ==
  ASSUME NEW b, Sound(b, time), time \in Nat, NEW id \in PositionIds
  PROVE  LET updated == UpdateRates(b, id[2])
         IN  /\ Sound(updated, time) /\ updated.positions = b.positions
             /\ FundingFee(updated, id, b.positions[id]) \in Int
<1> DEFINE updated == UpdateRates(b, id[2])
<1>1. b \in Books /\ id[2] \in Markets BY DEF Sound, PositionIds
<1>2. RatesMoved(b, updated) BY <1>1, UpdateRatesIs
<1> HIDE DEF updated
<1>3. Sound(updated, time) /\ updated.positions = b.positions BY <1>2, RatesMovedSound
<1>4. FundingFee(updated, id, updated.positions[id]) \in Int
  BY <1>3, FeesAreInts DEF Sound
<1> QED BY <1>3, <1>4 DEF updated

LEMMA IncreasePositionKeeps ==
  ASSUME PerpInv, NEW id \in PositionIds, NEW delta \in Int, delta # 0,
         IncreasePosition(id, delta)
  PROVE  PerpInv'
<1> DEFINE m == id[2]
           c == assetClass[m]
           p == book.positions[id]
           side == IF delta > 0 THEN "long" ELSE "short"
           reserve == Abs(delta) * config[m].reserveRate
           updated == UpdateRates(book, m)
           paid == updateFeeStates(updated, id, p)
           grown == ChangeSize(ChangeReserve(paid, c, reserve), m, side, Abs(delta))
           q == Settled(paid, id, p, p.size + delta, p.reserve + reserve)
<1>1. /\ p.size # 0 => IsLong(p) = (delta > 0)
      /\ SettleFunding(FundingFee(updated, id, p))
      /\ book' = savePosition(grown, id, q)
      /\ UNCHANGED <<config, time>>
  BY DEF IncreasePosition
<1>2. Sound(updated, time) /\ updated.positions = book.positions
      /\ FundingFee(updated, id, p) \in Int
  BY Updated DEF PerpInv
<1>3. reserve \in Nat
  <2>1. config[m].reserveRate \in Nat BY DEF PerpInv, Configured, PositionIds
  <2>2. Abs(delta) \in Nat BY DEF Abs
  <2> HIDE DEF m
  <2> QED BY <2>1, <2>2
<1> HIDE DEF updated, reserve
<1>4. updated.positions[id] = p BY <1>2
<1>5. Sound(savePosition(grown, id, q), time)
  <2>1. updated.positions[id].size # 0 => IsLong(updated.positions[id]) = (delta > 0)
    BY <1>1, <1>4
  <2>2. LET u == updated.positions[id]
            t == updateFeeStates(updated, id, u)
            s == ChangeSize(ChangeReserve(t, c, reserve), m, side, Abs(delta))
        IN  Sound(savePosition(s, id, Settled(t, id, u, u.size + delta, u.reserve + reserve)), time)
    BY <1>2, <1>3, <2>1, IncreaseSound
  <2> HIDE DEF p
  <2> QED BY <1>4, <2>2
<1> HIDE DEF grown, q
<1>6. Sound(book', time) BY <1>1, <1>5
<1>7. fundingFeeReserve' \in 0 .. MaxFunds
  BY <1>1, <1>2, SettleFundingIs DEF PerpInv
<1> QED BY <1>1, <1>6, <1>7 DEF PerpInv, Configured

LEMMA DecreasedSound ==
  ASSUME PerpInv, NEW id \in PositionIds, NEW size \in Nat,
         size <= Abs(book.positions[id].size)
  PROVE  Sound(Decreased(book, id, size), time)
<1> DEFINE m == id[2]
           c == assetClass[m]
           p == book.positions[id]
           left == Abs(p.size) - size
           rate == config[m].reserveRate
           reserve == left * rate
           updated == UpdateRates(book, m)
           paid == updateFeeStates(updated, id, p)
           less == ChangeSize(ChangeReserve(paid, c, -p.reserve), m, SideOf(p), -size)
           kept == Settled(paid, id, p, IF IsLong(p) THEN left ELSE -left, reserve)
<1>1. Decreased(book, id, size) =
        IF left = 0 THEN removePositionFromSubAccount(less, id)
        ELSE savePosition(ReserveAgain(less, c, reserve), id, kept)
  BY DEF Decreased, Released
<1>2. Sound(updated, time) /\ updated.positions = book.positions
  BY Updated DEF PerpInv
<1>3. rate \in Nat BY DEF PerpInv, Configured, PositionIds
<1>4. Abs(p.size) \in Int
  <2>1. p \in Positions BY DEF PerpInv, Sound, Books
  <2> QED BY <2>1 DEF Positions, Abs
<1>5. left \in Nat /\ reserve \in Nat
  <2>1. left \in Nat BY <1>4
  <2> HIDE DEF left, rate
  <2> QED BY <1>3, <2>1
<1> HIDE DEF updated, reserve
<1>6. updated.positions[id] = p BY <1>2
<1>7. CASE left = 0
  <2>1. LET u == updated.positions[id]
            t == updateFeeStates(updated, id, u)
            s == ChangeSize(ChangeReserve(t, c, -u.reserve), m, SideOf(u), -Abs(u.size))
        IN  Sound(removePositionFromSubAccount(s, id), time)
    BY <1>2, CloseSound
  <2>2. Abs(p.size) = size BY <1>4, <1>7
  <2>3. Sound(removePositionFromSubAccount(less, id), time)
    <3> HIDE DEF p
    <3> QED BY <1>6, <2>1, <2>2
  <2> HIDE DEF less, left
  <2> QED BY <1>1, <1>7, <2>3
<1>8. CASE left # 0
  <2>1. size < Abs(updated.positions[id].size) BY <1>4, <1>6, <1>8
  <2>2. LET u == updated.positions[id]
            l == Abs(u.size) - size
            t == updateFeeStates(updated, id, u)
            s == ChangeSize(ChangeReserve(t, c, -u.reserve), m, SideOf(u), -size)
            k == Settled(t, id, u, IF IsLong(u) THEN l ELSE -l, reserve)
        IN  Sound(savePosition(ReserveAgain(s, c, reserve), id, k), time)
    BY <1>2, <1>5, <2>1, LessSound
  <2>3. Sound(savePosition(ReserveAgain(less, c, reserve), id, kept), time)
    <3> HIDE DEF p
    <3> QED BY <1>6, <2>2
  <2> HIDE DEF less, left, kept
  <2> QED BY <1>1, <1>8, <2>3
<1> QED BY <1>7, <1>8

LEMMA DecreaseKeeps ==
  ASSUME PerpInv, NEW id \in PositionIds, NEW size \in Nat, Decrease(id, size)
  PROVE  PerpInv'
<1> DEFINE fee == FundingFee(UpdateRates(book, id[2]), id, book.positions[id])
<1>1. /\ size <= Abs(book.positions[id].size) /\ SettleFunding(fee)
      /\ book' = Decreased(book, id, size) /\ UNCHANGED <<config, time>>
  BY DEF Decrease
<1>2. Sound(book', time) BY <1>1, DecreasedSound
<1>3. fee \in Int BY Updated DEF PerpInv
<1> HIDE DEF fee
<1>4. fundingFeeReserve' \in 0 .. MaxFunds BY <1>1, <1>3, SettleFundingIs DEF PerpInv
<1> QED BY <1>1, <1>2, <1>4 DEF PerpInv, Configured

(* _liquidatePosition, as it goes through the list. *)
Liquidations == {s \in [book : Books, funding : Int] : Sound(s.book, time)}

LEMMA LiquidateLegIs ==
  ASSUME time \in Nat, NEW s \in Liquidations, NEW id \in PositionIds
  PROVE  LiquidateLeg(s, id) \in Liquidations
<1> DEFINE m == id[2]
           c == assetClass[m]
           p == s.book.positions[id]
           updated == UpdateRates(s.book, m)
           paid == updateFeeStates(updated, id, p)
           less == ChangeSize(ChangeReserve(paid, c, -p.reserve), m, SideOf(p), -Abs(p.size))
           r == removePositionFromSubAccount(less, id)
           fee == FundingFee(updated, id, p)
<1>1. Sound(s.book, time) /\ s.funding \in Int BY DEF Liquidations
<1>2. Sound(updated, time) /\ updated.positions = s.book.positions /\ fee \in Int
  BY <1>1, Updated
<1>3. LiquidateLeg(s, id) = [book |-> r, funding |-> s.funding + fee]
  BY DEF LiquidateLeg
<1> HIDE DEF updated, fee
<1>4. updated.positions[id] = p BY <1>2
<1>5. LET u == updated.positions[id]
          t == updateFeeStates(updated, id, u)
          l == ChangeSize(ChangeReserve(t, c, -u.reserve), m, SideOf(u), -Abs(u.size))
      IN  Sound(removePositionFromSubAccount(l, id), time)
  BY <1>2, CloseSound
<1>6. Sound(r, time)
  <2> HIDE DEF p
  <2> QED BY <1>4, <1>5
<1> HIDE DEF r
<1>7. r \in Books BY <1>6 DEF Sound
<1> QED BY <1>1, <1>2, <1>3, <1>6, <1>7 DEF Liquidations

LEMMA LiquidationLoop ==
  ASSUME time \in Nat, NEW list \in Seq(PositionIds), NEW start \in Liquidations
  PROVE  Through(list, LiquidateLeg, start) \in Liquidations
<1> DEFINE S == Liquidations
           n == Len(list)
           Leg(s, i) == LiquidateLeg(s, list[i])
           step == [x \in S \X (1 .. n) |-> Leg(x[1], x[2])]
           Body(g) == [i \in 0 .. n |-> IF i = 0 THEN start ELSE Leg(g[i - 1], i)]
           after == CHOOSE g : g = Body(g)
<1>1. n \in Nat /\ \A i \in 1 .. n : list[i] \in PositionIds
  OBVIOUS
<1>2. start \in S OBVIOUS
<1>3. \A s \in S, i \in 1 .. n : Leg(s, i) \in S
  BY <1>1, LiquidateLegIs
<1>4. Through(list, LiquidateLeg, start) = after[n]
  BY DEF Through
<1> HIDE DEF S, n, Leg
<1>5. step \in [S \X (1 .. n) -> S]
  BY <1>3
<1>6. PICK f \in [0 .. n -> S] : IsRun(f, n, start, step)
  <2> HIDE DEF step
  <2> QED BY <1>1, <1>2, <1>5, RunExists
<1>7. f = Body(f)
  <2>1. f = [i \in 0 .. n |-> IF i = 0 THEN start ELSE step[<<f[i - 1], i>>]]
    BY <1>6 DEF IsRun
  <2>2. ASSUME NEW i \in 0 .. n, i # 0
        PROVE  step[<<f[i - 1], i>>] = Leg(f[i - 1], i)
    <3>1. <<f[i - 1], i>> \in S \X (1 .. n) BY <1>1, <2>2
    <3> QED BY <3>1
  <2> HIDE DEF step
  <2> QED BY <2>1, <2>2
<1>8. after = Body(after)
  <2> HIDE DEF Body
  <2> QED BY <1>7
<1> HIDE DEF after
<1>9. after[n] \in S
  <2>1. after[0] \in S BY <1>1, <1>2, <1>8
  <2>2. \A i \in 1 .. n : after[i - 1] \in S => after[i] \in S
    BY <1>1, <1>3, <1>8
  <2> HIDE DEF Body
  <2> QED BY <1>1, <2>1, <2>2, RunInvariant
<1> QED BY <1>4, <1>9 DEF S

LEMMA LiquidateKeeps ==
  ASSUME PerpInv, NEW a \in SubAccounts, Liquidate(a)
  PROVE  PerpInv'
<1> DEFINE end == Through(book.subAccountPositionIds[a], LiquidateLeg,
                          [book |-> book, funding |-> 0])
<1>1. SettleFunding(end.funding) /\ book' = end.book /\ UNCHANGED <<config, time>>
  BY DEF Liquidate
<1>2. book.subAccountPositionIds[a] \in Seq(PositionIds)
  BY DEF PerpInv, Sound, Books
<1>3. [book |-> book, funding |-> 0] \in Liquidations
  BY DEF PerpInv, Sound, Liquidations
<1>4. end \in Liquidations BY <1>2, <1>3, LiquidationLoop DEF PerpInv
<1> HIDE DEF end
<1>5. Sound(end.book, time) /\ end.funding \in Int BY <1>4 DEF Liquidations
<1>6. fundingFeeReserve' \in 0 .. MaxFunds BY <1>1, <1>5, SettleFundingIs DEF PerpInv
<1> QED BY <1>1, <1>5, <1>6 DEF PerpInv, Configured

(* Only one market's rates moved. *)
LEMMA OneMarketMoves ==
  ASSUME NEW b \in Books, NEW r, NEW m \in Markets, OnlyMarket(b, r, m),
         FundingMoves(b.markets[m], r.markets[m])
  PROVE  RatesMoved(b, r)
<1>1. /\ r \in Books /\ r.positions = b.positions /\ SameLists(b, r)
      /\ r.reserve = b.reserve /\ r.classes = b.classes
  BY DEF OnlyMarket
<1>2. ASSUME NEW n \in Markets PROVE FundingMoves(b.markets[n], r.markets[n])
  <2>1. b.markets[n] \in MarketRecords BY DEF Books
  <2>2. n # m => r.markets[n] = b.markets[n] BY DEF OnlyMarket
  <2> QED BY <2>1, <2>2, FundingStays
<1>3. ASSUME NEW c \in AssetClasses PROVE BorrowingMoves(b.classes[c], r.classes[c])
  <2>1. b.classes[c] \in ClassRecords BY DEF Books
  <2> QED BY <1>1, <2>1, BorrowingStays
<1> QED BY <1>1, <1>2, <1>3 DEF RatesMoved

LEMMA SetFundingRateKeeps ==
  ASSUME PerpInv, NEW m \in Markets, NEW rate \in Int, SetFundingRate(m, rate)
  PROVE  PerpInv'
<1> DEFINE k == book.markets[m]
           k1 == [k EXCEPT !.currentFundingRate = rate]
           q == [book EXCEPT !.markets[m] = k1]
           k2 == [q.markets[m] EXCEPT !.lastFundingTime = time]
           r == [q EXCEPT !.markets[m] = k2]
<1>1. book \in Books /\ k \in MarketRecords /\ time \in Int
  BY DEF PerpInv, Sound, Books
<1>2. k1 \in MarketRecords /\ k1.size = k.size /\ k1.accumFunding = k.accumFunding
      /\ k1.fundingAccrued = k.fundingAccrued
  <2> HIDE DEF k
  <2> QED BY <1>1 DEF MarketRecords
<1>3. /\ UNCHANGED <<config, fundingFeeReserve, time>>
      /\ book' = [[book EXCEPT !.markets[m].currentFundingRate = rate]
                    EXCEPT !.markets[m].lastFundingTime = time]
  BY Zenon DEF SetFundingRate
<1>4. [book EXCEPT !.markets[m].currentFundingRate = rate] = q
  BY Zenon
<1> HIDE DEF k1
<1>5. OnlyMarket(book, q, m) /\ q.markets[m] = k1
  BY <1>1, <1>2, PutMarket
<1> HIDE DEF q
<1>6. [q EXCEPT !.markets[m].lastFundingTime = time] = r BY Zenon
<1>7. book' = r BY <1>3, <1>4, <1>6
<1>8. q \in Books BY <1>5 DEF OnlyMarket
<1>9. k2 \in MarketRecords /\ k2.size = k.size /\ k2.accumFunding = k.accumFunding
      /\ k2.fundingAccrued = k.fundingAccrued /\ k2.lastFundingTime = time
  <2>1. k2 = [k1 EXCEPT !.lastFundingTime = time] BY <1>5
  <2> HIDE DEF k, k2
  <2> QED BY <1>1, <1>2, <2>1 DEF MarketRecords
<1> HIDE DEF k2
<1>10. OnlyMarket(q, r, m) /\ r.markets[m] = k2 BY <1>8, <1>9, PutMarket
<1> HIDE DEF r
<1>11. OnlyMarket(book, r, m)
  BY <1>5, <1>10 DEF OnlyMarket, SameLists
<1>12. FundingMoves(k, r.markets[m])
  <2>1. k.lastFundingTime \in Int BY <1>1 DEF MarketRecords
  <2>2. k.lastFundingTime <= time BY DEF PerpInv, Sound, Clocked
  <2>3. IntervalsTo(k.lastFundingTime) <= IntervalsTo(time)
    <3> HIDE DEF k
    <3> QED BY <1>1, <2>1, <2>2, LaterIntervals
  <2> HIDE DEF k
  <2> QED BY <1>1, <1>9, <1>10, <2>3 DEF FundingMoves
<1>13. RatesMoved(book, r) BY <1>1, <1>11, <1>12, OneMarketMoves
<1>14. Sound(book', time) BY <1>7, <1>13, RatesMovedSound DEF PerpInv
<1> QED BY <1>3, <1>14 DEF PerpInv, Configured

LEMMA BookValueIs == ASSUME NEW b \in Books PROVE BookValue(b) \in Nat
<1> DEFINE f == [m \in Markets |-> Owed(b.markets[m])]
<1>1. ASSUME NEW m \in Markets PROVE Owed(b.markets[m]) \in Nat
  <2>1. b.markets[m] \in MarketRecords BY DEF Books
  <2>2. /\ b.markets[m].accumFunding["long"] \in Int
        /\ b.markets[m].accumFunding["short"] \in Int
    BY <2>1 DEF MarketRecords, Sides
  <2> QED BY <2>2 DEF Owed
<1>2. f \in [Markets -> Nat] /\ IsFiniteSet(Markets) BY <1>1, BookAssumption
<1> HIDE DEF f
<1>3. SumOver(Markets, f) \in Nat BY <1>2, SumNat
<1> QED BY <1>3 DEF BookValue, f

LEMMA WithdrawFundingFeeSurplusKeeps ==
  ASSUME PerpInv, WithdrawFundingFeeSurplus
  PROVE  PerpInv'
<1> DEFINE markets == [m \in Markets |-> updateFundingRate(book, m).markets[m]]
           r == [book EXCEPT !.markets = markets]
<1>1. book \in Books /\ time \in Nat BY DEF PerpInv, Sound
<1>2. ASSUME NEW m \in Markets
      PROVE  FundingMoves(book.markets[m], markets[m]) /\ markets[m] \in MarketRecords
  BY <1>1, updateFundingRateIs DEF FundingMoves
<1>3. markets \in [Markets -> MarketRecords] BY <1>2
<1>4. /\ book' = r /\ UNCHANGED <<config, time>>
      /\ fundingFeeReserve' = BookValue(book) /\ BookValue(book) <= fundingFeeReserve
  BY DEF WithdrawFundingFeeSurplus
<1> HIDE DEF markets
<1>5. r = BookOf(book.positions, book.subAccountPositionIds, book.activePositionIds,
                 book.activeSubAccounts, markets, book.classes, book.reserve)
  BY <1>1, SetMarkets
<1> HIDE DEF r
<1>6. r \in Books BY <1>1, <1>3, <1>5 DEF Books, BookOf
<1>7. /\ r.positions = book.positions /\ SameLists(book, r) /\ r.reserve = book.reserve
      /\ r.markets = markets /\ r.classes = book.classes
  BY <1>5 DEF BookOf, SameLists
<1>8. \A c \in AssetClasses : BorrowingMoves(book.classes[c], r.classes[c])
  <2>1. \A c \in AssetClasses : book.classes[c] \in ClassRecords BY <1>1 DEF Books
  <2> QED BY <1>7, <2>1, BorrowingStays
<1>9. RatesMoved(book, r) BY <1>2, <1>6, <1>7, <1>8 DEF RatesMoved
<1>10. Sound(book', time) BY <1>4, <1>9, RatesMovedSound DEF PerpInv
<1>11. fundingFeeReserve' \in 0 .. MaxFunds
  <2>1. BookValue(book) \in Nat BY <1>1, BookValueIs
  <2> HIDE DEF r
  <2> QED BY <1>4, <2>1, BookAssumption DEF PerpInv
<1> QED BY <1>4, <1>10, <1>11 DEF PerpInv, Configured

LEMMA OtherActionsKeep ==
  ASSUME PerpInv, FundReserve \/ Tick \/ \E m \in Markets : SetMarketConfig(m)
  PROVE  PerpInv'
<1>1. CASE FundReserve
  BY <1>1, BookAssumption DEF FundReserve, PerpInv, Configured
<1>2. CASE Tick
  <2>1. time' \in Nat /\ time <= time' /\ UNCHANGED <<book, config, fundingFeeReserve>>
    BY <1>2 DEF Tick, PerpInv
  <2>2. \A m \in Markets : book.markets[m].lastFundingTime \in Int
                          /\ book.markets[m].lastFundingTime <= time /\ time \in Int
    <3>1. \A m \in Markets : book.markets[m] \in MarketRecords BY DEF PerpInv, Sound, Books
    <3> QED BY <3>1 DEF PerpInv, Sound, Clocked, MarketRecords
  <2>3. Clocked(book, time') BY <2>1, <2>2 DEF Clocked
  <2>4. Sound(book, time') BY <2>3 DEF PerpInv, Sound
  <2> QED BY <2>1, <2>4 DEF PerpInv, Configured
<1>3. CASE \E m \in Markets : SetMarketConfig(m)
  <2>1. PICK m \in Markets : SetMarketConfig(m) BY <1>3
  <2>2. PICK c \in Configs[m] : config' = [config EXCEPT ![m] = c]
    BY <2>1 DEF SetMarketConfig
  <2>3. c \in [active : BOOLEAN, reserveRate : Nat] BY BookAssumption
  <2>4. Configured' BY <2>2, <2>3 DEF PerpInv, Configured
  <2>5. UNCHANGED <<book, fundingFeeReserve, time>> BY <2>1 DEF SetMarketConfig
  <2> QED BY <2>4, <2>5 DEF PerpInv
<1> QED BY <1>1, <1>2, <1>3

-----------------------------------------------------------------------------
(* A new book. *)

LEMMA EmptyBookSound == ASSUME NEW t \in Nat PROVE Sound(EmptyBook, t)
<1> DEFINE b == EmptyBook
<1>1. /\ NoPosition \in Positions /\ NewMarket \in MarketRecords
      /\ NewClass \in ClassRecords
  BY DEF NoPosition, NewMarket, NewClass, Positions, MarketRecords, ClassRecords
<1>2. /\ b.positions = [id \in PositionIds |-> NoPosition]
      /\ b.subAccountPositionIds = [a \in SubAccounts |-> <<>>]
      /\ b.activePositionIds = {} /\ b.activeSubAccounts = {}
      /\ b.markets = [m \in Markets |-> NewMarket]
      /\ b.classes = [c \in AssetClasses |-> NewClass] /\ b.reserve = 0
  BY DEF EmptyBook
<1>3. b \in Books
  <2>1. b = BookOf([id \in PositionIds |-> NoPosition], [a \in SubAccounts |-> <<>>],
                   {}, {}, [m \in Markets |-> NewMarket],
                   [c \in AssetClasses |-> NewClass], 0)
    BY DEF EmptyBook, BookOf
  <2>2. /\ [id \in PositionIds |-> NoPosition] \in [PositionIds -> Positions]
        /\ [a \in SubAccounts |-> <<>>] \in [SubAccounts -> Seq(PositionIds)]
        /\ [m \in Markets |-> NewMarket] \in [Markets -> MarketRecords]
        /\ [c \in AssetClasses |-> NewClass] \in [AssetClasses -> ClassRecords]
    BY <1>1
  <2> QED BY <2>1, <2>2 DEF Books, BookOf
<1>4. \A id \in PositionIds : /\ b.positions[id] = NoPosition
                              /\ NoPosition.size = 0 /\ NoPosition.reserve = 0
  BY <1>2 DEF NoPosition
<1>11. IntervalsTo(0) = 0 BY BookAssumption DEF IntervalsTo
<1>12. Clocked(b, t) BY <1>2 DEF Clocked, NewMarket
<1> HIDE DEF b
<1>5. ASSUME NEW m \in Markets PROVE MarketAddsUp(b.positions, m, b.markets[m])
  <2>1. IsFiniteSet(SubAccounts) /\ \A a \in SubAccounts : <<a, m>> \in PositionIds
    BY BookAssumption DEF PositionIds
  <2>2. b.markets[m] = NewMarket BY <1>2
  <2> SUFFICES ASSUME NEW side \in Sides
               PROVE  /\ NewMarket.size[side] = SumOver(SubAccounts, SizesOf(b.positions, m, side))
                      /\ Within(NewMarket.accumFunding[side] - SumOver(SubAccounts,
                           FundingsOf(b.positions, m, NewMarket.fundingAccrued, side)),
                           2 * Cardinality(SubAccounts)
                             * IntervalsTo(NewMarket.lastFundingTime))
    BY <2>2 DEF MarketAddsUp
  <2>3. /\ SizeOf(NoPosition, side) = 0
        /\ FundingOf(NoPosition, NewMarket.fundingAccrued, side) = 0
        /\ NewMarket.size[side] = 0 /\ NewMarket.accumFunding[side] = 0
        /\ NewMarket.lastFundingTime = 0
    <3>1. FullFunding(NoPosition, NewMarket.fundingAccrued, side) = 0
      BY DEF NewMarket, NoPosition, FullFunding
    <3> QED BY <3>1, NothingIsNothing DEF NewMarket, NoPosition, SizeOf, FundingOf, Abs
  <2>4. /\ SizesOf(b.positions, m, side) = [a \in SubAccounts |-> 0]
        /\ FundingsOf(b.positions, m, NewMarket.fundingAccrued, side)
             = [a \in SubAccounts |-> 0]
    BY <1>4, <2>1, <2>3 DEF SizesOf, FundingsOf
  <2>5. SumOver(SubAccounts, [a \in SubAccounts |-> 0]) = 0 BY <2>1, SumZero
  <2>6. IntervalsTo(NewMarket.lastFundingTime) = 0 BY <1>11, <2>3
  <2>7. Cardinality(SubAccounts) \in Nat BY <2>1, FS_CardinalityType
  <2> QED BY <2>3, <2>4, <2>5, <2>6, <2>7 DEF Within
<1>6. ASSUME NEW c \in AssetClasses PROVE ClassAddsUp(b.positions, c, b.classes[c])
  <2>1. b.classes[c] = NewClass BY <1>2
  <2>2. /\ NewClass.reserve = 0 /\ NewClass.sumBorrowingRate = 0
        /\ NewClass.sumBorrowingFee - NewClass.sumSettledBorrowingFee = 0
        /\ NewClass.lastBorrowingTime = 0
    BY DEF NewClass
  <2>3. \A id \in PositionIds : /\ ReserveOf(b.positions, c, id) = 0
                                /\ FullFee(b.positions, c, 0, id) = 0
                                /\ FeeOf(b.positions, c, 0, id) = 0
    <3>1. \A id \in PositionIds : /\ ReserveOf(b.positions, c, id) = 0
                                  /\ FullFee(b.positions, c, 0, id) = 0
      BY <1>4 DEF ReserveOf, FullFee, NoPosition
    <3> QED BY <3>1, NothingIsNothing DEF FeeOf
  <2>4. /\ ReservesOf(b.positions, c) = [id \in PositionIds |-> 0]
        /\ FullFeesOf(b.positions, c, 0) = [id \in PositionIds |-> 0]
        /\ FeesOf(b.positions, c, 0) = [id \in PositionIds |-> 0]
    BY <2>3 DEF ReservesOf, FullFeesOf, FeesOf
  <2>5. SumOver(PositionIds, [id \in PositionIds |-> 0]) = 0 BY IdsFinite, SumZero
  <2>6. IntervalsTo(NewClass.lastBorrowingTime) = 0 BY <1>11, <2>2
  <2>7. Cardinality(PositionIds) \in Nat /\ RatePrecision \in Nat
    BY IdsFinite, FS_CardinalityType, BookAssumption
  <2> QED BY <2>1, <2>2, <2>3, <2>4, <2>5, <2>6, <2>7 DEF ClassAddsUp
<1>7. b.reserve = SumOver(AssetClasses, [c \in AssetClasses |-> b.classes[c].reserve])
  <2>1. [c \in AssetClasses |-> b.classes[c].reserve] = [c \in AssetClasses |-> 0]
    BY <1>2 DEF NewClass
  <2> QED BY <1>2, <2>1, SumZero, BookAssumption
<1>8. Reserved(b.positions) BY <1>4 DEF Reserved
<1>9. Totals(b) BY <1>5, <1>6, <1>7, <1>8 DEF Totals
<1>10. ListsExact(b)
  <2>1. \A a \in SubAccounts : b.subAccountPositionIds[a] = <<>> BY <1>2
  <2>2. Distinct(<<>>) /\ \A id \in PositionIds : ~Listed(<<>>, id)
    BY DEF Distinct, Listed
  <2> QED BY <1>2, <1>4, <2>1, <2>2 DEF ListsExact
<1> QED BY <1>3, <1>9, <1>10, <1>12 DEF Sound, b

(* PerpInv, in every state: whatever is opened, changed, liquidated or set,  *)
(* in whatever order and after however long.                                 *)
THEOREM PerpInvariance == Spec => []PerpInv
<1>1. Init => PerpInv
  <2> SUFFICES ASSUME Init PROVE PerpInv
    OBVIOUS
  <2>1. Sound(book, time)
    <3>1. time \in Nat BY BookAssumption DEF Init
    <3> QED BY <3>1, EmptyBookSound DEF Init
  <2>2. Configured
    <3>1. \A m \in Markets :
            config[m] \in [active : BOOLEAN, reserveRate : Nat] /\ config[m] \in Configs[m]
      BY BookAssumption DEF Init
    <3>2. config = [m \in Markets |-> config[m]] BY DEF Init
    <3> QED BY <3>1, <3>2 DEF Configured
  <2> QED BY <2>1, <2>2, BookAssumption DEF Init, PerpInv
<1>2. PerpInv /\ [Next]_vars => PerpInv'
  <2> SUFFICES ASSUME PerpInv, [Next]_vars PROVE PerpInv'
    OBVIOUS
  <2>1. CASE UNCHANGED vars BY <2>1 DEF vars, PerpInv, Configured
  <2>2. ASSUME NEW size \in SizeDeltas
        PROVE  size \in Int /\ size # 0 /\ -size \in Int /\ -size # 0 /\ size \in Nat
    BY BookAssumption
  <2>3. ASSUME NEW id \in PositionIds, NEW size \in SizeDeltas, IncreasePosition(id, size)
        PROVE  PerpInv'
    BY <2>2, <2>3, IncreasePositionKeeps
  <2>4. ASSUME NEW id \in PositionIds, NEW size \in SizeDeltas, IncreasePosition(id, -size)
        PROVE  PerpInv'
    <3> DEFINE delta == -size
    <3>1. delta \in Int /\ delta # 0 /\ IncreasePosition(id, delta) BY <2>2, <2>4
    <3> HIDE DEF delta
    <3> QED BY <3>1, IncreasePositionKeeps
  <2>5. ASSUME NEW id \in PositionIds, NEW size \in SizeDeltas, DecreasePosition(id, size)
        PROVE  PerpInv'
    BY <2>2, <2>5, DecreaseKeeps DEF DecreasePosition
  <2>6. ASSUME NEW id \in PositionIds, ForceClosePosition(id) PROVE PerpInv'
    <3>1. book.positions[id] \in Positions BY DEF PerpInv, Sound, Books
    <3>2. Abs(book.positions[id].size) \in Nat BY <3>1 DEF Positions, Abs
    <3> QED BY <2>6, <3>2, DecreaseKeeps DEF ForceClosePosition
  <2>7. ASSUME NEW a \in SubAccounts, Liquidate(a) PROVE PerpInv'
    BY <2>7, LiquidateKeeps
  <2>8. ASSUME WithdrawFundingFeeSurplus PROVE PerpInv'
    BY <2>8, WithdrawFundingFeeSurplusKeeps
  <2>9. ASSUME NEW m \in Markets, NEW rate \in FundingRates[m], SetFundingRate(m, rate)
        PROVE  PerpInv'
    <3>1. rate \in Int BY BookAssumption
    <3> QED BY <2>9, <3>1, SetFundingRateKeeps
  <2>10. ASSUME FundReserve \/ Tick \/ \E m \in Markets : SetMarketConfig(m) PROVE PerpInv'
    BY <2>10, OtherActionsKeep
  <2> QED BY <2>1, <2>3, <2>4, <2>5, <2>6, <2>7, <2>8, <2>9, <2>10 DEF Next
<1> QED BY <1>1, <1>2, PTL DEF Spec

-----------------------------------------------------------------------------
(* What the runs check. *)

(* Sizes and reserves never underflow: no decrease, forced close or          *)
(* liquidation reverts for it.                                               *)
THEOREM PerpTypes == Spec => []TypeOK
<1>1. PerpInv => TypeOK
  <2> SUFFICES ASSUME PerpInv PROVE TypeOK
    OBVIOUS
  <2>1. book \in Books /\ Totals(book) BY DEF PerpInv, Sound
  <2>2. \A id \in PositionIds :
          book.positions[id].size \in Int /\ book.positions[id].reserve \in Nat
    <3>1. \A id \in PositionIds : book.positions[id] \in Positions BY <2>1 DEF Books
    <3> QED BY <2>1, <3>1 DEF Positions, Totals, Reserved
  <2>3. ASSUME NEW m \in Markets, NEW side \in Sides PROVE book.markets[m].size[side] \in Nat
    <3> DEFINE f == SizesOf(book.positions, m, side)
    <3>1. \A a \in SubAccounts : <<a, m>> \in PositionIds BY DEF PositionIds
    <3>2. \A a \in SubAccounts : SizeOf(book.positions[<<a, m>>], side) \in Nat
      BY <2>2, <3>1 DEF SizeOf, Abs
    <3>3. f \in [SubAccounts -> Nat] /\ IsFiniteSet(SubAccounts)
      BY <3>2, BookAssumption DEF SizesOf
    <3>4. book.markets[m].size[side] = SumOver(SubAccounts, f)
      BY <2>1 DEF Totals, MarketAddsUp
    <3> HIDE DEF f
    <3> QED BY <3>3, <3>4, SumNat
  <2>4. ASSUME NEW c \in AssetClasses PROVE book.classes[c].reserve \in Nat
    <3> DEFINE f == ReservesOf(book.positions, c)
    <3>1. f \in [PositionIds -> Nat] BY <2>2 DEF ReservesOf, ReserveOf
    <3>2. book.classes[c].reserve = SumOver(PositionIds, f)
      BY <2>1 DEF Totals, ClassAddsUp
    <3> HIDE DEF f
    <3> QED BY <3>1, <3>2, IdsFinite, SumNat
  <2>5. book.reserve \in Nat
    <3> DEFINE f == [c \in AssetClasses |-> book.classes[c].reserve]
    <3>1. f \in [AssetClasses -> Nat] /\ IsFiniteSet(AssetClasses) BY <2>4, BookAssumption
    <3>2. book.reserve = SumOver(AssetClasses, f) BY <2>1 DEF Totals
    <3> HIDE DEF f
    <3> QED BY <3>1, <3>2, SumNat
  <2> QED BY <2>2, <2>3, <2>4, <2>5 DEF TypeOK, PerpInv
<1> QED BY <1>1, PerpInvariance, PTL

(* The open interest and the reserves are the sums over the open positions.  *)
THEOREM TotalsAreSums == Spec => []BookAddsUp
<1>1. PerpInv => BookAddsUp
  <2> SUFFICES ASSUME PerpInv PROVE BookAddsUp
    OBVIOUS
  <2>1. Totals(book) BY DEF PerpInv, Sound
  <2>2. \A id, side : SizeOn(id, side) = SizeOf(book.positions[id], side)
    BY DEF SizeOn, SizeOf
  <2>3. \A m \in Markets, side \in Sides :
          book.markets[m].size[side] =
            SumOver(SubAccounts, [a \in SubAccounts |-> SizeOn(<<a, m>>, side)])
    BY <2>1, <2>2 DEF Totals, MarketAddsUp, SizesOf
  <2>4. \A c \in AssetClasses : book.classes[c].reserve = ReserveIn(c)
    BY <2>1 DEF Totals, ClassAddsUp, ReserveIn, ReservesOf, ReserveOf
  <2> QED BY <2>1, <2>3, <2>4 DEF BookAddsUp, Totals
<1> QED BY <1>1, PerpInvariance, PTL

(* What a side has yet to pay or receive is what its positions would settle, *)
(* within two units for each interval and sub-account.                       *)
THEOREM FundingIsOwed == Spec => []FundingAddsUp
<1>1. PerpInv => FundingAddsUp
  <2> DEFINE bound(m) ==
               2 * Cardinality(SubAccounts) * IntervalsTo(book.markets[m].lastFundingTime)
  <2> SUFFICES ASSUME PerpInv, NEW m \in Markets, NEW side \in Sides
               PROVE  Abs(book.markets[m].accumFunding[side] - FundingOwed(m, side)) <= bound(m)
    BY DEF FundingAddsUp
  <2> DEFINE k == book.markets[m]
             n == k.accumFunding[side] - FundingOwed(m, side)
  <2>1. MarketAddsUp(book.positions, m, k) /\ book \in Books
    BY DEF PerpInv, Sound, Totals
  <2>2. k \in MarketRecords BY <2>1 DEF Books
  <2>3. \A a : LET p == book.positions[<<a, m>>]
               IN  FundingOf(p, k.fundingAccrued, side) =
                     IF SideOf(p) = side THEN FundingFee(book, <<a, m>>, p) ELSE 0
    BY NothingIsNothing DEF FundingOf, FullFunding, FundingFee, getFundingFee
  <2>4. FundingOwed(m, side)
          = SumOver(SubAccounts, FundingsOf(book.positions, m, k.fundingAccrued, side))
    BY <2>3 DEF FundingOwed, FundingsOf
  <2>5. Within(n, bound(m)) BY <2>1, <2>4 DEF MarketAddsUp
  <2>6. n \in Int
    <3>1. k.accumFunding[side] \in Int /\ k.fundingAccrued \in Int
      BY <2>2 DEF MarketRecords
    <3>2. \A a \in SubAccounts : book.positions[<<a, m>>] \in Positions
      BY <2>1 DEF PositionIds, Books
    <3> HIDE DEF k
    <3>3. FundingsOf(book.positions, m, k.fundingAccrued, side) \in [SubAccounts -> Int]
      BY <3>1, <3>2, PartsAreInts DEF FundingsOf
    <3>4. SumOver(SubAccounts, FundingsOf(book.positions, m, k.fundingAccrued, side)) \in Int
      BY <3>3, BookAssumption, SumInt
    <3> QED BY <2>4, <3>1, <3>4
  <2>7. bound(m) \in Int
    <3>1. k.lastFundingTime \in Int BY <2>2 DEF MarketRecords
    <3>2. IntervalsTo(k.lastFundingTime) \in Int BY <3>1, IntervalsAreInts
    <3>3. Cardinality(SubAccounts) \in Nat BY BookAssumption, FS_CardinalityType
    <3> QED BY <3>2, <3>3
  <2> HIDE DEF n, bound
  <2>8. Abs(n) <= bound(m) BY <2>5, <2>6, <2>7 DEF Within, Abs
  <2> QED BY <2>8 DEF n
<1> QED BY <1>1, PerpInvariance, PTL

(* The sums of an asset class, as the properties name them. *)
LEMMA ClassBooks ==
  ASSUME PerpInv, NEW c \in AssetClasses
  PROVE  LET k == book.classes[c]
             unsettled == k.sumBorrowingFee - k.sumSettledBorrowingFee
             n == IntervalsTo(k.lastBorrowingTime)
             full == SumOver(PositionIds, FullFeesOf(book.positions, c, k.sumBorrowingRate))
         IN  /\ k.sumBorrowingFee \in Int /\ k.sumSettledBorrowingFee \in Int
             /\ n \in Int /\ full \in Nat /\ BorrowingOwed(c) \in Int
             /\ full <= RatePrecision * (unsettled + n)
             /\ unsettled <= BorrowingOwed(c) + Cardinality(PositionIds) * n
             /\ RatePrecision * BorrowingOwed(c) <= full
<1> DEFINE R == RatePrecision
           k == book.classes[c]
           x == k.sumBorrowingRate
           fulls == FullFeesOf(book.positions, c, x)
           fees == FeesOf(book.positions, c, x)
<1>1. /\ book \in Books /\ ClassAddsUp(book.positions, c, k)
      /\ book.positions \in [PositionIds -> Positions] /\ k \in ClassRecords
  BY DEF PerpInv, Sound, Totals, Books
<1>2. /\ k.sumBorrowingFee \in Int /\ k.sumSettledBorrowingFee \in Int
      /\ x \in Int /\ k.lastBorrowingTime \in Int
  BY <1>1 DEF ClassRecords
<1>3. IntervalsTo(k.lastBorrowingTime) \in Int BY <1>2, IntervalsAreInts
<1>4. BorrowingOwed(c) = SumOver(PositionIds, fees)
  <2>1. \A id : FeeOf(book.positions, c, x, id) =
                  IF assetClass[id[2]] = c
                  THEN BorrowingFee(book, id, book.positions[id]) ELSE 0
    <3> SUFFICES ASSUME NEW id
                 PROVE  FeeOf(book.positions, c, x, id) =
                          IF assetClass[id[2]] = c
                          THEN BorrowingFee(book, id, book.positions[id]) ELSE 0
      OBVIOUS
    <3>1. CASE assetClass[id[2]] = c BY <3>1 DEF FeeOf, FullFee, BorrowingFee
    <3>2. CASE assetClass[id[2]] # c BY <3>2, NothingIsNothing DEF FeeOf, FullFee
    <3> QED BY <3>1, <3>2
  <2> HIDE DEF x
  <2> QED BY <2>1 DEF BorrowingOwed, FeesOf
<1>5. /\ \A id \in PositionIds : FullFee(book.positions, c, x, id) >= 0
      /\ SumOver(PositionIds, fulls)
           <= R * (k.sumBorrowingFee - k.sumSettledBorrowingFee
                     + IntervalsTo(k.lastBorrowingTime))
      /\ k.sumBorrowingFee - k.sumSettledBorrowingFee
           <= SumOver(PositionIds, fees)
                + Cardinality(PositionIds) * IntervalsTo(k.lastBorrowingTime)
  BY <1>1 DEF ClassAddsUp
<1> HIDE DEF x
<1>6. /\ fulls \in [PositionIds -> Int] /\ fees \in [PositionIds -> Int]
      /\ SumOver(PositionIds, fees) \in Int
  BY <1>1, <1>2, ClassSumsAreInts
<1>7. SumOver(PositionIds, fulls) \in Nat
  <2>1. \A id \in PositionIds : fulls[id] \in Int /\ fulls[id] >= 0
    BY <1>5, <1>6 DEF FullFeesOf
  <2> HIDE DEF fulls
  <2>2. fulls \in [PositionIds -> Nat] BY <1>6, <2>1
  <2> QED BY <2>2, IdsFinite, SumNat
<1>8. R * SumOver(PositionIds, fees) <= SumOver(PositionIds, fulls)
  <2>1. \A id \in PositionIds : R * fees[id] <= fulls[id]
    BY <1>1, <1>2, FeesOfAreInts DEF FeesOf, FullFeesOf
  <2>2. R \in Int BY BookAssumption
  <2> HIDE DEF fees, fulls, R
  <2> QED BY <1>6, <2>1, <2>2, IdsFinite, SumFloors
<1> QED BY <1>2, <1>3, <1>4, <1>5, <1>6, <1>7, <1>8 DEF x

(* The borrowing fees accrued and not settled are what the positions owe,    *)
(* less a unit for each interval at most, and above it by a unit for each    *)
(* interval and position.                                                    *)
THEOREM BorrowingIsOwed == Spec => []BorrowingAddsUp
<1>1. PerpInv => BorrowingAddsUp
  <2> SUFFICES ASSUME PerpInv, NEW c \in AssetClasses
               PROVE  LET k == book.classes[c]
                          intervals == IntervalsTo(k.lastBorrowingTime)
                          drift == k.sumBorrowingFee - k.sumSettledBorrowingFee
                                     - BorrowingOwed(c)
                      IN  /\ -intervals <= drift
                          /\ drift <= Cardinality(PositionIds) * intervals
    BY DEF BorrowingAddsUp
  <2> DEFINE R == RatePrecision
             k == book.classes[c]
             u == k.sumBorrowingFee - k.sumSettledBorrowingFee
             n == IntervalsTo(k.lastBorrowingTime)
             owed == BorrowingOwed(c)
             full == SumOver(PositionIds, FullFeesOf(book.positions, c, k.sumBorrowingRate))
  <2>1. /\ u \in Int /\ n \in Int /\ full \in Nat /\ owed \in Int
        /\ full <= R * (u + n) /\ u <= owed + Cardinality(PositionIds) * n
        /\ R * owed <= full
    BY ClassBooks
  <2>2. R \in Nat \ {0} /\ Cardinality(PositionIds) * n \in Int
    BY <2>1, BookAssumption, IdsFinite, FS_CardinalityType
  <2> HIDE DEF R, u, n, owed, full
  <2>3. owed - (u + n) <= 0
    <3> DEFINE y == owed - (u + n)
    <3>1. y \in Int /\ R * y = R * owed - R * (u + n) BY <2>1, <2>2
    <3>2. R * owed \in Int /\ R * (u + n) \in Int BY <2>1, <2>2
    <3> HIDE DEF y
    <3>3. R * y <= (R - 1) * (0 + 1) BY <2>1, <2>2, <3>1, <3>2
    <3>4. y <= 0 BY <2>2, <3>1, <3>3, AtMostWhole
    <3> QED BY <3>4 DEF y
  <2>4. -n <= u - owed /\ u - owed <= Cardinality(PositionIds) * n
    BY <2>1, <2>2, <2>3
  <2> QED BY <2>4 DEF u, n, owed
<1> QED BY <1>1, PerpInvariance, PTL

(* Traders settle no more borrowing fees than accrued, but for a unit for    *)
(* each interval: the pool's value does not revert for what truncation made. *)
THEOREM SettledWasAccrued == Spec => []SettledIsAccrued
<1>1. PerpInv => SettledIsAccrued
  <2> SUFFICES ASSUME PerpInv, NEW c \in AssetClasses
               PROVE  LET k == book.classes[c]
                      IN  k.sumSettledBorrowingFee
                            <= k.sumBorrowingFee + IntervalsTo(k.lastBorrowingTime)
    BY DEF SettledIsAccrued
  <2> DEFINE R == RatePrecision
             k == book.classes[c]
             accrued == k.sumBorrowingFee
             settled == k.sumSettledBorrowingFee
             n == IntervalsTo(k.lastBorrowingTime)
             full == SumOver(PositionIds, FullFeesOf(book.positions, c, k.sumBorrowingRate))
             z == settled - (accrued + n)
  <2>1. /\ accrued \in Int /\ settled \in Int /\ n \in Int /\ full \in Nat
        /\ full <= R * (accrued - settled + n)
    BY ClassBooks
  <2>2. R \in Nat \ {0} BY BookAssumption
  <2> HIDE DEF R, accrued, settled, n, full
  <2>3. z \in Int /\ accrued - settled + n = -z BY <2>1
  <2> HIDE DEF z
  <2>4. R * (-z) = -(R * z) /\ R * z \in Int BY <2>2, <2>3
  <2>5. R * z <= (R - 1) * (0 + 1) BY <2>1, <2>2, <2>3, <2>4
  <2>6. z <= 0 BY <2>2, <2>3, <2>5, AtMostWhole
  <2>7. settled <= accrued + n BY <2>1, <2>6 DEF z
  <2> QED BY <2>7 DEF accrued, settled, n
<1> QED BY <1>1, PerpInvariance, PTL

(* Every open position is found, and only once. *)
LEMMA DistinctLength ==
  ASSUME NEW T, NEW list \in Seq(T), Distinct(list),
         NEW E, E = {list[i] : i \in DOMAIN list}
  PROVE  Len(list) = Cardinality(E)
<1>1. Len(list) \in Nat /\ DOMAIN list = 1 .. Len(list) OBVIOUS
<1>2. list \in Bijection(1 .. Len(list), E)
  <2>1. list = [i \in 1 .. Len(list) |-> list[i]] BY <1>1
  <2>2. list \in [1 .. Len(list) -> E] BY <1>1, <2>1
  <2>3. list \in Injection(1 .. Len(list), E)
    BY <1>1, <2>2 DEF Injection, IsInjective, Distinct
  <2>4. list \in Surjection(1 .. Len(list), E)
    BY <1>1, <2>2 DEF Surjection
  <2> QED BY <2>3, <2>4 DEF Bijection
<1>3. ExistsBijection(1 .. Len(list), E) BY <1>2 DEF ExistsBijection
<1> QED BY <1>1, <1>3, FS_CountingElements

THEOREM OpenPositionsListed == Spec => []PositionsListed
<1>1. PerpInv => PositionsListed
  <2> SUFFICES ASSUME PerpInv PROVE PositionsListed
    OBVIOUS
  <2>1. ListsExact(book) /\ book \in Books BY DEF PerpInv, Sound
  <2>2. ASSUME NEW a \in SubAccounts
        PROVE  LET list == book.subAccountPositionIds[a]
               IN  /\ {list[i] : i \in DOMAIN list} = {id \in Open : id[1] = a}
                   /\ Len(list) = Cardinality({id \in Open : id[1] = a})
    <3> DEFINE list == book.subAccountPositionIds[a]
               E == {list[i] : i \in DOMAIN list}
               O == {id \in Open : id[1] = a}
    <3>1. list \in Seq(PositionIds) /\ Distinct(list) BY <2>1 DEF Books, ListsExact
    <3>2. \A id \in PositionIds : Listed(list, id) <=> id[1] = a /\ id \in Open
      BY <2>1 DEF ListsExact, Open
    <3>3. \A i \in DOMAIN list : list[i] \in PositionIds BY <3>1
    <3> HIDE DEF list
    <3>4. E = O BY <3>2, <3>3 DEF Listed, Open
    <3>5. Len(list) = Cardinality(E) BY <3>1, DistinctLength
    <3> QED BY <3>4, <3>5 DEF list
  <2>3. book.activePositionIds = Open BY <2>1 DEF ListsExact, Open
  <2>4. book.activeSubAccounts = {id[1] : id \in Open}
    BY <2>1 DEF ListsExact, Open, PositionIds
  <2> QED BY <2>2, <2>3, <2>4 DEF PositionsListed
<1> QED BY <1>1, PerpInvariance, PTL
=============================================================================
