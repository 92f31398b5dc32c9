----------------------------- MODULE SumsProofs -----------------------------
(* What the other proofs use of SumOver, for every finite set and every      *)
(* integer function on it: it is an integer, 0 on the zero function, at      *)
(* least each of its terms when all are naturals, it moves by exactly the    *)
(* change when one entry is assigned, and it is linear.  The recursive       *)
(* function behind SumOver is first shown to exist (SumExists) and to be     *)
(* unique (SumUnique), by taking a smallest counterexample.  And what they   *)
(* use of a loop over a list: the recursive function that Through chooses    *)
(* exists when every step stays in a set (RunExists), and whatever function  *)
(* satisfies such a recursion stays in the set (RunInvariant).               *)
EXTENDS Sums, FiniteSets, FiniteSetTheorems, NaturalsInduction,
        WellFoundedInduction, TLAPS

(* s is the function of subsets that SumOver's recursion describes. *)
IsSum(S, f, s) ==
  s = [T \in SUBSET S |-> IF T = {} THEN 0 ELSE f[Pick(T)] + s[T \ {Pick(T)}]]

SumUpTo(S, f, k) ==
  \E s \in [SUBSET S -> Int] :
     \A T \in SUBSET S : Cardinality(T) <= k =>
        s[T] = IF T = {} THEN 0 ELSE f[Pick(T)] + s[T \ {Pick(T)}]

(* The element Pick takes is in the set. *)
LEMMA PickIn == ASSUME NEW T, T # {} PROVE Pick(T) \in T
BY DEF Pick

(* A sum table right for subsets of up to k elements extends to k + 1. *)
LEMMA SumStep ==
  ASSUME NEW S, IsFiniteSet(S), NEW f \in [S -> Int], NEW k \in Nat, SumUpTo(S, f, k)
  PROVE  SumUpTo(S, f, k + 1)
<1>1. PICK s \in [SUBSET S -> Int] :
        \A T \in SUBSET S : Cardinality(T) <= k =>
           s[T] = IF T = {} THEN 0 ELSE f[Pick(T)] + s[T \ {Pick(T)}]
  BY DEF SumUpTo
<1> DEFINE r == [T \in SUBSET S |->
                   IF T = {} THEN 0 ELSE f[Pick(T)] + s[T \ {Pick(T)}]]
<1>2. r \in [SUBSET S -> Int]
  <2>1. ASSUME NEW T \in SUBSET S, T # {}
        PROVE  f[Pick(T)] + s[T \ {Pick(T)}] \in Int
    <3>1. Pick(T) \in S /\ T \ {Pick(T)} \in SUBSET S
      BY <2>1, PickIn
    <3> QED BY <3>1
  <2>2. \A T \in SUBSET S :
           (IF T = {} THEN 0 ELSE f[Pick(T)] + s[T \ {Pick(T)}]) \in Int
    <3> TAKE T \in SUBSET S
    <3>1. CASE T = {} BY <3>1
    <3>2. CASE T # {}
      <4> HIDE DEF r
      <4> QED BY <3>2, <2>1
    <3> QED BY <3>1, <3>2
  <2> QED BY <2>2, Zenon
<1>3. \A T \in SUBSET S : Cardinality(T) <= k => r[T] = s[T]
  BY <1>1
<1>4. ASSUME NEW T \in SUBSET S, Cardinality(T) <= k + 1, T # {}
      PROVE  r[T \ {Pick(T)}] = s[T \ {Pick(T)}]
  <2>1. IsFiniteSet(T) /\ Cardinality(T) \in Nat
    BY FS_Subset, FS_CardinalityType
  <2>2. Cardinality(T \ {Pick(T)}) = Cardinality(T) - 1
    <3>1. Pick(T) \in T BY <1>4, PickIn
    <3> QED BY <2>1, <3>1, FS_RemoveElement
  <2>3. Cardinality(T \ {Pick(T)}) <= k
    BY <2>1, <2>2, <1>4
  <2> QED BY <2>3, <1>3
<1>5. \A T \in SUBSET S : Cardinality(T) <= k + 1 =>
        r[T] = IF T = {} THEN 0 ELSE f[Pick(T)] + r[T \ {Pick(T)}]
  BY <1>4
<1> HIDE DEF r
<1> QED BY <1>2, <1>5 DEF SumUpTo

(* So there are tables for subsets of any size. *)
LEMMA SumAll ==
  ASSUME NEW S, IsFiniteSet(S), NEW f \in [S -> Int]
  PROVE  \A k \in Nat : SumUpTo(S, f, k)
<1> DEFINE Bad == {k \in Nat : ~ SumUpTo(S, f, k)}
<1>1. SUFFICES ASSUME Bad # {} PROVE FALSE
  OBVIOUS
<1>2. IsWellFoundedOn(OpToRel(<, Nat), Nat)
  BY NatLessThanWellFounded
<1>3. PICK k \in Bad : \A j \in Bad : ~ (<<j, k>> \in OpToRel(<, Nat))
  <2> HIDE DEF Bad
  <2>1. Bad \subseteq Nat BY DEF Bad
  <2> QED BY <1>1, <1>2, <2>1, WFMin
<1>4. \A j \in Bad : ~ (j < k)
  BY <1>3 DEF OpToRel
<1>5. SumUpTo(S, f, 0)
  <2> DEFINE z == [T \in SUBSET S |-> 0]
  <2>1. z \in [SUBSET S -> Int] OBVIOUS
  <2>2. \A T \in SUBSET S : Cardinality(T) <= 0 => T = {}
    <3> SUFFICES ASSUME NEW T \in SUBSET S, Cardinality(T) <= 0 PROVE T = {}
      OBVIOUS
    <3>1. IsFiniteSet(T) /\ Cardinality(T) \in Nat
      BY FS_Subset, FS_CardinalityType
    <3> QED BY <3>1, FS_EmptySet
  <2>3. \A T \in SUBSET S : Cardinality(T) <= 0 =>
          z[T] = IF T = {} THEN 0 ELSE f[Pick(T)] + z[T \ {Pick(T)}]
    BY <2>2
  <2> HIDE DEF z
  <2> QED BY <2>1, <2>3 DEF SumUpTo
<1>6. k # 0 BY <1>5
<1>7. k - 1 \in Nat /\ ~ (k - 1 \in Bad)
  BY <1>4, <1>6
<1>8. SumUpTo(S, f, k - 1) BY <1>7
<1>9. SumUpTo(S, f, (k - 1) + 1) BY <1>7, <1>8, SumStep
<1> QED BY <1>9

(* SumOver's recursive function exists, and its values are integers. *)
LEMMA SumExists ==
  ASSUME NEW S, IsFiniteSet(S), NEW f \in [S -> Int]
  PROVE  \E s : IsSum(S, f, s) /\ s \in [SUBSET S -> Int]
<1>0. Cardinality(S) \in Nat BY FS_CardinalityType
<1>1. SumUpTo(S, f, Cardinality(S)) BY <1>0, SumAll
<1>2. PICK s \in [SUBSET S -> Int] :
     \A T \in SUBSET S : Cardinality(T) <= Cardinality(S) =>
        s[T] = IF T = {} THEN 0 ELSE f[Pick(T)] + s[T \ {Pick(T)}]
  BY <1>1 DEF SumUpTo
<1>3. \A T \in SUBSET S : Cardinality(T) <= Cardinality(S)
  BY FS_Subset
<1>4. IsSum(S, f, s)
  <2>1. \A T \in SUBSET S : s[T] = IF T = {} THEN 0 ELSE f[Pick(T)] + s[T \ {Pick(T)}]
    BY <1>2, <1>3
  <2>2. s = [T \in SUBSET S |-> s[T]] OBVIOUS
  <2> QED BY <2>1, <2>2 DEF IsSum
<1> QED BY <1>4

(* A family of subsets of a finite set has a minimal member. *)
LEMMA SmallestSubset ==
  ASSUME NEW S, IsFiniteSet(S), NEW B \in SUBSET (SUBSET S), B # {}
  PROVE  \E T \in B : \A U \in B : ~ (U \subseteq T /\ U # T)
<1>1. IsWellFoundedOn(StrictSubsetOrdering(S), FiniteSubsetsOf(S))
  BY FS_StrictSubsetOrderingWellFounded
<1>2. FiniteSubsetsOf(S) = SUBSET S
  BY FS_FiniteSubsetsOfFinite
<1>3. \E T \in B : \A U \in B : ~ (<<U, T>> \in StrictSubsetOrdering(S))
  BY <1>1, <1>2, WFMin
<1> QED BY <1>3 DEF StrictSubsetOrdering

(* Only one function satisfies the recursion. *)
LEMMA SumUnique ==
  ASSUME NEW S, IsFiniteSet(S), NEW f, NEW a, NEW b,
         IsSum(S, f, a), IsSum(S, f, b)
  PROVE  a = b
<1> DEFINE Bad == {T \in SUBSET S : a[T] # b[T]}
<1>1. Bad = {}
  <2>1. SUFFICES ASSUME Bad # {} PROVE FALSE
    OBVIOUS
  <2>2. PICK T \in Bad : \A U \in Bad : ~ (U \subseteq T /\ U # T)
    <3>1. Bad \in SUBSET (SUBSET S) OBVIOUS
    <3> HIDE DEF Bad
    <3> QED BY <2>1, <3>1, SmallestSubset
  <2>3. T # {}
    BY DEF IsSum
  <2>4. Pick(T) \in T BY <2>3, PickIn
  <2>5. a[T \ {Pick(T)}] = b[T \ {Pick(T)}] BY <2>2, <2>4
  <2>6. a[T] = f[Pick(T)] + a[T \ {Pick(T)}]
    BY <2>3 DEF IsSum
  <2>7. b[T] = f[Pick(T)] + b[T \ {Pick(T)}]
    BY <2>3 DEF IsSum
  <2> QED BY <2>5, <2>6, <2>7
<1> QED BY <1>1 DEF IsSum

(* SumOver is the value, at the whole set, of a function satisfying it. *)
LEMMA SumIs ==
  ASSUME NEW S, IsFiniteSet(S), NEW f \in [S -> Int]
  PROVE  \E s \in [SUBSET S -> Int] : IsSum(S, f, s) /\ SumOver(S, f) = s[S]
<1> DEFINE sm == CHOOSE s : IsSum(S, f, s)
<1>1. IsSum(S, f, sm)
  BY SumExists
<1>2. SumOver(S, f) = sm[S]
  BY DEF SumOver, IsSum
<1>3. sm \in [SUBSET S -> Int]
  <2> HIDE DEF sm
  <2>1. PICK s : IsSum(S, f, s) /\ s \in [SUBSET S -> Int] BY SumExists
  <2>2. s = sm BY <2>1, <1>1, SumUnique
  <2> QED BY <2>1, <2>2
<1> HIDE DEF sm
<1> QED BY <1>1, <1>2, <1>3

(* When one term changes, the sum changes by as much: what moves one         *)
(* trader's balance or debt moves the total.                                 *)
LEMMA SumUpdate ==
  ASSUME NEW S, IsFiniteSet(S), NEW f \in [S -> Int],
         NEW h \in [S -> Int], NEW x \in S,
         \A y \in S : y # x => h[y] = f[y]
  PROVE  SumOver(S, h) = SumOver(S, f) - f[x] + h[x]
<1>2. PICK a \in [SUBSET S -> Int] : IsSum(S, f, a) /\ SumOver(S, f) = a[S]
  BY SumIs
<1>3. PICK b \in [SUBSET S -> Int] : IsSum(S, h, b) /\ SumOver(S, h) = b[S]
  BY SumIs
<1> DEFINE Bad == {T \in SUBSET S : b[T] # a[T] + (IF x \in T THEN h[x] - f[x] ELSE 0)}
<1>4. Bad = {}
  <2>1. SUFFICES ASSUME Bad # {} PROVE FALSE
    OBVIOUS
  <2>2. PICK T \in Bad : \A U \in Bad : ~ (U \subseteq T /\ U # T)
    <3>1. Bad \in SUBSET (SUBSET S) OBVIOUS
    <3> HIDE DEF Bad
    <3> QED BY <2>1, <3>1, SmallestSubset
  <2>3. T # {}
    <3>1. a[{}] = 0 /\ b[{}] = 0 BY <1>2, <1>3 DEF IsSum
    <3>2. b[T] # a[T] + (IF x \in T THEN h[x] - f[x] ELSE 0) OBVIOUS
    <3>3. CASE T = {}
      <4>1. b[T] = 0 /\ a[T] = 0 /\ x \notin T BY <3>1, <3>3
      <4> QED BY <3>2, <4>1
    <3> QED BY <3>3
  <2>4. Pick(T) \in T /\ Pick(T) \in S BY <2>3, PickIn
  <2>5. T \ {Pick(T)} \notin Bad BY <2>2, <2>4
  <2>6. b[T \ {Pick(T)}] = a[T \ {Pick(T)}] + (IF x \in T \ {Pick(T)} THEN h[x] - f[x] ELSE 0)
    BY <2>5
  <2>7. a[T] = f[Pick(T)] + a[T \ {Pick(T)}]
    BY <1>2, <2>3 DEF IsSum
  <2>8. b[T] = h[Pick(T)] + b[T \ {Pick(T)}]
    BY <1>3, <2>3 DEF IsSum
  <2>9. b[T] = a[T] + (IF x \in T THEN h[x] - f[x] ELSE 0)
    BY <2>4, <2>6, <2>7, <2>8
  <2> QED BY <2>9
<1>5. b[S] = a[S] + (h[x] - f[x])
  BY <1>4
<1> QED BY <1>2, <1>3, <1>5

(* A sum of integers is an integer. *)
LEMMA SumInt ==
  ASSUME NEW S, IsFiniteSet(S), NEW f \in [S -> Int]
  PROVE  SumOver(S, f) \in Int
<1>1. PICK s \in [SUBSET S -> Int] : SumOver(S, f) = s[S]
  BY SumIs
<1> QED BY <1>1

(* A sum of zeros is zero: a new vault owes nothing. *)
LEMMA SumZero ==
  ASSUME NEW S, IsFiniteSet(S)
  PROVE  SumOver(S, [x \in S |-> 0]) = 0
<1> DEFINE f == [x \in S |-> 0]
<1>1. f \in [S -> Int] OBVIOUS
<1>2. PICK a \in [SUBSET S -> Int] : IsSum(S, f, a) /\ SumOver(S, f) = a[S]
  <2> HIDE DEF f
  <2> QED BY <1>1, SumIs
<1> DEFINE Bad == {T \in SUBSET S : a[T] # 0}
<1>3. Bad = {}
  <2>1. SUFFICES ASSUME Bad # {} PROVE FALSE
    OBVIOUS
  <2>2. PICK T \in Bad : \A U \in Bad : ~ (U \subseteq T /\ U # T)
    <3>1. Bad \in SUBSET (SUBSET S) OBVIOUS
    <3> HIDE DEF Bad
    <3> QED BY <2>1, <3>1, SmallestSubset
  <2>3. T # {}
    <3>1. a[{}] = 0 BY <1>2 DEF IsSum
    <3> QED BY <3>1
  <2>4. Pick(T) \in T /\ Pick(T) \in S BY <2>3, PickIn
  <2>5. a[T \ {Pick(T)}] = 0 BY <2>2, <2>4
  <2>6. a[T] = f[Pick(T)] + a[T \ {Pick(T)}] BY <1>2, <2>3 DEF IsSum
  <2> QED BY <2>4, <2>5, <2>6
<1> QED BY <1>2, <1>3

(* A sum of natural numbers is a natural number. *)
LEMMA SumNat ==
  ASSUME NEW S, IsFiniteSet(S), NEW f \in [S -> Nat]
  PROVE  SumOver(S, f) \in Nat
<1>0. f \in [S -> Int] OBVIOUS
<1>1. PICK a \in [SUBSET S -> Int] : IsSum(S, f, a) /\ SumOver(S, f) = a[S]
  BY <1>0, SumIs
<1> DEFINE Bad == {T \in SUBSET S : a[T] < 0}
<1>2. Bad = {}
  <2>1. SUFFICES ASSUME Bad # {} PROVE FALSE
    OBVIOUS
  <2>2. PICK T \in Bad : \A U \in Bad : ~ (U \subseteq T /\ U # T)
    <3>1. Bad \in SUBSET (SUBSET S) OBVIOUS
    <3> HIDE DEF Bad
    <3> QED BY <2>1, <3>1, SmallestSubset
  <2>3. T # {}
    <3>1. a[{}] = 0 BY <1>1 DEF IsSum
    <3>2. CASE T = {}
      <4>1. a[T] = 0 BY <3>1, <3>2
      <4> QED BY <4>1
    <3> QED BY <3>2
  <2>4. Pick(T) \in T /\ Pick(T) \in S BY <2>3, PickIn
  <2>5. a[T \ {Pick(T)}] >= 0 BY <2>2, <2>4
  <2>6. a[T] = f[Pick(T)] + a[T \ {Pick(T)}] BY <1>1, <2>3 DEF IsSum
  <2> QED BY <2>4, <2>5, <2>6
<1> QED BY <1>1, <1>2

(* No term exceeds a sum of terms that are not negative. *)
LEMMA SumAtLeastTerm ==
  ASSUME NEW S, IsFiniteSet(S), NEW f \in [S -> Int],
         \A y \in S : f[y] >= 0, NEW x \in S
  PROVE  f[x] <= SumOver(S, f)
<1> DEFINE g == [f EXCEPT ![x] = 0]
<1>1. g \in [S -> Int] /\ g \in [S -> Nat] /\ g[x] = 0 /\ \A y \in S : y # x => g[y] = f[y]
  OBVIOUS
<1> HIDE DEF g
<1>2. SumOver(S, g) = SumOver(S, f) - f[x] + g[x]
  BY <1>1, SumUpdate
<1>3. SumOver(S, g) \in Nat
  BY <1>1, SumNat
<1>4. SumOver(S, f) \in Int BY SumInt
<1> QED BY <1>1, <1>2, <1>3, <1>4

(* Where every term grows by c times another sum's term, the sum grows by c  *)
(* times the other sum: what a change of a rate costs all who pay it.        *)
LEMMA SumScaled ==
  ASSUME NEW S, IsFiniteSet(S), NEW f \in [S -> Int], NEW g \in [S -> Int],
         NEW h \in [S -> Int], NEW c \in Int, \A x \in S : h[x] = f[x] + c * g[x]
  PROVE  SumOver(S, h) = SumOver(S, f) + c * SumOver(S, g)
<1>1. PICK a \in [SUBSET S -> Int] : IsSum(S, f, a) /\ SumOver(S, f) = a[S]
  BY SumIs
<1>2. PICK b \in [SUBSET S -> Int] : IsSum(S, g, b) /\ SumOver(S, g) = b[S]
  BY SumIs
<1>3. PICK d \in [SUBSET S -> Int] : IsSum(S, h, d) /\ SumOver(S, h) = d[S]
  BY SumIs
<1> DEFINE Bad == {T \in SUBSET S : d[T] # a[T] + c * b[T]}
<1>4. Bad = {}
  <2>1. SUFFICES ASSUME Bad # {} PROVE FALSE
    OBVIOUS
  <2>2. PICK T \in Bad : \A U \in Bad : ~ (U \subseteq T /\ U # T)
    <3>1. Bad \in SUBSET (SUBSET S) OBVIOUS
    <3> HIDE DEF Bad
    <3> QED BY <2>1, <3>1, SmallestSubset
  <2>3. T # {}
    <3>1. a[{}] = 0 /\ b[{}] = 0 /\ d[{}] = 0 BY <1>1, <1>2, <1>3 DEF IsSum
    <3>2. c * 0 = 0 OBVIOUS
    <3>3. d[{}] = a[{}] + c * b[{}] BY <3>1, <3>2
    <3> QED BY <3>3
  <2> DEFINE x == Pick(T)
             U == T \ {x}
  <2>4. x \in T /\ x \in S /\ U \in SUBSET S BY <2>3, PickIn
  <2>5. U \notin Bad BY <2>2, <2>4
  <2>6. d[U] = a[U] + c * b[U] BY <2>4, <2>5
  <2>7. a[T] = f[x] + a[U] BY <1>1, <2>3 DEF IsSum
  <2>8. b[T] = g[x] + b[U] BY <1>2, <2>3 DEF IsSum
  <2>9. d[T] = h[x] + d[U] BY <1>3, <2>3 DEF IsSum
  <2>10. h[x] = f[x] + c * g[x] BY <2>4
  <2>11. /\ f[x] \in Int /\ g[x] \in Int /\ a[U] \in Int /\ b[U] \in Int
    BY <2>4
  <2> HIDE DEF x, U
  <2>12. c * (g[x] + b[U]) = c * g[x] + c * b[U] BY <2>11
  <2> QED BY <2>6, <2>7, <2>8, <2>9, <2>10, <2>11, <2>12
<1>5. d[S] = a[S] + c * b[S] BY <1>4
<1> QED BY <1>1, <1>2, <1>3, <1>5

(* As many ones as there are elements. *)
LEMMA SumOnes ==
  ASSUME NEW S, IsFiniteSet(S)
  PROVE  SumOver(S, [x \in S |-> 1]) = Cardinality(S)
<1> DEFINE f == [x \in S |-> 1]
<1>1. f \in [S -> Int] OBVIOUS
<1>2. PICK a \in [SUBSET S -> Int] : IsSum(S, f, a) /\ SumOver(S, f) = a[S]
  <2> HIDE DEF f
  <2> QED BY <1>1, SumIs
<1> DEFINE Bad == {T \in SUBSET S : a[T] # Cardinality(T)}
<1>3. Bad = {}
  <2>1. SUFFICES ASSUME Bad # {} PROVE FALSE
    OBVIOUS
  <2>2. PICK T \in Bad : \A U \in Bad : ~ (U \subseteq T /\ U # T)
    <3>1. Bad \in SUBSET (SUBSET S) OBVIOUS
    <3> HIDE DEF Bad
    <3> QED BY <2>1, <3>1, SmallestSubset
  <2>3. T # {}
    <3>1. a[{}] = 0 BY <1>2 DEF IsSum
    <3> QED BY <3>1, FS_EmptySet
  <2>4. Pick(T) \in T /\ Pick(T) \in S BY <2>3, PickIn
  <2>5. a[T \ {Pick(T)}] = Cardinality(T \ {Pick(T)}) BY <2>2, <2>4
  <2>6. a[T] = f[Pick(T)] + a[T \ {Pick(T)}] BY <1>2, <2>3 DEF IsSum
  <2>7. IsFiniteSet(T) /\ Cardinality(T) \in Nat
    BY FS_Subset, FS_CardinalityType
  <2>8. Cardinality(T \ {Pick(T)}) = Cardinality(T) - 1
    BY <2>4, <2>7, FS_RemoveElement
  <2> QED BY <2>4, <2>5, <2>6, <2>7, <2>8
<1> QED BY <1>2, <1>3

(* A sum of terms that are at most c is at most c times their number. *)
LEMMA SumAtMost ==
  ASSUME NEW S, IsFiniteSet(S), NEW f \in [S -> Int], NEW c \in Int,
         \A x \in S : f[x] <= c
  PROVE  SumOver(S, f) <= c * Cardinality(S)
<1> DEFINE ones == [x \in S |-> 1]
           zeros == [x \in S |-> 0]
           full == [x \in S |-> c]
           short == [x \in S |-> c - f[x]]
           d == -1
<1>1. short \in [S -> Nat] OBVIOUS
<1>2. SumOver(S, ones) = Cardinality(S) /\ SumOver(S, zeros) = 0
  BY SumOnes, SumZero
<1>3. Cardinality(S) \in Nat BY FS_CardinalityType
<1>4. SumOver(S, full) = SumOver(S, zeros) + c * SumOver(S, ones)
  <2>1. ones \in [S -> Int] /\ zeros \in [S -> Int] /\ full \in [S -> Int] OBVIOUS
  <2>2. \A x \in S : full[x] = zeros[x] + c * ones[x] OBVIOUS
  <2> HIDE DEF ones, zeros, full
  <2> QED BY ONLY <2>1, <2>2, IsFiniteSet(S), c \in Int, SumScaled
<1>5. SumOver(S, short) = SumOver(S, full) + d * SumOver(S, f)
  <2>1. full \in [S -> Int] /\ short \in [S -> Int] /\ d \in Int OBVIOUS
  <2>2. \A x \in S : short[x] = full[x] + d * f[x] OBVIOUS
  <2> HIDE DEF full, short, d
  <2> QED BY <2>1, <2>2, SumScaled
<1> HIDE DEF ones, zeros, full, short
<1>6. SumOver(S, short) \in Nat BY <1>1, SumNat
<1>7. SumOver(S, f) \in Int /\ c * Cardinality(S) \in Int BY <1>3, SumInt
<1>8. SumOver(S, full) = c * Cardinality(S) BY <1>2, <1>4, <1>7
<1> HIDE DEF full
<1> DEFINE total == SumOver(S, f)
           all == c * Cardinality(S)
<1>9. total \in Int /\ all \in Int /\ SumOver(S, short) = all - total
  BY <1>5, <1>7, <1>8
<1> HIDE DEF total, all
<1>10. total <= all BY <1>6, <1>9
<1> QED BY <1>10 DEF total, all

-----------------------------------------------------------------------------
(* Loops. *)

(* f is the run of n steps that begins with start. *)
IsRun(f, n, start, step) ==
  f = [i \in 0 .. n |-> IF i = 0 THEN start ELSE step[<<f[i - 1], i>>]]

RunUpTo(S, n, start, step, k) ==
  \E f \in [0 .. n -> S] :
     \A i \in 0 .. n : i <= k => f[i] = IF i = 0 THEN start ELSE step[<<f[i - 1], i>>]

(* A set of naturals that is not empty has a least element.                  *)
LEMMA SmallestNat ==
  ASSUME NEW B \in SUBSET Nat, B # {}
  PROVE  \E k \in B : \A j \in B : ~ (j < k)
<1>1. IsWellFoundedOn(OpToRel(<, Nat), Nat)
  BY NatLessThanWellFounded
<1>2. \E k \in B : \A j \in B : ~ (<<j, k>> \in OpToRel(<, Nat))
  BY <1>1, WFMin
<1> QED BY <1>2 DEF OpToRel

(* A run that is right up to step k can be made right up to step k + 1.      *)
LEMMA RunStep ==
  ASSUME NEW S, NEW n \in Nat, NEW start \in S, NEW step \in [S \X (1 .. n) -> S],
         NEW k \in Nat, RunUpTo(S, n, start, step, k)
  PROVE  RunUpTo(S, n, start, step, k + 1)
<1>1. PICK f \in [0 .. n -> S] :
        \A i \in 0 .. n : i <= k => f[i] = IF i = 0 THEN start ELSE step[<<f[i - 1], i>>]
  BY DEF RunUpTo
<1> DEFINE g == [i \in 0 .. n |-> IF i = 0 THEN start ELSE step[<<f[i - 1], i>>]]
<1>2. g \in [0 .. n -> S]
  <2>1. ASSUME NEW i \in 0 .. n, i # 0 PROVE step[<<f[i - 1], i>>] \in S
    <3>1. <<f[i - 1], i>> \in S \X (1 .. n) BY <2>1
    <3> QED BY <3>1
  <2> QED BY <2>1
<1>3. \A i \in 0 .. n : i <= k => g[i] = f[i]
  BY <1>1
<1>4. \A i \in 0 .. n : i <= k + 1 => g[i] = IF i = 0 THEN start ELSE step[<<g[i - 1], i>>]
  <2> SUFFICES ASSUME NEW i \in 0 .. n, i <= k + 1
               PROVE  g[i] = IF i = 0 THEN start ELSE step[<<g[i - 1], i>>]
    OBVIOUS
  <2>1. CASE i = 0 BY <2>1
  <2>2. CASE i # 0
    <3>1. i - 1 \in 0 .. n /\ i - 1 <= k BY <2>2
    <3>2. g[i - 1] = f[i - 1] BY <3>1, <1>3
    <3> QED BY <2>2, <3>2
  <2> QED BY <2>1, <2>2
<1> HIDE DEF g
<1> QED BY <1>2, <1>4 DEF RunUpTo

(* There is a run of n steps, and it stays in the set the steps stay in.     *)
LEMMA RunExists ==
  ASSUME NEW S, NEW n \in Nat, NEW start \in S, NEW step \in [S \X (1 .. n) -> S]
  PROVE  \E f \in [0 .. n -> S] : IsRun(f, n, start, step)
<1>1. \A k \in Nat : RunUpTo(S, n, start, step, k)
  <2> DEFINE Bad == {k \in Nat : ~ RunUpTo(S, n, start, step, k)}
  <2>1. SUFFICES ASSUME Bad # {} PROVE FALSE
    OBVIOUS
  <2>2. PICK k \in Bad : \A j \in Bad : ~ (j < k)
    <3>1. Bad \in SUBSET Nat OBVIOUS
    <3> HIDE DEF Bad
    <3> QED BY <2>1, <3>1, SmallestNat
  <2>3. RunUpTo(S, n, start, step, 0)
    <3> DEFINE z == [i \in 0 .. n |-> start]
    <3>1. z \in [0 .. n -> S] OBVIOUS
    <3>2. \A i \in 0 .. n : i <= 0 => z[i] = IF i = 0 THEN start ELSE step[<<z[i - 1], i>>]
      OBVIOUS
    <3> HIDE DEF z
    <3> QED BY <3>1, <3>2 DEF RunUpTo
  <2>4. k # 0 BY <2>3
  <2>5. k - 1 \in Nat /\ ~ (k - 1 \in Bad) BY <2>2, <2>4
  <2>6. RunUpTo(S, n, start, step, k - 1) BY <2>5
  <2>7. RunUpTo(S, n, start, step, (k - 1) + 1) BY <2>5, <2>6, RunStep
  <2> QED BY <2>7
<1>2. PICK f \in [0 .. n -> S] :
        \A i \in 0 .. n : i <= n => f[i] = IF i = 0 THEN start ELSE step[<<f[i - 1], i>>]
  BY <1>1 DEF RunUpTo
<1>3. f = [i \in 0 .. n |-> IF i = 0 THEN start ELSE step[<<f[i - 1], i>>]]
  BY <1>2
<1> QED BY <1>3 DEF IsRun

(* Where every step leads from the set into the set, the run ends in it.     *)
LEMMA RunInvariant ==
  ASSUME NEW S, NEW n \in Nat, NEW f,
         f[0] \in S, \A i \in 1 .. n : f[i - 1] \in S => f[i] \in S
  PROVE  f[n] \in S
<1> DEFINE Bad == {i \in 0 .. n : f[i] \notin S}
<1>1. Bad = {}
  <2>1. SUFFICES ASSUME Bad # {} PROVE FALSE
    OBVIOUS
  <2>2. PICK i \in Bad : \A j \in Bad : ~ (j < i)
    <3>1. Bad \in SUBSET Nat OBVIOUS
    <3> HIDE DEF Bad
    <3> QED BY <2>1, <3>1, SmallestNat
  <2>3. i # 0 OBVIOUS
  <2>4. i - 1 \in 0 .. n /\ i - 1 \notin Bad BY <2>2, <2>3
  <2> QED BY <2>3, <2>4
<1> QED BY <1>1

(* What holds at the start and after every step if it held before it holds   *)
(* at the end.                                                               *)
LEMMA HoldsAtEnd ==
  ASSUME NEW n \in Nat, NEW G, 0 \in G, \A i \in 1 .. n : i - 1 \in G => i \in G
  PROVE  n \in G
<1> DEFINE f == [i \in 0 .. n |-> i]
<1>1. f[0] \in G /\ f[n] = n /\ \A i \in 1 .. n : f[i] = i /\ f[i - 1] = i - 1
  OBVIOUS
<1> HIDE DEF f
<1> QED BY <1>1, RunInvariant
=============================================================================
