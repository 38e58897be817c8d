-------------------------- MODULE ArithmeticProofs --------------------------
(***************************************************************************)
(* What the operators of ConversionCurve return, for every natural number, *)
(* and what a sum over a finite set is.                                    *)
(***************************************************************************)
EXTENDS ConversionCurve, FiniteSetTheorems, WellFoundedInduction, TLAPS

-----------------------------------------------------------------------------
(***************************************************************************)
(* Squaring preserves and reflects the order of the natural numbers.       *)
(***************************************************************************)
LEMMA Square ==
  ASSUME NEW a \in Nat, NEW b \in Nat
  PROVE  /\ a * a \in Nat
         /\ a <= a * a
         /\ a <= b <=> a * a <= b * b
         /\ a < b <=> a * a < b * b
  BY SMT

(***************************************************************************)
(* Every nonempty set of natural numbers has a least element.              *)
(***************************************************************************)
LEMMA LeastNatural ==
  ASSUME NEW T \in SUBSET Nat, T # {}
  PROVE  \E r \in T : \A s \in T : r <= s
<1>1. PICK r \in T : \A s \in T : ~(<<s, r>> \in OpToRel(<, Nat))
  BY WFMin, NatLessThanWellFounded
<1>2. \A s \in T : ~(s < r)
  BY <1>1 DEF OpToRel
<1> QED
  BY <1>2

(***************************************************************************)
(* The root that Sqrt chooses exists, so Sqrt is the root rounded down.    *)
(***************************************************************************)
LEMMA SqrtExists ==
  ASSUME NEW n \in Nat
  PROVE  \E r \in 0..n : r * r <= n /\ n < (r + 1) * (r + 1)
<1> DEFINE T == {r \in Nat : n < (r + 1) * (r + 1)}
<1>1. n \in T
  BY SMT
<1>2. PICK r \in T : \A s \in T : r <= s
  <2>1. T \in SUBSET Nat /\ T # {}
    BY <1>1
  <2> HIDE DEF T
  <2> QED
    BY <2>1, LeastNatural
<1>3. r * r <= n
  <2>1. CASE r = 0
    BY <2>1, SMT
  <2>2. CASE r # 0
    <3>1. r - 1 \in Nat /\ (r - 1) + 1 = r /\ ~(r <= r - 1)
      BY <2>2
    <3>2. r - 1 \notin T
      BY <3>1, <1>2
    <3>3. ~(n < r * r)
      BY <3>1, <3>2
    <3>4. r * r \in Nat
      BY Square
    <3> QED
      BY <3>3, <3>4
  <2> QED
    BY <2>1, <2>2
<1>4. r \in 0..n
  <2>1. r \in Nat /\ r <= r * r /\ r * r \in Nat
    BY Square
  <2> QED
    BY <2>1, <1>3
<1> QED
  BY <1>3, <1>4

(***************************************************************************)
(* The three facts that define the root Sqrt(n), for every n (sqrt() in    *)
(* rune_updater.rs).                                                       *)
(***************************************************************************)
LEMMA SqrtIsRoot ==
  ASSUME NEW n \in Nat
  PROVE  /\ Sqrt(n) \in Nat
         /\ Sqrt(n) <= n
         /\ Sqrt(n) * Sqrt(n) <= n
         /\ n < (Sqrt(n) + 1) * (Sqrt(n) + 1)
<1>1. \E r \in 0..n : r * r <= n /\ n < (r + 1) * (r + 1)
  BY SqrtExists
<1>2. /\ Sqrt(n) \in 0..n
      /\ Sqrt(n) * Sqrt(n) <= n
      /\ n < (Sqrt(n) + 1) * (Sqrt(n) + 1)
  BY <1>1, Zenon DEF Sqrt
<1> QED
  BY <1>2

(***************************************************************************)
(* The largest r with r ^ 2 <= n: no larger root exists.                   *)
(***************************************************************************)
LEMMA SqrtIsLargest ==
  ASSUME NEW n \in Nat, NEW r \in Nat
  PROVE  r <= Sqrt(n) <=> r * r <= n
<1> DEFINE s == Sqrt(n)
<1>1. s \in Nat /\ s * s <= n /\ n < (s + 1) * (s + 1)
  BY SqrtIsRoot
<1>2. s * s \in Nat /\ (s + 1) * (s + 1) \in Nat /\ r * r \in Nat
  BY <1>1, Square
<1> HIDE DEF s
<1>3. ASSUME r <= s PROVE r * r <= n
  <2>1. r * r <= s * s
    BY <1>1, <1>3, Square
  <2> QED
    BY <1>1, <1>2, <2>1
<1>4. ASSUME r * r <= n PROVE r <= s
  <2>1. r * r < (s + 1) * (s + 1)
    BY <1>1, <1>2, <1>4
  <2>2. s + 1 \in Nat /\ r < s + 1
    BY <1>1, <2>1, Square
  <2> QED
    BY <1>1, <2>2
<1> QED
  BY <1>3, <1>4 DEF s

-----------------------------------------------------------------------------
(***************************************************************************)
(* The invariant of a conversion, the sum of the two squares, is a natural *)
(* number (convert_exact_input and convert_exact_output).                  *)
(***************************************************************************)
LEMMA SumOfSquaresType ==
  ASSUME NEW a \in Nat, NEW b \in Nat
  PROVE  SumOfSquares(a, b) \in Nat
  BY Square DEF SumOfSquares

(***************************************************************************)
(* A conversion of exactly x stays within the circle, and its output is the*)
(* largest that does (convert_exact_input).                                *)
(***************************************************************************)
LEMMA ExactInputBest ==
  ASSUME NEW a \in Nat, NEW b \in Nat, NEW x \in 0..a
  PROVE  LET y == ExactInputYields(a, b, x)
         IN  /\ y \in Nat
             /\ SumOfSquares(a - x, b + y) <= SumOfSquares(a, b)
             /\ SumOfSquares(a, b) < SumOfSquares(a - x, b + y + 1)
             /\ \A z \in Nat :
                  SumOfSquares(a - x, b + z) <= SumOfSquares(a, b) => z <= y
<1> DEFINE rest == a - x
           n == SumOfSquares(a, b) - rest * rest
           root == Sqrt(n)
           y == ExactInputYields(a, b, x)
<1>1. rest \in Nat /\ rest * rest \in Nat /\ a * a \in Nat /\ b * b \in Nat
  BY Square
<1>2. rest * rest <= a * a
  BY <1>1, Square
<1>3. n \in Nat /\ b * b <= n /\ n + rest * rest = a * a + b * b
  BY <1>1, <1>2 DEF SumOfSquares
<1>4. root \in Nat /\ root * root <= n /\ n < (root + 1) * (root + 1)
  BY <1>3, SqrtIsRoot
<1>5. b <= root
  BY <1>3, SqrtIsLargest
<1>6. y \in Nat /\ b + y = root
  BY <1>4, <1>5 DEF ExactInputYields
<1>7. root * root \in Nat /\ (root + 1) * (root + 1) \in Nat
  BY <1>4, Square
<1>8. SumOfSquares(rest, b + y) <= SumOfSquares(a, b)
  BY <1>1, <1>3, <1>4, <1>6, <1>7 DEF SumOfSquares
<1>9. SumOfSquares(a, b) < SumOfSquares(rest, b + y + 1)
  BY <1>1, <1>3, <1>4, <1>6, <1>7 DEF SumOfSquares
<1>10. ASSUME NEW z \in Nat, SumOfSquares(rest, b + z) <= SumOfSquares(a, b)
       PROVE  z <= y
  <2>1. b + z \in Nat /\ (b + z) * (b + z) \in Nat
    BY Square
  <2>2. (b + z) * (b + z) <= n
    BY <1>1, <1>3, <1>10, <2>1 DEF SumOfSquares
  <2>3. b + z <= root
    BY <1>3, <2>1, <2>2, SqrtIsLargest
  <2> QED
    BY <1>4, <1>6, <2>3
<1> QED
  BY <1>6, <1>8, <1>9, <1>10

(***************************************************************************)
(* A conversion into exactly y stays within the circle, and its input is   *)
(* the smallest that does (convert_exact_output).                          *)
(***************************************************************************)
LEMMA ExactOutputBest ==
  ASSUME NEW a \in Nat, NEW b \in Nat, NEW y \in Nat, OutputReachable(a, b, y)
  PROVE  LET x == ExactOutputCosts(a, b, y)
         IN  /\ x \in 0..a
             /\ y > 0 => x > 0
             /\ SumOfSquares(a - x, b + y) <= SumOfSquares(a, b)
             /\ SumOfSquares(a, b) < SumOfSquares(a - x + 1, b + y)
<1> DEFINE grown == b + y
           n == SumOfSquares(a, b) - grown * grown
           root == Sqrt(n)
           x == ExactOutputCosts(a, b, y)
<1>1. grown \in Nat /\ grown * grown \in Nat /\ a * a \in Nat /\ b * b \in Nat
  BY Square
<1>2. b * b <= grown * grown /\ (y > 0 => b * b < grown * grown)
  BY <1>1, Square
<1>3. n \in Nat /\ n + grown * grown = a * a + b * b
  BY <1>1 DEF SumOfSquares, OutputReachable
<1>4. n <= a * a /\ (y > 0 => n < a * a)
  BY <1>1, <1>2, <1>3
<1>5. root \in Nat /\ root * root <= n /\ n < (root + 1) * (root + 1)
  BY <1>3, SqrtIsRoot
<1>6. root * root \in Nat /\ (root + 1) * (root + 1) \in Nat
  BY <1>5, Square
<1>7. root * root <= a * a /\ (y > 0 => root * root < a * a)
  BY <1>1, <1>3, <1>4, <1>5, <1>6
<1>8. root <= a /\ (y > 0 => root < a)
  BY <1>5, <1>7, Square
<1>9. x = a - root
  BY DEF ExactOutputCosts
<1>10. x \in 0..a /\ a - x = root /\ (y > 0 => x > 0)
  BY <1>5, <1>8, <1>9
<1>11. SumOfSquares(root, b + y) <= SumOfSquares(a, b)
  BY <1>1, <1>3, <1>5, <1>6 DEF SumOfSquares
<1>12. SumOfSquares(a, b) < SumOfSquares(root + 1, b + y)
  BY <1>1, <1>3, <1>5, <1>6 DEF SumOfSquares
<1> QED
  BY <1>10, <1>11, <1>12

(***************************************************************************)
(* In integers of w values the amounts of a conversion are natural numbers *)
(* whatever wraps, and nothing does while the squares of both supplies, and*)
(* of the output's supply after an exact output, are below w.              *)
(***************************************************************************)
LEMMA WrappedType ==
  ASSUME NEW w \in Nat \ {0}, NEW a \in Nat, NEW b \in Nat, NEW n \in Nat
  PROVE  WrappedYields(w, a, b, n) \in Nat /\ WrappedCosts(w, a, b, n) \in Nat
<1>1. ASSUME NEW m \in Int
      PROVE  m % w \in Nat
  BY <1>1
<1>2. ASSUME NEW m \in Int, NEW c \in Int
      PROVE  (Sqrt(m % w) - c) % w \in Nat /\ (c - Sqrt(m % w)) % w \in Nat
  <2>1. Sqrt(m % w) \in Nat
    BY <1>1, SqrtIsRoot
  <2>2. Sqrt(m % w) - c \in Int /\ c - Sqrt(m % w) \in Int
    BY <2>1
  <2> QED
    BY <1>1, <2>2
<1>3. /\ SumOfSquares(a, b) - (a - n) * (a - n) \in Int
      /\ SumOfSquares(a, b) - (b + n) * (b + n) \in Int
  <2>1. a - n \in Int /\ b + n \in Int /\ SumOfSquares(a, b) \in Nat
    BY SumOfSquaresType
  <2>2. \A i \in Int : i * i \in Int
    OBVIOUS
  <2> QED
    BY <2>1, <2>2
<1>4. WrappedYields(w, a, b, n) \in Nat
  BY <1>2, <1>3 DEF WrappedYields
<1>5. WrappedCosts(w, a, b, n) \in Nat
  BY <1>2, <1>3 DEF WrappedCosts
<1> QED
  BY <1>4, <1>5

\* What fits in the width is not wrapped.
LEMMA BelowWidth ==
  ASSUME NEW w \in Nat, NEW n \in Nat, n < w
  PROVE  n % w = n
  BY SMT

\* Supplies whose squares fit in the width fit as well.
LEMMA RootBelowSquare ==
  ASSUME NEW a \in Nat, NEW b \in Nat, NEW w \in Nat, SumOfSquares(a, b) < w
  PROVE  a < w /\ b < w
<1>1. a <= a * a /\ b <= b * b /\ a * a \in Nat /\ b * b \in Nat
  BY Square
<1> QED
  BY <1>1 DEF SumOfSquares

\* An exact input yields in a u128 what it yields in integers.
LEMMA WrappedYieldsFit ==
  ASSUME NEW w \in Nat, NEW a \in Nat, NEW b \in Nat, NEW x \in 0..a,
         SumOfSquares(a, b) < w
  PROVE  LET y == ExactInputYields(a, b, x)
         IN  /\ WrappedYields(w, a, b, x) = y
             /\ (a - x) % w = a - x
             /\ (b + y) % w = b + y
<1> DEFINE rest == a - x
           n == SumOfSquares(a, b) - rest * rest
           y == ExactInputYields(a, b, x)
<1>1. y \in Nat /\ SumOfSquares(rest, b + y) <= SumOfSquares(a, b)
  BY ExactInputBest
<1>2. /\ rest \in Nat /\ b + y \in Nat
      /\ SumOfSquares(rest, b + y) \in Nat /\ SumOfSquares(a, b) \in Nat
  <2>1. rest \in Nat
    OBVIOUS
  <2> HIDE DEF y, rest
  <2>2. b + y \in Nat
    BY <1>1
  <2> QED
    BY <2>1, <2>2, SumOfSquaresType
<1>3. rest < w /\ b + y < w
  BY <1>1, <1>2, RootBelowSquare
<1>4. n \in Nat /\ n < w
  <2>1. rest * rest \in Nat /\ a * a \in Nat /\ b * b \in Nat /\ rest * rest <= a * a
    BY <1>2, Square
  <2> QED
    BY <2>1 DEF SumOfSquares
<1>5. y = Sqrt(n) - b
  BY DEF ExactInputYields
<1> HIDE DEF n, y
<1>6. n % w = n /\ rest % w = rest /\ (b + y) % w = b + y
  BY <1>2, <1>3, <1>4, BelowWidth
<1>7. WrappedYields(w, a, b, x) = (Sqrt(n % w) - b) % w
  BY DEF WrappedYields, n
<1>8. y < w
  BY <1>1, <1>3
<1>9. WrappedYields(w, a, b, x) = y
  BY <1>1, <1>5, <1>6, <1>7, <1>8, BelowWidth
<1> QED
  BY <1>6, <1>9 DEF y

\* An exact output costs in a u128 what it costs in integers.
LEMMA WrappedCostsFit ==
  ASSUME NEW w \in Nat, NEW a \in Nat, NEW b \in Nat, NEW y \in Nat,
         SumOfSquares(a, b) < w, (b + y) * (b + y) < w,
         WrappedReachable(w, a, b, y)
  PROVE  LET x == ExactOutputCosts(a, b, y)
         IN  /\ OutputReachable(a, b, y)
             /\ WrappedCosts(w, a, b, y) = x
             /\ (a - x) % w = a - x
             /\ (b + y) % w = b + y
<1> DEFINE grown == b + y
           n == SumOfSquares(a, b) - grown * grown
           x == ExactOutputCosts(a, b, y)
<1>1. grown \in Nat /\ grown * grown \in Nat /\ SumOfSquares(a, b) \in Nat
  <2>1. grown \in Nat
    OBVIOUS
  <2>2. grown * grown \in Nat
    BY <2>1, Square
  <2> QED
    BY <2>1, <2>2, SumOfSquaresType
<1>2. grown * grown <= SumOfSquares(a, b)
  BY <1>1, BelowWidth DEF WrappedReachable
<1>3. OutputReachable(a, b, y)
  BY <1>2 DEF OutputReachable
<1>4. x \in 0..a
  BY <1>3, ExactOutputBest
<1>5. a < w /\ grown < w
  <2>1. grown <= grown * grown
    BY <1>1, Square
  <2> QED
    BY <1>1, <2>1, RootBelowSquare
<1>6. n \in Nat /\ n < w
  BY <1>1, <1>2
<1>7. x = a - Sqrt(n)
  BY DEF ExactOutputCosts
<1> HIDE DEF n, x
<1>8. n % w = n /\ grown % w = grown /\ x % w = x /\ (a - x) % w = a - x
  <2>1. x \in Nat /\ x < w /\ a - x \in Nat /\ a - x < w
    BY <1>4, <1>5
  <2> QED
    BY <1>1, <1>5, <1>6, <2>1, BelowWidth
<1>9. WrappedCosts(w, a, b, y) = (a - Sqrt(n % w)) % w
  BY DEF WrappedCosts, n
<1> QED
  BY <1>3, <1>7, <1>8, <1>9 DEF x

(***************************************************************************)
(* A quotient of natural numbers is a natural number.                      *)
(***************************************************************************)
LEMMA DivisionType ==
  ASSUME NEW n \in Nat, NEW d \in Nat \ {0}
  PROVE  n \div d \in Nat
  BY SMT

(***************************************************************************)
(* The two parts of a block reward are natural numbers (update_supply).    *)
(***************************************************************************)
LEMMA RewardShareType ==
  ASSUME NEW s0 \in Nat, NEW s1 \in Nat, NEW reward \in Nat
  PROVE  RewardShare0(s0, s1, reward) \in Nat /\ RewardShare1(s0, s1, reward) \in Nat
<1> DEFINE n == SumOfSquares(s0, s1)
<1>1. n \in Nat
  BY SumOfSquaresType
<1>2. CASE n = 0
  BY <1>2 DEF RewardShare0, RewardShare1
<1>3. CASE n # 0
  <2>1. Sqrt(n) \in Nat \ {0}
    <3>1. 1 * 1 <= n
      BY <1>1, <1>3
    <3>2. 1 <= Sqrt(n) /\ Sqrt(n) \in Nat
      BY <1>1, <3>1, SqrtIsLargest, SqrtIsRoot
    <3> QED
      BY <3>2
  <2>2. s0 * reward \in Nat /\ s1 * reward \in Nat
    OBVIOUS
  <2>3. (s0 * reward) \div Sqrt(n) \in Nat /\ (s1 * reward) \div Sqrt(n) \in Nat
    BY <2>1, <2>2, DivisionType
  <2> QED
    BY <1>3, <2>3 DEF RewardShare0, RewardShare1
<1> QED
  BY <1>2, <1>3
\* A quotient of nothing.
LEMMA NothingShared ==
  ASSUME NEW d \in Nat \ {0}
  PROVE  0 \div d = 0
  BY SMT

\* The reward of 0, after the last halving, has shares of 0.
LEMMA NoRewardShares ==
  ASSUME NEW s0 \in Nat, NEW s1 \in Nat
  PROVE  RewardShare0(s0, s1, 0) = 0 /\ RewardShare1(s0, s1, 0) = 0
<1> DEFINE n == SumOfSquares(s0, s1)
<1>1. n \in Nat
  BY SumOfSquaresType
<1>2. CASE n = 0
  BY <1>2 DEF RewardShare0, RewardShare1
<1>3. CASE n # 0
  <2>1. Sqrt(n) \in Nat \ {0}
    <3>1. 1 * 1 <= n
      BY <1>1, <1>3
    <3>2. 1 <= Sqrt(n) /\ Sqrt(n) \in Nat
      BY <1>1, <3>1, SqrtIsLargest, SqrtIsRoot
    <3> QED BY <3>2
  <2>2. s0 * 0 = 0 /\ s1 * 0 = 0
    OBVIOUS
  <2>3. 0 \div Sqrt(n) = 0
    BY <2>1, NothingShared
  <2> QED BY <1>3, <2>2, <2>3 DEF RewardShare0, RewardShare1
<1> QED BY <1>2, <1>3

-----------------------------------------------------------------------------
(***************************************************************************)
(* Sums over finite sets, as MapThenSumSet folds them: from the recurrence *)
(* that the fold satisfies, which has a solution on a finite set, and whose*)
(* order does not matter.                                                  *)
(***************************************************************************)

\* The element that the fold takes next.
Some(s) == CHOOSE x \in s : TRUE

\* g is the fold of MapThenSumSet over the subsets of S.
FoldStep(F, r, g, s) == IF s = {} THEN 0 ELSE F[Some(s)][r] + g[s \ {Some(s)}]
IsFold(F, S, r, g) == g = [s \in SUBSET S |-> FoldStep(F, r, g, s)]

\* The fold ends: every element it takes leaves a set with one less.
LEMMA LessOne ==
  ASSUME NEW s, IsFiniteSet(s), s # {}
  PROVE  /\ Some(s) \in s
         /\ Cardinality(s) \in Nat /\ Cardinality(s) >= 1
         /\ IsFiniteSet(s \ {Some(s)}) /\ Cardinality(s \ {Some(s)}) = Cardinality(s) - 1
<1>1. Some(s) \in s
  BY DEF Some
<1>2. Cardinality(s) \in Nat /\ Cardinality(s) # 0
  BY FS_CardinalityType, FS_EmptySet
<1> QED BY <1>1, <1>2, FS_RemoveElement

\* The recurrence of the fold has a solution on the subsets of a finite set: the
\* least size without one is not 0, and a solution below it can be extended to it.
LEMMA FoldExists ==
  ASSUME NEW F, NEW S, IsFiniteSet(S), NEW r
  PROVE  \E g : IsFold(F, S, r, g)
<1> DEFINE Upto(n, g) == \A s \in SUBSET S : Cardinality(s) <= n => g[s] = FoldStep(F, r, g, s)
           Bad == {n \in Nat : ~\E g : Upto(n, g)}
<1>1. \A s \in SUBSET S : IsFiniteSet(s) /\ Cardinality(s) \in Nat
  BY FS_Subset, FS_CardinalityType
<1>2. Bad = {}
  <2> SUFFICES ASSUME Bad # {} PROVE FALSE
    OBVIOUS
  <2>1. PICK n \in Bad : \A m \in Bad : n <= m
    <3>1. Bad \in SUBSET Nat
      OBVIOUS
    <3> HIDE DEF Bad
    <3> QED BY <3>1, LeastNatural
  <2>2. n \in Nat /\ ~\E g : Upto(n, g)
    OBVIOUS
  <2>3. CASE n = 0
    <3> DEFINE g == [s \in SUBSET S |-> 0]
    <3>1. ASSUME NEW s \in SUBSET S, Cardinality(s) <= n PROVE g[s] = FoldStep(F, r, g, s)
      <4>1. Cardinality(s) = 0
        BY <1>1, <2>3, <3>1
      <4>2. s = {}
        BY <1>1, <4>1, FS_EmptySet
      <4> QED BY <4>2 DEF FoldStep
    <3>2. Upto(n, g)
      BY <3>1
    <3> QED BY <3>2, <2>2
  <2>4. CASE n # 0
    <3>1. n - 1 \in Nat /\ ~(n <= n - 1)
      BY <2>2, <2>4
    <3>2. PICK g : Upto(n - 1, g)
      BY <3>1, <2>1
    <3> DEFINE h == [s \in SUBSET S |-> IF Cardinality(s) <= n - 1 THEN g[s] ELSE FoldStep(F, r, g, s)]
    <3>3. ASSUME NEW s \in SUBSET S, Cardinality(s) <= n PROVE h[s] = FoldStep(F, r, h, s)
      <4>1. h[s] = FoldStep(F, r, g, s)
        BY <3>2
      <4>2. CASE s = {}
        BY <4>1, <4>2 DEF FoldStep
      <4>3. CASE s # {}
        <5>1. s \ {Some(s)} \in SUBSET S /\ Cardinality(s \ {Some(s)}) = Cardinality(s) - 1
              /\ Cardinality(s) \in Nat
          BY <1>1, <4>3, LessOne
        <5>2. Cardinality(s \ {Some(s)}) <= n - 1
          BY <5>1, <3>3, <2>2
        <5>3. h[s \ {Some(s)}] = g[s \ {Some(s)}]
          BY <5>1, <5>2
        <5> HIDE DEF h
        <5> QED BY <4>1, <4>3, <5>3 DEF FoldStep
      <4> QED BY <4>2, <4>3
    <3>4. Upto(n, h)
      BY <3>3
    <3> QED BY <3>4, <2>2
  <2> QED BY <2>3, <2>4
<1>3. Cardinality(S) \in Nat /\ \A s \in SUBSET S : Cardinality(s) <= Cardinality(S)
  BY FS_Subset, FS_CardinalityType
<1>4. PICK g : Upto(Cardinality(S), g)
  BY <1>2, <1>3
<1> DEFINE h == [s \in SUBSET S |-> g[s]]
<1>5. ASSUME NEW s \in SUBSET S PROVE h[s] = FoldStep(F, r, h, s)
  <2>1. g[s] = FoldStep(F, r, g, s) /\ s \ {Some(s)} \in SUBSET S
    BY <1>3, <1>4
  <2>2. h[s] = g[s] /\ h[s \ {Some(s)}] = g[s \ {Some(s)}]
    BY <2>1
  <2> HIDE DEF h
  <2> QED BY <2>1, <2>2 DEF FoldStep
<1>6. h = [s \in SUBSET S |-> FoldStep(F, r, h, s)]
  BY <1>5
<1> QED BY <1>6 DEF IsFold

\* Two folds agree on the sets both are of.
LEMMA FoldsAgree ==
  ASSUME NEW F, NEW G, NEW S, NEW U, IsFiniteSet(S), NEW r, NEW g, NEW h,
         IsFold(F, S, r, g), IsFold(G, U, r, h),
         NEW T, T \subseteq S, T \subseteq U, \A x \in T : F[x][r] = G[x][r]
  PROVE  g[T] = h[T]
<1> DEFINE Bad == {n \in Nat : \E s \in SUBSET T : Cardinality(s) = n /\ g[s] # h[s]}
<1>1. Bad = {}
  <2> SUFFICES ASSUME Bad # {} PROVE FALSE
    OBVIOUS
  <2>1. PICK n \in Bad : \A m \in Bad : n <= m
    <3>1. Bad \in SUBSET Nat
      OBVIOUS
    <3> HIDE DEF Bad
    <3> QED BY <3>1, LeastNatural
  <2>2. PICK s \in SUBSET T : Cardinality(s) = n /\ g[s] # h[s]
    BY <2>1
  <2>3. /\ s \in SUBSET S /\ s \in SUBSET U /\ IsFiniteSet(s) /\ n \in Nat
        /\ g[s] = FoldStep(F, r, g, s) /\ h[s] = FoldStep(G, r, h, s)
    BY <2>1, FS_Subset DEF IsFold
  <2>4. s # {}
    BY <2>2, <2>3 DEF FoldStep
  <2>5. /\ Some(s) \in s /\ Cardinality(s \ {Some(s)}) = n - 1 /\ n - 1 \in Nat /\ ~(n <= n - 1)
    <3>1. Some(s) \in s /\ Cardinality(s) = n /\ n >= 1 /\ Cardinality(s \ {Some(s)}) = Cardinality(s) - 1
      BY <2>2, <2>3, <2>4, LessOne
    <3>2. n - 1 \in Nat /\ ~(n <= n - 1)
      BY <3>1, <2>3
    <3> QED BY <3>1, <3>2
  <2>6. g[s \ {Some(s)}] = h[s \ {Some(s)}]
    <3>1. n - 1 \notin Bad
      BY <2>1, <2>5
    <3> QED BY <3>1, <2>5
  <2>7. F[Some(s)][r] = G[Some(s)][r]
    BY <2>5
  <2> QED BY <2>2, <2>3, <2>4, <2>6, <2>7 DEF FoldStep
<1>2. IsFiniteSet(T) /\ Cardinality(T) \in Nat
  BY FS_Subset, FS_CardinalityType
<1> QED BY <1>1, <1>2

\* The order of a fold of natural numbers does not matter.
LEMMA FoldRemoves ==
  ASSUME NEW F, NEW S, IsFiniteSet(S), NEW r, NEW g, IsFold(F, S, r, g),
         \A x \in S : F[x][r] \in Nat
  PROVE  \A T \in SUBSET S : g[T] \in Nat /\ \A x \in T : g[T] = F[x][r] + g[T \ {x}]
<1> DEFINE Good(T) == g[T] \in Nat /\ \A x \in T : g[T] = F[x][r] + g[T \ {x}]
           Bad == {n \in Nat : \E T \in SUBSET S : Cardinality(T) = n /\ ~Good(T)}
<1>0. \A T \in SUBSET S : IsFiniteSet(T) /\ Cardinality(T) \in Nat /\ g[T] = FoldStep(F, r, g, T)
  BY FS_Subset, FS_CardinalityType DEF IsFold
<1>1. Bad = {}
  <2> SUFFICES ASSUME Bad # {} PROVE FALSE
    OBVIOUS
  <2>1. PICK n \in Bad : \A m \in Bad : n <= m
    <3>1. Bad \in SUBSET Nat
      OBVIOUS
    <3> HIDE DEF Bad
    <3> QED BY <3>1, LeastNatural
  <2>2. PICK T \in SUBSET S : Cardinality(T) = n /\ ~Good(T)
    BY <2>1
  <2>3. n \in Nat /\ IsFiniteSet(T) /\ g[T] = FoldStep(F, r, g, T)
    BY <2>1, <1>0
  <2>4. CASE T = {}
    BY <2>2, <2>3, <2>4 DEF FoldStep
  <2>5. CASE T # {}
    <3> DEFINE y == Some(T)
    <3>1. y \in T /\ y \in S /\ n - 1 \in Nat /\ ~(n <= n - 1)
      <4>1. Some(T) \in T /\ Cardinality(T) = n /\ n >= 1
        BY <2>2, <2>3, <2>5, LessOne
      <4>2. n - 1 \in Nat /\ ~(n <= n - 1)
        BY <4>1, <2>3
      <4> QED BY <4>1, <4>2
    <3>2. ASSUME NEW x \in T PROVE Cardinality(T \ {x}) = n - 1 /\ T \ {x} \in SUBSET S
      BY <2>2, <2>3, FS_RemoveElement
    <3>3. ASSUME NEW x \in T PROVE Good(T \ {x})
      <4>1. n - 1 \notin Bad
        BY <2>1, <3>1
      <4> QED BY <4>1, <3>1, <3>2
    <3>4. g[T] = F[y][r] + g[T \ {y}]
      BY <2>3, <2>5 DEF FoldStep
    <3>5. g[T \ {y}] \in Nat /\ F[y][r] \in Nat
      BY <3>1, <3>3
    <3>6. ASSUME NEW x \in T PROVE g[T] = F[x][r] + g[T \ {x}]
      <4>1. CASE x = y
        BY <3>4, <4>1
      <4>2. CASE x # y
        <5>1. g[T \ {y}] = F[x][r] + g[(T \ {y}) \ {x}]
          BY <3>1, <3>3, <4>2
        <5>2. g[T \ {x}] = F[y][r] + g[(T \ {x}) \ {y}] /\ g[T \ {x}] \in Nat
          BY <3>1, <3>3, <4>2
        <5>3. (T \ {x}) \ {y} = (T \ {y}) \ {x}
          OBVIOUS
        <5>4. T \ {x} \in SUBSET S /\ Cardinality((T \ {x}) \ {y}) = (n - 1) - 1
              /\ (T \ {x}) \ {y} \in SUBSET S
          <6>1. Cardinality(T \ {x}) = n - 1 /\ IsFiniteSet(T \ {x}) /\ y \in T \ {x}
            BY <3>1, <3>2, <4>2, <1>0
          <6>2. Cardinality((T \ {x}) \ {y}) = Cardinality(T \ {x}) - 1
            <7> HIDE DEF y
            <7> QED BY <6>1, FS_RemoveElement
          <6>3. T \ {x} \in SUBSET S /\ (T \ {x}) \ {y} \in SUBSET S
            BY <3>2
          <6> QED BY <6>1, <6>2, <6>3
        <5>5. g[(T \ {x}) \ {y}] \in Nat
          <6>1. (n - 1) - 1 \in Nat /\ ~(n <= (n - 1) - 1)
            BY <5>4, <1>0, <2>3
          <6>2. (n - 1) - 1 \notin Bad
            BY <2>1, <6>1
          <6> QED BY <6>1, <6>2, <5>4
        <5>6. F[x][r] \in Nat
          OBVIOUS
        <5> DEFINE a == F[x][r]
                   b == F[y][r]
                   c == g[(T \ {x}) \ {y}]
        <5>7. g[T] = b + (a + c) /\ g[T \ {x}] = b + c /\ a \in Nat /\ b \in Nat /\ c \in Nat
          BY <3>4, <3>5, <5>1, <5>2, <5>3, <5>5, <5>6
        <5> HIDE DEF a, b, c
        <5>8. g[T] = a + g[T \ {x}]
          BY <5>7
        <5> QED BY <5>8 DEF a
      <4> QED BY <4>1, <4>2
    <3>7. g[T] \in Nat
      BY <3>4, <3>5
    <3> QED BY <3>6, <3>7, <2>2
  <2> QED BY <2>4, <2>5
<1> QED BY <1>0, <1>1
=============================================================================
