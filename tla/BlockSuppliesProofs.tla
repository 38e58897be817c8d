------------------------ MODULE BlockSuppliesProofs ------------------------
(***************************************************************************)
(* Theorems about BlockSupplies, for every set of block rewards, all       *)
(* supplies and every size of the ring of rates: the promises of           *)
(* SupplyCurve, that blocks keep them, and what the API computes from the  *)
(* util entry.                                                             *)
(***************************************************************************)
EXTENDS BlockSupplies, ArithmeticProofs, SequenceTheorems, FiniteSetTheorems

SuppliesAreNat == supply0 \in Nat /\ supply1 \in Nat

-----------------------------------------------------------------------------
(***************************************************************************)
(* Both supplies are natural numbers (update_supply, convert_exact_input   *)
(* and convert_exact_output): a block adds two quotients to them, and a    *)
(* conversion moves them to a point of intervals of natural numbers.  It is*)
(* the inductive invariant of the theorems below.                          *)
(***************************************************************************)
THEOREM SuppliesType == Spec => []SuppliesAreNat
<1>1. Init => SuppliesAreNat
  BY DEF Init, SuppliesAreNat
<1>2. SuppliesAreNat /\ [Next]_supplies => SuppliesAreNat'
  <2> SUFFICES ASSUME SuppliesAreNat, [Next]_supplies
               PROVE  SuppliesAreNat'
    OBVIOUS
  <2>1. ASSUME NEW reward \in Rewards, Issue(reward)
        PROVE  SuppliesAreNat'
    <3>1. reward \in Nat /\ supply0 \in Nat /\ supply1 \in Nat
      BY CurveAssumption DEF SuppliesAreNat
    <3>2. RewardShare0(supply0, supply1, reward) \in Nat
          /\ RewardShare1(supply0, supply1, reward) \in Nat
      BY <3>1, RewardShareType
    <3> QED
      BY <2>1, <3>1, <3>2 DEF Issue, SuppliesAreNat
  <2>2. CASE Convert
    BY <2>2 DEF Convert, Tighten2Ease, Ease2Tighten, SuppliesAreNat
  <2>3. CASE UNCHANGED supplies
    BY <2>3 DEF supplies, SuppliesAreNat
  <2> QED
    BY <2>1, <2>2, <2>3 DEF Next
<1> QED
  BY <1>1, <1>2, PTL DEF Spec

-----------------------------------------------------------------------------
(***************************************************************************)
(* Converting back what an exact input yielded returns the input at most:  *)
(* the supplies would otherwise be outside the circle they started on.     *)
(***************************************************************************)
LEMMA RoundTrip ==
  ASSUME NEW a \in Nat, NEW b \in Nat, NEW x \in 0..a
  PROVE  LET y == ExactInputYields(a, b, x)
         IN  ExactInputYields(b + y, a - x, y) <= x
<1> DEFINE y == ExactInputYields(a, b, x)
           z == ExactInputYields(b + y, a - x, y)
<1>1. y \in Nat /\ SumOfSquares(a - x, b + y) <= SumOfSquares(a, b)
  BY ExactInputBest
<1>2. a - x \in Nat /\ b + y \in Nat /\ y \in 0..(b + y) /\ (b + y) - y = b
  BY <1>1
<1>3. /\ z \in Nat
      /\ SumOfSquares((b + y) - y, (a - x) + z) <= SumOfSquares(b + y, a - x)
  <2> HIDE DEF y
  <2> QED
    BY <1>2, ExactInputBest
<1>4. (a - x) + z \in Nat
  BY <1>2, <1>3
<1> HIDE DEF y, z
<1>5. ((a - x) + z) * ((a - x) + z) <= a * a
  <2> DEFINE c == (a - x) + z
             d == a - x
             e == b + y
  <2>1. c * c \in Nat /\ d * d \in Nat /\ e * e \in Nat /\ a * a \in Nat /\ b * b \in Nat
    BY <1>2, <1>4, Square
  <2>2. d * d + e * e <= a * a + b * b
    BY <1>1 DEF SumOfSquares
  <2>3. b * b + c * c <= e * e + d * d
    BY <1>2, <1>3 DEF SumOfSquares
  <2> HIDE DEF c, d, e
  <2>4. c * c <= a * a
    BY <2>1, <2>2, <2>3
  <2> QED
    BY <2>4 DEF c
<1>6. (a - x) + z <= a
  BY <1>4, <1>5, Square
<1>7. z <= x
  BY <1>2, <1>3, <1>6
<1> QED
  BY <1>7 DEF y, z

(***************************************************************************)
(* Converting there and back gains nothing from any reachable supplies     *)
(* (convert_exact_input twice).                                            *)
(***************************************************************************)
THEOREM RoundTripNeverGains == Spec => []RoundTripNoGain
<1>1. SuppliesAreNat => RoundTripNoGain
  <2> SUFFICES ASSUME SuppliesAreNat, NEW x \in 1..supply0
               PROVE  LET y == ExactInputYields(supply0, supply1, x)
                      IN  ExactInputYields(supply1 + y, supply0 - x, y) <= x
    BY DEF RoundTripNoGain
  <2>1. supply0 \in Nat /\ supply1 \in Nat /\ x \in 0..supply0
    BY DEF SuppliesAreNat
  <2> QED
    BY <2>1, RoundTrip
<1> QED
  BY <1>1, SuppliesType, PTL

(***************************************************************************)
(* Two conversions one after the other end within the circle, so the one   *)
(* conversion of the same input, which is best, yields as much.            *)
(***************************************************************************)
LEMMA Splitting ==
  ASSUME NEW a \in Nat, NEW b \in Nat, NEW x \in 0..a, NEW x1 \in 0..x
  PROVE  LET y1 == ExactInputYields(a, b, x1)
             y2 == ExactInputYields(a - x1, b + y1, x - x1)
         IN  y1 + y2 <= ExactInputYields(a, b, x)
<1> DEFINE y1 == ExactInputYields(a, b, x1)
           y2 == ExactInputYields(a - x1, b + y1, x - x1)
<1>1. x1 \in 0..a
  OBVIOUS
<1>2. y1 \in Nat /\ SumOfSquares(a - x1, b + y1) <= SumOfSquares(a, b)
  BY <1>1, ExactInputBest
<1>3. a - x1 \in Nat /\ b + y1 \in Nat /\ x - x1 \in 0..(a - x1)
      /\ (a - x1) - (x - x1) = a - x
  BY <1>2
<1>4. /\ y2 \in Nat
      /\ SumOfSquares((a - x1) - (x - x1), (b + y1) + y2)
           <= SumOfSquares(a - x1, b + y1)
  <2> HIDE DEF y1
  <2> QED
    BY <1>3, ExactInputBest
<1> HIDE DEF y1, y2
<1>5. y1 + y2 \in Nat /\ (b + y1) + y2 = b + (y1 + y2)
  BY <1>2, <1>4
<1>6. SumOfSquares(a - x, b + (y1 + y2)) <= SumOfSquares(a, b)
  <2>1. a - x \in Nat /\ b + (y1 + y2) \in Nat
    BY <1>5
  <2>2. SumOfSquares(a - x, b + (y1 + y2)) \in Nat
        /\ SumOfSquares(a - x1, b + y1) \in Nat
        /\ SumOfSquares(a, b) \in Nat
    BY <1>3, <2>1, SumOfSquaresType
  <2> QED
    BY <1>2, <1>3, <1>4, <1>5, <2>2
<1>7. y1 + y2 <= ExactInputYields(a, b, x)
  BY <1>5, <1>6, ExactInputBest
<1> QED
  BY <1>7 DEF y1, y2

(***************************************************************************)
(* Converting an input in two parts gains nothing from any reachable       *)
(* supplies (convert_exact_input, once and twice).                         *)
(***************************************************************************)
THEOREM SplittingNeverGains == Spec => []SplitNoGain
<1>1. SuppliesAreNat => SplitNoGain
  <2> SUFFICES ASSUME SuppliesAreNat, NEW x \in 0..supply0, NEW x1 \in 0..x
               PROVE  LET y1 == ExactInputYields(supply0, supply1, x1)
                          y2 == ExactInputYields(supply0 - x1, supply1 + y1,
                                                 x - x1)
                      IN  y1 + y2 <= ExactInputYields(supply0, supply1, x)
    BY DEF SplitNoGain
  <2> QED
    BY Splitting DEF SuppliesAreNat
<1> QED
  BY <1>1, SuppliesType, PTL

(***************************************************************************)
(* What an exact output costs buys it as an exact input, because the output*)
(* stays within the circle; one unit less would not, because the cost is   *)
(* the smallest input for which it does.                                   *)
(***************************************************************************)
LEMMA Cheapest ==
  ASSUME NEW a \in Nat, NEW b \in Nat, NEW y \in Nat \ {0},
         OutputReachable(a, b, y)
  PROVE  LET x == ExactOutputCosts(a, b, y)
         IN  /\ x > 0
             /\ ExactInputYields(a, b, x) >= y
             /\ ExactInputYields(a, b, x - 1) < y
<1> DEFINE x == ExactOutputCosts(a, b, y)
<1>1. /\ x \in 1..a
      /\ SumOfSquares(a - x, b + y) <= SumOfSquares(a, b)
      /\ SumOfSquares(a, b) < SumOfSquares(a - x + 1, b + y)
  BY ExactOutputBest
<1> HIDE DEF x
<1>2. ExactInputYields(a, b, x) \in Nat /\ y <= ExactInputYields(a, b, x)
  BY <1>1, ExactInputBest
<1>3. ExactInputYields(a, b, x - 1) < y
  <2> DEFINE w == x - 1
             z == ExactInputYields(a, b, w)
  <2>1. w \in 0..a /\ a - w = a - x + 1 /\ a - w \in Nat
    BY <1>1
  <2> HIDE DEF w
  <2>2. z \in Nat /\ SumOfSquares(a - w, b + z) <= SumOfSquares(a, b)
    BY <2>1, ExactInputBest
  <2> HIDE DEF z
  <2>3. SumOfSquares(a - w, b + z) < SumOfSquares(a - w, b + y)
    <3>1. /\ SumOfSquares(a - w, b + z) \in Nat
          /\ SumOfSquares(a, b) \in Nat
          /\ SumOfSquares(a - w, b + y) \in Nat
      <4>1. b + z \in Nat /\ b + y \in Nat
        BY <2>2
      <4> QED
        BY <2>1, <4>1, SumOfSquaresType
    <3> QED
      BY <1>1, <2>1, <2>2, <3>1
  <2>4. (b + z) * (b + z) < (b + y) * (b + y)
    <3>1. /\ b + z \in Nat /\ b + y \in Nat
          /\ (b + z) * (b + z) \in Nat /\ (b + y) * (b + y) \in Nat
          /\ (a - w) * (a - w) \in Nat
      BY <2>1, <2>2, Square
    <3> QED
      BY <2>3, <3>1 DEF SumOfSquares
  <2>5. b + z < b + y
    BY <2>2, <2>4, Square
  <2> QED
    BY <2>2, <2>5 DEF z, w
<1> QED
  BY <1>1, <1>2, <1>3 DEF x

(***************************************************************************)
(* The input an exact output costs is the least one that buys it           *)
(* (convert_exact_output against convert_exact_input).                     *)
(***************************************************************************)
THEOREM ExactOutputCostsTheLeast == Spec => []ExactOutputIsCheapest
<1>1. SuppliesAreNat => ExactOutputIsCheapest
  <2> SUFFICES ASSUME SuppliesAreNat, NEW y \in 1..(supply0 + supply1),
                      OutputReachable(supply0, supply1, y)
               PROVE  LET x == ExactOutputCosts(supply0, supply1, y)
                      IN  /\ x > 0
                          /\ ExactInputYields(supply0, supply1, x) >= y
                          /\ ExactInputYields(supply0, supply1, x - 1) < y
    BY DEF ExactOutputIsCheapest
  <2>1. supply0 \in Nat /\ supply1 \in Nat /\ y \in Nat \ {0}
    BY DEF SuppliesAreNat
  <2> QED
    BY <2>1, Cheapest
<1> QED
  BY <1>1, SuppliesType, PTL

-----------------------------------------------------------------------------
(***************************************************************************)
(* A point that is best in one coordinate lies within one unit of the      *)
(* circle, so the square root of its squares lost one unit at most.        *)
(***************************************************************************)
LEMMA PointLosesLessThanOne ==
  ASSUME NEW a \in Nat, NEW b \in Nat, NEW a2 \in Nat, NEW b2 \in Nat,
         ConvertPoint(a, b, a2, b2)
  PROVE  /\ Sqrt(SumOfSquares(a, b)) - 1 <= Sqrt(SumOfSquares(a2, b2))
         /\ SumOfSquares(a2, b2) <= SumOfSquares(a, b)
<1> DEFINE n == SumOfSquares(a, b)
           m == SumOfSquares(a2, b2)
           k == Sqrt(n)
           j == Sqrt(m)
<1>1. n \in Nat /\ m \in Nat /\ m <= n
  BY SumOfSquaresType DEF ConvertPoint, InsideCircle
<1>2. k \in Nat /\ k * k <= n /\ j \in Nat /\ m < (j + 1) * (j + 1)
  BY <1>1, SqrtIsRoot
<1>3. a2 * a2 \in Nat /\ b2 * b2 \in Nat /\ m = a2 * a2 + b2 * b2
  BY Square DEF SumOfSquares
<1>4. a2 <= j /\ b2 <= j
  BY <1>1, <1>3, SqrtIsLargest
<1>5. n < m + 2 * b2 + 1 \/ n < m + 2 * a2 + 1
  BY <1>3 DEF ConvertPoint, BestOutput, BestInput, SumOfSquares
<1> HIDE DEF n, m, k, j
<1>6. n < m + 2 * j + 1
  BY <1>1, <1>2, <1>4, <1>5
<1>7. n < (j + 2) * (j + 2)
  <2>1. (j + 2) * (j + 2) = (j + 1) * (j + 1) + 2 * j + 3 /\ (j + 1) * (j + 1) \in Nat
    BY <1>2
  <2> QED
    BY <1>1, <1>2, <1>6, <2>1
<1>8. k * k < (j + 2) * (j + 2)
  <2>1. k * k \in Nat /\ (j + 2) * (j + 2) \in Nat
    BY <1>2, Square
  <2> QED
    BY <1>1, <1>2, <1>7, <2>1
<1>9. k < j + 2
  BY <1>2, <1>8, Square
<1>10. k - 1 <= j
  BY <1>2, <1>9
<1> QED
  BY <1>1, <1>10 DEF n, m, k, j

(***************************************************************************)
(* No conversion step adds to the converted supply K, or loses a whole unit*)
(* of it (convert_exact_input and convert_exact_output).                   *)
(***************************************************************************)
THEOREM ConversionLosesLessThanOne == Spec => ConvertLosesLessThanOne
<1>1. ASSUME SuppliesAreNat, Convert
      PROVE  Sqrt(Squares) - 1 <= Sqrt(Squares') /\ Squares' <= Squares
  <2>1. CASE Tighten2Ease
    <3>1. PICK a2 \in 0..supply0, b2 \in 0..(supply0 + supply1) :
            /\ ConvertPoint(supply0, supply1, a2, b2)
            /\ supply0' = a2
            /\ supply1' = b2
      BY <2>1 DEF Tighten2Ease
    <3>2. a2 \in Nat /\ b2 \in Nat
      BY <1>1 DEF SuppliesAreNat
    <3> QED
      BY <1>1, <3>1, <3>2, PointLosesLessThanOne DEF SuppliesAreNat, Squares
  <2>2. CASE Ease2Tighten
    <3>1. PICK a2 \in 0..(supply0 + supply1), b2 \in 0..supply1 :
            /\ ConvertPoint(supply1, supply0, b2, a2)
            /\ supply0' = a2
            /\ supply1' = b2
      BY <2>2 DEF Ease2Tighten
    <3>2. a2 \in Nat /\ b2 \in Nat
      BY <1>1 DEF SuppliesAreNat
    <3>3. SumOfSquares(supply1, supply0) = Squares
          /\ SumOfSquares(b2, a2) = Squares'
      BY <1>1, <3>1, <3>2, Square DEF SumOfSquares, Squares, SuppliesAreNat
    <3> QED
      BY <1>1, <3>1, <3>2, <3>3, PointLosesLessThanOne DEF SuppliesAreNat
  <2> QED
    BY <1>1, <2>1, <2>2 DEF Convert
<1>2. SuppliesAreNat /\ [Next]_supplies =>
        [Convert => /\ Sqrt(Squares) - 1 <= Sqrt(Squares')
                    /\ Squares' <= Squares]_supplies
  BY <1>1
<1> QED
  BY <1>2, SuppliesType, PTL DEF Spec, ConvertLosesLessThanOne

-----------------------------------------------------------------------------
(* What a reward adds to the converted supply K. *)

(***************************************************************************)
(* A share of the reward is the proportional part rounded down (the two    *)
(* quotients of update_supply).                                            *)
(***************************************************************************)
LEMMA ShareRounds ==
  ASSUME NEW m \in Nat, NEW k \in Nat \ {0}
  PROVE  LET p == m \div k
         IN  p \in Nat /\ k * p <= m /\ m <= k * p + k - 1
<1>1. m % k \in 0..(k - 1) /\ m \div k \in Nat /\ m = k * (m \div k) + (m % k)
  OBVIOUS
<1> DEFINE p == m \div k
           rest == m % k
<1>2. p \in Nat /\ rest \in 0..(k - 1) /\ m = k * p + rest
  BY <1>1
<1> HIDE DEF p, rest
<1>3. k * p \in Nat
  BY <1>2
<1>4. k * p <= m /\ m <= k * p + k - 1
  BY <1>2, <1>3
<1> QED
  BY <1>2, <1>4 DEF p

(***************************************************************************)
(* What is at most c below a number has a square at most 2 * c times that  *)
(* number below its square.                                                *)
(***************************************************************************)
LEMMA SquareBelow ==
  ASSUME NEW x \in Nat, NEW u \in Nat, NEW c \in Nat, u <= x + c
  PROVE  u * u <= x * x + 2 * (c * u)
<1>1. x * x \in Nat /\ u * u \in Nat /\ c * u \in Nat
  OBVIOUS
<1>2. CASE u < c
  <2>1. u * u <= c * u
    BY <1>2
  <2> QED
    BY <1>1, <2>1
<1>3. CASE c <= u
  <2>1. PICK d \in Nat : u = d + c
    <3>1. u - c \in Nat /\ u = (u - c) + c
      BY <1>3
    <3> QED BY <3>1
  <2>2. d <= x /\ d * d <= x * x
    BY <2>1, Square
  <2>3. u * u = d * d + 2 * (c * d) + c * c /\ c * u = c * d + c * c
    BY <2>1
  <2>4. c * c \in Nat /\ c * d \in Nat /\ d * d \in Nat
    BY <2>1
  <2> QED
    BY <1>1, <2>2, <2>3, <2>4
<1> QED
  BY <1>2, <1>3

(***************************************************************************)
(* The sum of two numbers is at most twice the root of the sum of their    *)
(* squares, rounded down, unless that is 1.                                *)
(***************************************************************************)
LEMMA SumOfSides ==
  ASSUME NEW s \in Nat, NEW t \in Nat, NEW k \in Nat, k >= 2,
         s * s + t * t <= k * k + 2 * k
  PROVE  s + t <= 2 * k
<1>1. (s + t) * (s + t) <= 2 * (s * s + t * t)
  <2>1. s * t + s * t <= s * s + t * t
    <3>1. ASSUME NEW a \in Nat, NEW b \in Nat, a <= b PROVE a * b + a * b <= a * a + b * b
      <4>1. PICK d \in Nat : b = a + d
        <5>1. b - a \in Nat /\ b = a + (b - a)
          BY <3>1
        <5> QED BY <5>1
      <4>2. a * b = a * a + a * d /\ b * b = a * a + 2 * (a * d) + d * d
        BY <4>1
      <4>3. a * a \in Nat /\ a * d \in Nat /\ d * d \in Nat
        BY <4>1
      <4> QED BY <4>2, <4>3
    <3>2. CASE s <= t
      BY <3>1, <3>2
    <3>3. CASE t <= s
      <4>1. t * s + t * s <= t * t + s * s /\ t * s = s * t
        BY <3>1, <3>3
      <4>2. s * s \in Nat /\ t * t \in Nat /\ s * t \in Nat
        OBVIOUS
      <4> QED BY <4>1, <4>2
    <3> QED BY <3>2, <3>3
  <2>2. (s + t) * (s + t) = s * s + 2 * (s * t) + t * t
    OBVIOUS
  <2>3. s * s \in Nat /\ t * t \in Nat /\ s * t \in Nat
    OBVIOUS
  <2> QED BY <2>1, <2>2, <2>3
<1>2. 4 * k <= 2 * (k * k)
  OBVIOUS
<1>3. (2 * k) * (2 * k) = 4 * (k * k)
  OBVIOUS
<1>4. (s + t) * (s + t) <= (2 * k) * (2 * k)
  <2>1. s * s \in Nat /\ t * t \in Nat /\ k * k \in Nat /\ (s + t) * (s + t) \in Nat
    OBVIOUS
  <2> QED BY <1>1, <1>2, <1>3, <2>1
<1>5. s + t \in Nat /\ 2 * k \in Nat
  OBVIOUS
<1> QED
  BY <1>4, <1>5, Square

(***************************************************************************)
(* k times the supplies after a reward are m times those before it, less   *)
(* the rest of the division: their root is not below m - 2.                *)
(***************************************************************************)
LEMMA RewardLower ==
  ASSUME NEW s \in Nat, NEW t \in Nat, NEW k \in Nat, k >= 1,
         k * k <= s * s + t * t, s * s + t * t <= k * k + 2 * k,
         NEW m \in Nat, k < m,
         NEW a \in Nat, NEW b \in Nat,
         s * m <= k * a + (k - 1), t * m <= k * b + (k - 1)
  PROVE  (m - 2) * (m - 2) <= a * a + b * b
<1> DEFINE c == k - 1
           u == s * m
           v == t * m
<1>1. c \in Nat /\ u \in Nat /\ v \in Nat /\ k * a \in Nat /\ k * b \in Nat /\ k = c + 1
  OBVIOUS
<1>2. /\ u * u <= (k * a) * (k * a) + 2 * (c * u)
      /\ v * v <= (k * b) * (k * b) + 2 * (c * v)
  <2>1. u <= k * a + c /\ v <= k * b + c
    OBVIOUS
  <2> HIDE DEF c, u, v
  <2> QED BY <1>1, <2>1, SquareBelow
<1>3. (k * a) * (k * a) + (k * b) * (k * b) = (k * k) * (a * a + b * b)
  OBVIOUS
<1>4. u * u + v * v = (s * s + t * t) * (m * m)
  OBVIOUS
<1>5. (k * k) * (m * m) <= (s * s + t * t) * (m * m)
  <2>1. \A i, j, l \in Nat : i <= j => i * l <= j * l
    OBVIOUS
  <2>2. k * k \in Nat /\ s * s + t * t \in Nat /\ m * m \in Nat
    OBVIOUS
  <2> QED BY <2>1, <2>2
<1>6. c * u + c * v <= 2 * ((k * c) * m)
  <2>1. CASE k = 1
    <3>1. c = 0
      BY <2>1
    <3> QED BY <3>1, <1>1
  <2>2. CASE k >= 2
    <3>1. s + t <= 2 * k
      BY <2>2, SumOfSides
    <3>2. c * u + c * v = (s + t) * (c * m) /\ 2 * ((k * c) * m) = (2 * k) * (c * m)
      BY <1>1
    <3>3. \A i, j, l \in Nat : i <= j => i * l <= j * l
      OBVIOUS
    <3>4. s + t \in Nat /\ 2 * k \in Nat /\ c * m \in Nat
      BY <1>1
    <3> QED BY <3>1, <3>2, <3>3, <3>4
  <2> QED BY <2>1, <2>2
<1>7. (k * k) * (m * m) <= (k * k) * (a * a + b * b) + 4 * ((k * c) * m)
  <2>1. /\ (k * a) * (k * a) \in Nat /\ (k * b) * (k * b) \in Nat
        /\ u * u \in Nat /\ v * v \in Nat /\ c * u \in Nat /\ c * v \in Nat
        /\ (k * c) * m \in Nat /\ (k * k) * (m * m) \in Nat
    BY <1>1
  <2> HIDE DEF c, u, v
  <2> QED BY <1>2, <1>3, <1>4, <1>5, <1>6, <2>1
<1>8. 4 * ((k * c) * m) + (k * k) * ((m - 2) * (m - 2)) <= (k * k) * (m * m)
  <2>1. (k * k) * ((m - 2) * (m - 2)) = (k * k) * (m * m) - 4 * ((k * k) * m) + 4 * (k * k)
    OBVIOUS
  <2>2. (k * c) * m = (k * k) * m - k * m
    BY <1>1
  <2>3. k * k <= k * m
    OBVIOUS
  <2>4. /\ (k * k) * (m * m) \in Nat /\ (k * k) * m \in Nat /\ k * m \in Nat /\ k * k \in Nat
    OBVIOUS
  <2> HIDE DEF c, u, v
  <2> QED BY <2>1, <2>2, <2>3, <2>4
<1>9. (k * k) * ((m - 2) * (m - 2)) <= (k * k) * (a * a + b * b)
  <2>1. /\ (k * c) * m \in Nat /\ (k * k) * (m * m) \in Nat
        /\ (k * k) * ((m - 2) * (m - 2)) \in Int /\ (k * k) * (a * a + b * b) \in Nat
    BY <1>1
  <2> HIDE DEF c, u, v
  <2> QED BY <1>7, <1>8, <2>1
<1>10. \A i, j \in Int : \A l \in Nat : l >= 1 /\ l * i <= l * j => i <= j
  OBVIOUS
<1>11. k * k \in Nat /\ k * k >= 1 /\ (m - 2) * (m - 2) \in Int /\ a * a + b * b \in Int
  OBVIOUS
<1> QED
  BY <1>9, <1>10, <1>11

(***************************************************************************)
(* And they are at most m times those before it.                           *)
(***************************************************************************)
LEMMA RewardUpper ==
  ASSUME NEW s \in Nat, NEW t \in Nat, NEW k \in Nat, k >= 1,
         s * s + t * t <= k * k + 2 * k,
         NEW m \in Nat, m <= 2 * k,
         NEW a \in Nat, NEW b \in Nat,
         k * a <= s * m, k * b <= t * m
  PROVE  a * a + b * b < (m + 3) * (m + 3)
<1>1. /\ (k * a) * (k * a) <= (s * m) * (s * m)
      /\ (k * b) * (k * b) <= (t * m) * (t * m)
  <2>1. k * a \in Nat /\ k * b \in Nat /\ s * m \in Nat /\ t * m \in Nat
    OBVIOUS
  <2> QED BY <2>1, Square
<1>2. (k * a) * (k * a) + (k * b) * (k * b) = (k * k) * (a * a + b * b)
  OBVIOUS
<1>3. (s * m) * (s * m) + (t * m) * (t * m) = (s * s + t * t) * (m * m)
  OBVIOUS
<1>4. \A i, j, l \in Nat : i <= j => i * l <= j * l
  OBVIOUS
<1>5. (s * s + t * t) * (m * m) <= (k * k + 2 * k) * (m * m)
  <2>1. s * s + t * t \in Nat /\ k * k + 2 * k \in Nat /\ m * m \in Nat
    OBVIOUS
  <2> QED BY <1>4, <2>1
<1>6. (k * k + 2 * k) * (m * m) = (k * k) * (m * m) + 2 * (k * (m * m))
  OBVIOUS
<1>7. k * (m * m) <= 2 * ((k * k) * m)
  <2>1. m * (k * m) <= (2 * k) * (k * m)
    <3>1. k * m \in Nat /\ 2 * k \in Nat
      OBVIOUS
    <3> QED BY <1>4, <3>1
  <2>2. m * (k * m) = k * (m * m) /\ (2 * k) * (k * m) = 2 * ((k * k) * m)
    OBVIOUS
  <2> QED BY <2>1, <2>2
<1>8. (k * k) * ((m + 3) * (m + 3)) = (k * k) * (m * m) + 6 * ((k * k) * m) + 9 * (k * k)
  OBVIOUS
<1>9. k * k >= 1 /\ k * k \in Nat /\ (k * k) * m \in Nat /\ (k * k) * (m * m) \in Nat
      /\ k * (m * m) \in Nat
  OBVIOUS
<1>10. (k * k) * (a * a + b * b) < (k * k) * ((m + 3) * (m + 3))
  <2>1. /\ (k * a) * (k * a) \in Nat /\ (k * b) * (k * b) \in Nat
        /\ (s * m) * (s * m) \in Nat /\ (t * m) * (t * m) \in Nat
    OBVIOUS
  <2> QED BY <1>1, <1>2, <1>3, <1>5, <1>6, <1>7, <1>8, <1>9, <2>1
<1>11. \A i, j \in Int : \A l \in Nat : l >= 1 /\ l * i < l * j => i < j
  OBVIOUS
<1>12. (m + 3) * (m + 3) \in Int /\ a * a + b * b \in Int
  OBVIOUS
<1> QED
  BY <1>9, <1>10, <1>11, <1>12

(***************************************************************************)
(* The root of the two squares grows by the reward, but for the rounding.  *)
(***************************************************************************)
LEMMA RewardGrowsRoot ==
  ASSUME NEW s \in Nat, NEW t \in Nat, NEW r \in Nat, r > 0
  PROVE  LET k == Sqrt(SumOfSquares(s, t))
             l == Sqrt(SumOfSquares(s + RewardShare0(s, t, r), t + RewardShare1(s, t, r)))
         IN  /\ k + r <= l + 2
             /\ r <= k => l <= k + r + 2
<1> DEFINE n == SumOfSquares(s, t)
           k == Sqrt(n)
           a == s + RewardShare0(s, t, r)
           b == t + RewardShare1(s, t, r)
           l == Sqrt(SumOfSquares(a, b))
<1>1. n \in Nat /\ n = s * s + t * t
  BY SumOfSquaresType DEF SumOfSquares
<1>2. k \in Nat /\ k * k <= n /\ n < (k + 1) * (k + 1)
  BY <1>1, SqrtIsRoot
<1>3. a \in Nat /\ b \in Nat
  <2>1. RewardShare0(s, t, r) \in Nat /\ RewardShare1(s, t, r) \in Nat
    BY RewardShareType
  <2> QED BY <2>1
<1>4. SumOfSquares(a, b) \in Nat /\ SumOfSquares(a, b) = a * a + b * b
  <2> HIDE DEF a, b
  <2>1. SumOfSquares(a, b) \in Nat
    BY <1>3, SumOfSquaresType
  <2> QED BY <2>1 DEF SumOfSquares
<1>5. l \in Nat
  BY <1>4, SqrtIsRoot
<1>6. CASE n = 0
  <2>1. s = 0 /\ t = 0
    <3>1. s * s \in Nat /\ t * t \in Nat /\ s <= s * s /\ t <= t * t
      BY Square
    <3> QED BY <1>1, <1>6, <3>1
  <2>2. a = r /\ b = 0
    BY <1>6, <2>1 DEF RewardShare0, RewardShare1
  <2>3. k = 0
    <3> HIDE DEF k
    <3>1. ~(1 <= k * k)
      BY <1>2, <1>6
    <3> QED BY <1>2, <3>1, Square
  <2>4. r <= l
    <3>1. r * r <= SumOfSquares(a, b)
      <4>1. r * r \in Nat
        OBVIOUS
      <4> HIDE DEF a, b
      <4> QED BY <1>4, <2>2, <4>1
    <3> QED BY <1>4, <3>1, SqrtIsLargest
  <2> HIDE DEF k, l
  <2>5. k + r <= l + 2 /\ ~(r <= k)
    BY <1>5, <2>3, <2>4
  <2> QED BY <2>5 DEF k, l, n, a, b
<1>7. CASE n # 0
  <2>1. k >= 1
    <3>1. 1 * 1 <= n
      BY <1>1, <1>7
    <3> QED BY <1>1, <3>1, SqrtIsLargest
  <2> DEFINE p == (s * r) \div k
             q == (t * r) \div k
             m == k + r
  <2>2. a = s + p /\ b = t + q
    BY <1>7 DEF RewardShare0, RewardShare1
  <2>3. /\ p \in Nat /\ k * p <= s * r /\ s * r <= k * p + k - 1
        /\ q \in Nat /\ k * q <= t * r /\ t * r <= k * q + k - 1
    <3>1. s * r \in Nat /\ t * r \in Nat /\ k \in Nat \ {0}
      BY <1>2, <2>1
    <3> HIDE DEF k
    <3> QED BY <3>1, ShareRounds
  <2> HIDE DEF n, k, a, b, l, p, q
  <2>4. m \in Nat /\ k < m
    BY <1>2
  <2>5. /\ k * a = k * s + k * p /\ s * m = k * s + s * r
        /\ k * b = k * t + k * q /\ t * m = k * t + t * r
    BY <1>2, <2>2, <2>3
  <2>6. /\ k * a <= s * m /\ s * m <= k * a + (k - 1)
        /\ k * b <= t * m /\ t * m <= k * b + (k - 1)
    <3>1. /\ k * s \in Nat /\ k * p \in Nat /\ s * r \in Nat
          /\ k * t \in Nat /\ k * q \in Nat /\ t * r \in Nat
      BY <1>2, <2>3
    <3> HIDE DEF m
    <3> QED BY <1>2, <2>3, <2>5, <3>1
  <2>7. k * k <= s * s + t * t /\ s * s + t * t <= k * k + 2 * k
    <3>1. (k + 1) * (k + 1) = k * k + 2 * k + 1 /\ k * k \in Nat
      BY <1>2
    <3> QED BY <1>1, <1>2, <3>1
  <2>8. m - 2 <= l
    <3>1. (m - 2) * (m - 2) <= SumOfSquares(a, b)
      <4> HIDE DEF m
      <4> QED BY <1>2, <1>3, <1>4, <2>1, <2>4, <2>6, <2>7, RewardLower
    <3>2. m - 2 \in Nat
      BY <1>2, <2>1
    <3> HIDE DEF m
    <3> QED BY <1>4, <3>1, <3>2, SqrtIsLargest DEF l
  <2>9. ASSUME r <= k PROVE l <= m + 2
    <3>1. m <= 2 * k
      BY <1>2, <2>9
    <3>2. SumOfSquares(a, b) < (m + 3) * (m + 3)
      <4> HIDE DEF m
      <4> QED BY <1>2, <1>3, <1>4, <2>1, <2>4, <2>6, <2>7, <3>1, RewardUpper
    <3>3. m + 3 \in Nat /\ (m + 3) * (m + 3) \in Nat
      BY <2>4
    <3>4. ~(m + 3 <= l)
      <4> HIDE DEF m
      <4>1. ~((m + 3) * (m + 3) <= SumOfSquares(a, b))
        BY <1>4, <3>2, <3>3
      <4> QED BY <1>4, <3>3, <4>1, SqrtIsLargest DEF l
    <3> QED BY <1>5, <2>4, <3>4
  <2>10. k + r <= l + 2 /\ (r <= k => l <= k + r + 2)
    BY <1>2, <1>5, <2>8, <2>9
  <2> QED BY <2>10 DEF k, l, n, a, b
<1> QED
  BY <1>6, <1>7

(***************************************************************************)
(* IssueTracksReward: a block raises the converted supply K by its reward, *)
(* but for the rounding of update_supply.                                  *)
(***************************************************************************)
THEOREM IssueRaisesSupply == Spec => IssueTracksReward
<1>1. ASSUME SuppliesAreNat, NEW reward \in Rewards, Issue(reward)
      PROVE  /\ Sqrt(Squares) + reward <= Sqrt(Squares') + 2
             /\ reward <= Sqrt(Squares) => Sqrt(Squares') <= Sqrt(Squares) + reward + 2
  <2>1. supply0 \in Nat /\ supply1 \in Nat /\ reward \in Nat /\ reward > 0
    BY <1>1, CurveAssumption DEF SuppliesAreNat, Issue
  <2>2. Squares' = SumOfSquares(supply0 + RewardShare0(supply0, supply1, reward),
                                supply1 + RewardShare1(supply0, supply1, reward))
    BY <1>1 DEF Squares, Issue
  <2> QED
    BY <2>1, <2>2, RewardGrowsRoot DEF Squares
<1>2. SuppliesAreNat =>
        [\A reward \in Rewards :
           Issue(reward) => /\ Sqrt(Squares) + reward <= Sqrt(Squares') + 2
                            /\ reward <= Sqrt(Squares) =>
                                 Sqrt(Squares') <= Sqrt(Squares) + reward + 2]_supplies
  BY <1>1
<1> QED
  BY <1>2, SuppliesType, PTL DEF Spec, IssueTracksReward

\* A quotient is at least what the divisor fits, and at most what bounds it.
LEMMA QuotientBounds ==
  ASSUME NEW m \in Nat, NEW k \in Nat \ {0}, NEW c \in Nat
  PROVE  /\ k * c <= m => c <= m \div k
         /\ m <= k * c => m \div k <= c
<1> DEFINE p == m \div k
<1>1. p \in Nat /\ k * p <= m /\ m <= k * p + k - 1
  BY ShareRounds
<1> HIDE DEF p
<1>2. \A i, j \in Nat : i < j => k * i + k <= k * j
  <2> SUFFICES ASSUME NEW i \in Nat, NEW j \in Nat, i < j PROVE k * i + k <= k * j
    OBVIOUS
  <2>1. PICK d \in Nat : j = i + 1 + d
    <3>1. j - i - 1 \in Nat /\ j = i + 1 + (j - i - 1)
      OBVIOUS
    <3> QED BY <3>1
  <2>2. k * j = k * i + k + k * d /\ k * i \in Nat /\ k * d \in Nat
    BY <2>1
  <2> QED BY <2>2
<1>3. k * p \in Nat /\ k * c \in Nat
  BY <1>1
<1>4. ASSUME k * c <= m PROVE c <= p
  <2>1. ~(p < c)
    BY <1>1, <1>2, <1>3, <1>4
  <2> QED BY <1>1, <2>1
<1>5. ASSUME m <= k * c PROVE p <= c
  <2>1. ~(c < p)
    BY <1>1, <1>2, <1>3, <1>5
  <2> QED BY <1>1, <2>1
<1> QED
  BY <1>4, <1>5 DEF p

-----------------------------------------------------------------------------
(* The filter and the sort. *)

\* What the filter has kept of the first i numbers.
Kept(s, g, i) ==
  IF i = 0 THEN << >> ELSE IF s[i] > 0 THEN Append(g[i - 1], s[i]) ELSE g[i - 1]

\* Of a sequence whose first n numbers are positive and whose others are 0, the filter
\* keeps the first n: it returns them (the recurrence has this solution and no other).
LEMMA NonZerosOfPrefix ==
  ASSUME NEW s \in Seq(Nat), NEW n \in 0..Len(s),
         \A i \in 1..Len(s) : s[i] > 0 <=> i <= n
  PROVE  NonZeros(s) = [i \in 1..n |-> s[i]]
<1> DEFINE l == Len(s)
           First(i) == [j \in 1..(IF i <= n THEN i ELSE n) |-> s[j]]
           first == [i \in 0..l |-> First(i)]
           kept == CHOOSE g : g = [i \in 0..l |-> Kept(s, g, i)]
<1>1. l \in Nat /\ n \in Nat /\ n <= l /\ \A i \in 1..l : s[i] \in Nat
  BY LenProperties, ElementOfSeq
<1>2. \A i \in 0..l : First(i) = Kept(s, first, i)
  <2> SUFFICES ASSUME NEW i \in 0..l PROVE First(i) = Kept(s, first, i)
    OBVIOUS
  <2>1. CASE i = 0
    BY <1>1, <2>1 DEF Kept
  <2>2. CASE i # 0 /\ i <= n
    <3>1. i - 1 \in 0..l /\ i - 1 <= n /\ i - 1 \in Nat /\ i \in 1..l
      BY <1>1, <2>2
    <3>2. first[i - 1] = [j \in 1..(i - 1) |-> s[j]]
      BY <3>1
    <3>3. s[i] > 0
      BY <2>2, <3>1
    <3>4. Append([j \in 1..(i - 1) |-> s[j]], s[i]) = [j \in 1..i |-> s[j]]
      <4> DEFINE t == [j \in 1..(i - 1) |-> s[j]]
      <4>1. t \in Seq(Nat) /\ Len(t) = i - 1 /\ s[i] \in Nat
        <5>1. t \in [1..(i - 1) -> Nat]
          BY <1>1, <3>1
        <5>2. t \in Seq(Nat)
          BY <3>1, <5>1, SeqDef
        <5> QED BY <1>1, <3>1, <5>1, <5>2, LenProperties
      <4> DEFINE u == [j \in 1..i |-> s[j]]
      <4>2. u \in Seq(Nat) /\ Len(u) = i
        <5>1. u \in [1..i -> Nat] /\ i \in Nat
          BY <1>1, <2>2, <3>1
        <5>2. u \in Seq(Nat)
          BY <5>1, SeqDef
        <5> QED BY <5>1, <5>2, LenProperties
      <4>3. /\ Append(t, s[i]) \in Seq(Nat) /\ Len(Append(t, s[i])) = i
            /\ Append(t, s[i])[i] = s[i]
            /\ \A j \in 1..(i - 1) : Append(t, s[i])[j] = t[j]
        <5> HIDE DEF t
        <5> QED BY <3>1, <4>1, AppendProperties
      <4>4. \A j \in 1..i : Append(t, s[i])[j] = u[j]
        <5> SUFFICES ASSUME NEW j \in 1..i PROVE Append(t, s[i])[j] = u[j]
          OBVIOUS
        <5>1. j = i \/ j \in 1..(i - 1)
          BY <3>1
        <5>2. CASE j = i
          BY <4>3, <5>2
        <5>3. CASE j \in 1..(i - 1)
          BY <4>3, <5>3
        <5> QED BY <5>1, <5>2, <5>3
      <4> HIDE DEF t, u
      <4>5. Append(t, s[i]) = u
        BY <4>2, <4>3, <4>4, SeqEqual
      <4> QED BY <4>5 DEF t, u
    <3>5. Kept(s, first, i) = Append(first[i - 1], s[i])
      BY <2>2, <3>3 DEF Kept
    <3>6. First(i) = [j \in 1..i |-> s[j]]
      BY <2>2
    <3> HIDE DEF First, first
    <3> QED BY <3>2, <3>4, <3>5, <3>6, Zenon
  <2>3. CASE i # 0 /\ ~(i <= n)
    <3>1. i - 1 \in 0..l /\ i \in 1..l /\ ~(s[i] > 0) /\ (i - 1 <= n => i - 1 = n)
      BY <1>1, <2>3
    <3>2. Kept(s, first, i) = first[i - 1]
      BY <2>3, <3>1 DEF Kept
    <3> QED BY <2>3, <3>1, <3>2
  <2> QED BY <2>1, <2>2, <2>3
<1>3. first = [i \in 0..l |-> Kept(s, first, i)]
  BY <1>2
<1>4. \E g : g = [i \in 0..l |-> Kept(s, g, i)]
  <2> HIDE DEF first
  <2> QED BY <1>3
<1>5. kept = [i \in 0..l |-> Kept(s, kept, i)]
  <2> HIDE DEF first
  <2> QED BY <1>4, Zenon
<1>6. \A i \in 0..l : kept[i] = first[i]
  <2> HIDE DEF first, kept
  <2> DEFINE Bad == {i \in 0..l : kept[i] # first[i]}
  <2> SUFFICES ASSUME Bad # {} PROVE FALSE
    OBVIOUS
  <2>1. PICK b \in Bad : \A i \in Bad : b <= i
    <3>1. Bad \in SUBSET Nat
      BY <1>1
    <3> HIDE DEF Bad
    <3> QED BY <3>1, LeastNatural
  <2>2. b \in 0..l /\ kept[b] # first[b]
    OBVIOUS
  <2>3. kept[b] = Kept(s, kept, b) /\ first[b] = Kept(s, first, b)
    BY <1>3, <1>5, <2>2
  <2>4. CASE b = 0
    BY <2>2, <2>3, <2>4 DEF Kept
  <2>5. CASE b # 0
    <3>1. b - 1 \in 0..l /\ ~(b <= b - 1)
      BY <1>1, <2>2, <2>5
    <3>2. kept[b - 1] = first[b - 1]
      BY <2>1, <3>1
    <3> QED BY <2>2, <2>3, <2>5, <3>2 DEF Kept
  <2> QED BY <2>4, <2>5
<1>7. NonZeros(s) = kept[l]
  BY DEF NonZeros, Kept
<1>8. kept[l] = First(l)
  <2>1. l \in 0..l
    BY <1>1
  <2> HIDE DEF kept
  <2> QED BY <1>6, <2>1
<1>9. First(l) = [j \in 1..n |-> s[j]]
  BY <1>1
<1> QED
  BY <1>7, <1>8, <1>9

\* Exchanging two elements of a permutation makes another.
LEMMA Exchange ==
  ASSUME NEW S, NEW p \in Bijection(S, S), NEW a \in S, NEW b \in S
  PROVE  [p EXCEPT ![a] = p[b], ![b] = p[a]] \in Bijection(S, S)
<1> DEFINE q == [p EXCEPT ![a] = p[b], ![b] = p[a]]
<1>1. /\ p \in [S -> S]
      /\ \A x, y \in S : p[x] = p[y] => x = y
      /\ \A y \in S : \E x \in S : p[x] = y
  BY DEF Bijection, Injection, Surjection, IsInjective
<1>2. q \in [S -> S] /\ q[a] = p[b] /\ q[b] = p[a] /\ \A x \in S \ {a, b} : q[x] = p[x]
  BY <1>1
<1> HIDE DEF q
<1>3. \A x, y \in S : q[x] = q[y] => x = y
  BY <1>1, <1>2
<1>4. \A y \in S : \E x \in S : q[x] = y
  BY <1>1, <1>2
<1>5. q \in Injection(S, S) /\ q \in Surjection(S, S)
  BY <1>2, <1>3, <1>4 DEF Injection, Surjection, IsInjective
<1> QED BY <1>5 DEF Bijection, q

\* There is a largest of some numbers.
LEMMA Largest ==
  ASSUME NEW m \in Nat \ {0}, NEW f \in [1..m -> Nat]
  PROVE  \E a \in 1..m : \A i \in 1..m : f[i] <= f[a]
<1> DEFINE Has(k) == \E a \in 1..k : \A i \in 1..k : f[i] <= f[a]
           Bad == {k \in 1..m : ~Has(k)}
<1>1. Has(1)
  <2>1. 1 \in 1..1 /\ \A i \in 1..1 : i = 1
    OBVIOUS
  <2>2. f[1] \in Nat
    OBVIOUS
  <2> QED BY <2>1, <2>2
<1>2. ASSUME NEW k \in 1..m, k # m, Has(k) PROVE Has(k + 1)
  <2>1. PICK a \in 1..k : \A i \in 1..k : f[i] <= f[a]
    BY <1>2
  <2>2. /\ f[a] \in Nat /\ f[k + 1] \in Nat /\ \A i \in 1..k : f[i] \in Nat
        /\ \A i \in 1..(k + 1) : i \in 1..k \/ i = k + 1
    BY <1>2
  <2>3. CASE f[k + 1] <= f[a]
    <3>1. \A i \in 1..(k + 1) : f[i] <= f[a]
      BY <2>1, <2>2, <2>3
    <3>2. a \in 1..(k + 1)
      OBVIOUS
    <3> QED BY <3>1, <3>2
  <2>4. CASE f[a] <= f[k + 1]
    <3>1. \A i \in 1..(k + 1) : f[i] <= f[k + 1]
      BY <2>1, <2>2, <2>4
    <3>2. k + 1 \in 1..(k + 1)
      OBVIOUS
    <3> QED BY <3>1, <3>2
  <2> QED BY <2>2, <2>3, <2>4
<1>3. Bad = {}
  <2> HIDE DEF Has
  <2> SUFFICES ASSUME Bad # {} PROVE FALSE
    OBVIOUS
  <2>1. PICK b \in Bad : \A c \in Bad : b <= c
    <3>1. Bad \in SUBSET Nat
      OBVIOUS
    <3> HIDE DEF Bad
    <3> QED BY <3>1, LeastNatural
  <2>2. b \in 1..m /\ ~Has(b) /\ b # 1
    BY <1>1
  <2>3. b - 1 \in 1..m /\ b - 1 # m /\ (b - 1) + 1 = b /\ ~(b <= b - 1)
    BY <2>2
  <2>4. Has(b - 1)
    BY <2>1, <2>3
  <2>5. Has((b - 1) + 1)
    BY <1>2, <2>3, <2>4
  <2> QED BY <2>2, <2>3, <2>5
<1>4. m \in 1..m
  OBVIOUS
<1> HIDE DEF Has
<1>5. Has(m)
  BY <1>3, <1>4
<1> QED BY <1>5 DEF Has

\* A sequence of numbers has an order in which it ascends: the least number k of
\* elements at the end that no order has in place would be one more than such a number,
\* and the largest of the others can be put before them.
LEMMA OrderExists ==
  ASSUME NEW n \in Nat, NEW s \in [1..n -> Nat]
  PROVE  \E p \in Bijection(1..n, 1..n) : Ascending([j \in 1..n |-> s[p[j]]])
<1> DEFINE B == Bijection(1..n, 1..n)
           InPlace(p, k) == \A i, j \in 1..n : i < j /\ n - k < j => s[p[i]] <= s[p[j]]
           Good(k) == \E p \in B : InPlace(p, k)
<1>1. Good(0)
  <2> DEFINE p == [i \in 1..n |-> i]
  <2>1. p \in B
    BY DEF Bijection, Injection, Surjection, IsInjective
  <2>2. InPlace(p, 0)
    OBVIOUS
  <2> QED BY <2>1, <2>2
<1>2. ASSUME NEW k \in Nat, k < n, Good(k)
      PROVE  Good(k + 1)
  <2>1. PICK p \in B : InPlace(p, k)
    BY <1>2
  <2>2. /\ p \in [1..n -> 1..n]
        /\ \A x, y \in 1..n : p[x] = p[y] => x = y
    BY DEF Bijection, Injection, IsInjective
  <2> DEFINE m == n - k
  <2>3. m \in 1..n
    BY <1>2
  <2>4. PICK a \in 1..m : \A i \in 1..m : s[p[i]] <= s[p[a]]
    <3> DEFINE f == [i \in 1..m |-> s[p[i]]]
    <3>1. f \in [1..m -> Nat] /\ m \in Nat \ {0}
      BY <2>2, <2>3
    <3>2. \E a \in 1..m : \A i \in 1..m : f[i] <= f[a]
      <4> HIDE DEF f, m
      <4> QED BY <3>1, Largest
    <3> QED BY <3>2
  <2> DEFINE q == [p EXCEPT ![a] = p[m], ![m] = p[a]]
  <2>5. a \in 1..n
    BY <2>3, <2>4
  <2>6. q \in B
    <3> HIDE DEF m
    <3> QED BY <2>1, <2>3, <2>5, Exchange
  <2>7. /\ q[a] = p[m] /\ q[m] = p[a] /\ \A x \in 1..n : x # a /\ x # m => q[x] = p[x]
        /\ \A x \in 1..n : q[x] \in 1..n
    BY <2>2, <2>3, <2>5
  <2>8. InPlace(q, k + 1)
    <3> SUFFICES ASSUME NEW i \in 1..n, NEW j \in 1..n, i < j, n - (k + 1) < j
                 PROVE  s[q[i]] <= s[q[j]]
      OBVIOUS
    <3> HIDE DEF q
    <3>1. s[q[i]] \in Nat /\ s[q[j]] \in Nat
      BY <2>7
    <3>2. CASE j = m
      <4>1. i \in 1..m /\ a \in 1..m /\ m \in 1..m /\ i # m
        BY <2>3, <2>4, <3>2
      <4>2. i = a \/ q[i] = p[i]
        BY <2>7, <3>2
      <4> QED BY <2>4, <2>7, <3>2, <4>1, <4>2
    <3>3. CASE m < j
      <4>1. j # a /\ j # m /\ q[j] = p[j]
        BY <2>3, <2>4, <2>7, <3>3
      <4>2. q[i] \in {p[i], p[a], p[m]} /\ a < j /\ m < j
        <5>1. a <= m
          BY <2>3, <2>4
        <5>2. CASE i = a
          BY <2>3, <2>7, <3>3, <5>1, <5>2
        <5>3. CASE i = m
          BY <2>3, <2>7, <3>3, <5>1, <5>3
        <5>4. CASE i # a /\ i # m
          <6> HIDE DEF m
          <6> QED BY <2>3, <2>5, <2>7, <3>3, <5>1, <5>4
        <5> QED BY <5>2, <5>3, <5>4
      <4>3. s[p[i]] <= s[p[j]] /\ s[p[a]] <= s[p[j]] /\ s[p[m]] <= s[p[j]]
        BY <2>1, <2>3, <2>5, <3>3, <4>2
      <4> QED BY <4>1, <4>2, <4>3
    <3>4. j = m \/ m < j
      BY <1>2
    <3> QED BY <3>2, <3>3, <3>4
  <2> QED BY <2>6, <2>8
<1>3. Good(n)
  <2> DEFINE Bad == {k \in 0..n : ~Good(k)}
  <2> HIDE DEF Good
  <2> SUFFICES ASSUME Bad # {} PROVE FALSE
    OBVIOUS
  <2>1. PICK b \in Bad : \A c \in Bad : b <= c
    <3>1. Bad \in SUBSET Nat
      OBVIOUS
    <3> HIDE DEF Bad
    <3> QED BY <3>1, LeastNatural
  <2>2. b \in 0..n /\ ~Good(b) /\ b # 0
    BY <1>1
  <2>3. b - 1 \in 0..n /\ b - 1 \in Nat /\ b - 1 < n /\ (b - 1) + 1 = b /\ ~(b <= b - 1)
    BY <2>2
  <2>4. Good(b - 1)
    BY <2>1, <2>3
  <2> QED BY <1>2, <2>2, <2>3, <2>4
<1>4. PICK p \in B : InPlace(p, n)
  BY <1>3
<1>5. Ascending([j \in 1..n |-> s[p[j]]])
  <2>1. \A j \in 1..n : n - n < j
    OBVIOUS
  <2> QED BY <1>4, <2>1 DEF Ascending
<1> QED
  BY <1>4, <1>5

\* Sorted is such an order.
LEMMA SortedIsOrder ==
  ASSUME NEW n \in Nat, NEW s \in [1..n -> Nat]
  PROVE  \E p \in Bijection(1..n, 1..n) :
           /\ Sorted(s) = [j \in 1..n |-> s[p[j]]]
           /\ Ascending(Sorted(s))
<1> DEFINE T == {[j \in 1..n |-> s[p[j]]] : p \in Bijection(1..n, 1..n)}
<1>1. \E t \in T : Ascending(t)
  BY OrderExists
<1>2. Sorted(s) = CHOOSE t \in T : Ascending(t)
  <2>1. DOMAIN s = 1..n
    OBVIOUS
  <2> QED BY <2>1 DEF Sorted
<1> HIDE DEF T
<1>3. Sorted(s) \in T /\ Ascending(Sorted(s))
  BY <1>1, <1>2, Zenon
<1> QED
  BY <1>3 DEF T

-----------------------------------------------------------------------------
(* The ring. *)

\* The slot that history() reads as its j-th, and the number of rates in the ring.
Back(i, j) == (Slots + i - j) % Slots
Count == IF Len(recorded) < Slots THEN Len(recorded) ELSE Slots

\* The rates are in the slots before the index, the latest next to it.
RingFits ==
  /\ recorded \in Seq(1..BaseValue)
  /\ rates \in [Slot -> 0..BaseValue]
  /\ index \in Slot
  /\ Len(recorded) < Slots => index = Len(recorded)
  /\ \A j \in 1..Slots :
       rates[Back(index, j)] = IF j <= Len(recorded) THEN recorded[j] ELSE 0

\* A number below twice another is reduced by at most one subtraction.
LEMMA Reduced ==
  ASSUME NEW d \in Nat \ {0}, NEW x \in Nat, x < 2 * d
  PROVE  x % d = IF x < d THEN x ELSE x - d
OBVIOUS

\* Where the slots are: going back one by one passes every slot once, and the slots
\* before the next index are the index itself and those before it.
LEMMA BackFacts ==
  ASSUME NEW i \in Slot
  PROVE  /\ \A j \in 1..Slots : Back(i, j) = IF j <= i THEN i - j ELSE Slots + i - j
         /\ \A j \in 1..Slots : Back(i, j) \in Slot
         /\ \A j, k \in 1..Slots : Back(i, j) = Back(i, k) => j = k
         /\ (i + 1) % Slots \in Slot
         /\ i + 1 < Slots => (i + 1) % Slots = i + 1
         /\ Back((i + 1) % Slots, 1) = i
         /\ \A j \in 2..Slots : Back((i + 1) % Slots, j) = Back(i, j - 1)
<1> DEFINE n == (i + 1) % Slots
<1>1. Slots \in Nat \ {0} /\ i \in Nat /\ i < Slots /\ Slot = 0..(Slots - 1)
  BY UtilAssumption DEF Slot
<1>2. ASSUME NEW k \in 0..(Slots - 1), NEW j \in 1..Slots
      PROVE  Back(k, j) = IF j <= k THEN k - j ELSE Slots + k - j
  <2> DEFINE x == Slots + k - j
  <2>1. x \in Nat /\ x < 2 * Slots /\ (x < Slots <=> ~(j <= k)) /\ x - Slots = k - j
    BY <1>1
  <2> HIDE DEF x
  <2>2. x % Slots = IF x < Slots THEN x ELSE x - Slots
    BY <1>1, <2>1, Reduced
  <2>3. Back(k, j) = x % Slots
    BY DEF Back, x
  <2> QED BY <2>1, <2>2, <2>3 DEF x
<1>3. n = IF i + 1 < Slots THEN i + 1 ELSE 0
  <2>1. i + 1 \in Nat /\ i + 1 < 2 * Slots /\ (~(i + 1 < Slots) => (i + 1) - Slots = 0)
    BY <1>1
  <2> QED BY <1>1, <2>1, Reduced
<1>4. n \in 0..(Slots - 1)
  BY <1>1, <1>3
<1> HIDE DEF n
<1>5. \A j \in 1..Slots : Back(i, j) = IF j <= i THEN i - j ELSE Slots + i - j
  BY <1>1, <1>2
<1>6. \A j \in 1..Slots : Back(i, j) \in Slot
  BY <1>1, <1>5
<1>7. \A j, k \in 1..Slots : Back(i, j) = Back(i, k) => j = k
  BY <1>1, <1>5
<1>8. Back(n, 1) = i
  <2>1. Back(n, 1) = IF 1 <= n THEN n - 1 ELSE Slots + n - 1
    BY <1>1, <1>2, <1>4
  <2> QED BY <1>1, <1>3, <2>1
<1>9. \A j \in 2..Slots : Back(n, j) = Back(i, j - 1)
  <2> SUFFICES ASSUME NEW j \in 2..Slots PROVE Back(n, j) = Back(i, j - 1)
    OBVIOUS
  <2>1. j \in 1..Slots /\ j - 1 \in 1..Slots
    BY <1>1
  <2>2. Back(n, j) = IF j <= n THEN n - j ELSE Slots + n - j
    BY <1>2, <1>4, <2>1
  <2>3. Back(i, j - 1) = IF j - 1 <= i THEN i - (j - 1) ELSE Slots + i - (j - 1)
    BY <1>5, <2>1
  <2> QED BY <1>1, <1>3, <2>2, <2>3
<1> QED
  BY <1>1, <1>3, <1>4, <1>5, <1>6, <1>7, <1>8, <1>9 DEF n

\* The rates fill the ring from its first slot on.
LEMMA RatesFill ==
  ASSUME RingFits
  PROVE  /\ Count \in 0..Slots /\ Count <= Len(recorded)
         /\ \A k \in Slot : rates[k] > 0 <=> k < Count
<1>1. /\ Slots \in Nat \ {0} /\ BaseValue \in Nat \ {0} /\ Slot = 0..(Slots - 1)
      /\ index \in Nat /\ index < Slots
      /\ Len(recorded) \in Nat
      /\ \A j \in 1..Len(recorded) : recorded[j] \in 1..BaseValue
  <2>1. recorded \in Seq(1..BaseValue)
    BY DEF RingFits
  <2>2. Len(recorded) \in Nat /\ \A j \in 1..Len(recorded) : recorded[j] \in 1..BaseValue
    BY <2>1, LenProperties, ElementOfSeq
  <2> QED BY <2>2, UtilAssumption DEF RingFits, Slot
<1>2. ASSUME NEW k \in Slot
      PROVE  rates[k] > 0 <=> k < Count
  <2> DEFINE j == IF k < index THEN index - k ELSE Slots + index - k
  <2>1. j \in 1..Slots /\ k \in Nat /\ k < Slots
    BY <1>1
  <2>2. Back(index, j) = k
    <3>1. Back(index, j) = IF j <= index THEN index - j ELSE Slots + index - j
      <4> HIDE DEF j
      <4> QED BY <2>1, BackFacts DEF RingFits
    <3> QED BY <1>1, <2>1, <3>1
  <2>3. rates[k] = IF j <= Len(recorded) THEN recorded[j] ELSE 0
    <3> HIDE DEF j
    <3> QED BY <2>1, <2>2 DEF RingFits
  <2>4. rates[k] > 0 <=> j <= Len(recorded)
    <3> HIDE DEF j
    <3>1. j <= Len(recorded) => recorded[j] \in 1..BaseValue
      BY <1>1, <2>1
    <3> QED BY <1>1, <2>3, <3>1
  <2>5. CASE Len(recorded) < Slots
    BY <1>1, <2>1, <2>4, <2>5 DEF RingFits, Count
  <2>6. CASE ~(Len(recorded) < Slots)
    BY <1>1, <2>1, <2>4, <2>6 DEF Count
  <2> QED BY <2>5, <2>6
<1>3. Count \in 0..Slots /\ Count <= Len(recorded)
  BY <1>1 DEF Count
<1> QED
  BY <1>2, <1>3

\* What the API reads of the ring.
LEMMA HistoryIsRecorded ==
  ASSUME RingFits
  PROVE  History = [i \in 1..Count |-> recorded[i]]
<1> DEFINE s == [j \in 1..Slots |-> rates[Back(index, j)]]
<1>1. Count \in 0..Slots /\ Count <= Len(recorded) /\ Slots \in Nat \ {0} /\ index \in Slot
  BY RatesFill, UtilAssumption DEF RingFits
<1>2. \A j \in 1..Slots : s[j] = IF j <= Len(recorded) THEN recorded[j] ELSE 0
  BY DEF RingFits
<1>3. Len(recorded) \in Nat /\ \A j \in 1..Len(recorded) : recorded[j] \in 1..BaseValue
  <2>1. recorded \in Seq(1..BaseValue)
    BY DEF RingFits
  <2> QED BY <2>1, LenProperties, ElementOfSeq
<1>4. s \in Seq(Nat) /\ Len(s) = Slots
  <2>1. \A j \in 1..Slots : s[j] \in Nat
    BY <1>1, <1>2, <1>3, UtilAssumption
  <2>2. s \in [1..Slots -> Nat]
    <3>1. s \in [1..Slots -> Range(s)] /\ DOMAIN s = 1..Slots
      BY DEF Range
    <3> HIDE DEF s
    <3> QED BY <2>1, <3>1
  <2> HIDE DEF s
  <2>3. s \in Seq(Nat)
    BY <1>1, <2>2, SeqDef
  <2> QED BY <1>1, <2>2, <2>3, LenProperties
<1>5. \A j \in 1..Slots : s[j] > 0 <=> j <= Count
  <2> HIDE DEF s
  <2> SUFFICES ASSUME NEW j \in 1..Slots PROVE s[j] > 0 <=> j <= Count
    OBVIOUS
  <2>1. j <= Len(recorded) <=> j <= Count
    BY <1>1, <1>3 DEF Count
  <2>2. j <= Len(recorded) => recorded[j] \in 1..BaseValue
    BY <1>1, <1>3
  <2>3. BaseValue \in Nat
    BY UtilAssumption
  <2> QED BY <1>2, <2>1, <2>2, <2>3
<1>6. History = NonZeros(s)
  BY DEF History, Back
<1> HIDE DEF s
<1>7. NonZeros(s) = [i \in 1..Count |-> s[i]]
  BY <1>1, <1>4, <1>5, NonZerosOfPrefix
<1>8. \A i \in 1..Count : s[i] = recorded[i]
  BY <1>1, <1>2, <1>3
<1> QED
  BY <1>6, <1>7, <1>8

\* What interest_rate sorts is the first slots.
LEMMA NonZeroIsFilled ==
  ASSUME RingFits
  PROVE  NonZero(rates) = [i \in 1..Count |-> rates[i - 1]]
<1> DEFINE s == [j \in 1..Slots |-> rates[j - 1]]
<1>1. Count \in 0..Slots /\ Slots \in Nat \ {0} /\ BaseValue \in Nat
  BY RatesFill, UtilAssumption
<1>2. \A j \in 1..Slots : j - 1 \in Slot
  BY <1>1 DEF Slot
<1>3. s \in Seq(Nat) /\ Len(s) = Slots
  <2>1. s \in [1..Slots -> Nat]
    BY <1>1, <1>2 DEF RingFits
  <2> HIDE DEF s
  <2>2. s \in Seq(Nat)
    BY <1>1, <2>1, SeqDef
  <2> QED BY <1>1, <2>1, <2>2, LenProperties
<1>4. \A j \in 1..Slots : s[j] > 0 <=> j <= Count
  <2> SUFFICES ASSUME NEW j \in 1..Slots PROVE s[j] > 0 <=> j <= Count
    OBVIOUS
  <2>1. rates[j - 1] > 0 <=> j - 1 < Count
    BY <1>2, RatesFill
  <2>2. s[j] = rates[j - 1]
    OBVIOUS
  <2> QED BY <1>1, <2>1, <2>2
<1>5. NonZero(rates) = NonZeros(s)
  BY DEF NonZero
<1>6. \A i \in 1..Count : s[i] = rates[i - 1]
  BY <1>1
<1> HIDE DEF s
<1>7. NonZeros(s) = [i \in 1..Count |-> s[i]]
  BY <1>1, <1>3, <1>4, NonZerosOfPrefix
<1> QED
  BY <1>5, <1>6, <1>7

-----------------------------------------------------------------------------
(* The median. *)

\* The sorted rates are those of the history in another order.
LEMMA SortedIsHistory ==
  ASSUME RingFits
  PROVE  \E q \in Bijection(1..Count, 1..Count) :
           /\ Sorted(NonZero(rates)) = [j \in 1..Count |-> History[q[j]]]
           /\ Ascending(Sorted(NonZero(rates)))
<1> DEFINE n == Count
           r == [i \in 1..n |-> rates[i - 1]]
           At(k) == IF k < index THEN index - k ELSE Slots + index - k
<1>1. /\ n \in 0..Slots /\ Slots \in Nat \ {0} /\ Slot = 0..(Slots - 1)
      /\ index \in Nat /\ index < Slots /\ n \in Nat
      /\ n = IF Len(recorded) < Slots THEN Len(recorded) ELSE Slots
      /\ Len(recorded) < Slots => index = Len(recorded)
      /\ Len(recorded) \in Nat
  <2>1. recorded \in Seq(1..BaseValue)
    BY DEF RingFits
  <2>2. Len(recorded) \in Nat
    BY <2>1, LenProperties
  <2>3. Slots \in Nat \ {0} /\ Slot = 0..(Slots - 1)
    BY UtilAssumption DEF Slot
  <2>4. n \in 0..Slots /\ n = IF Len(recorded) < Slots THEN Len(recorded) ELSE Slots
    BY RatesFill DEF Count
  <2>5. index \in Nat /\ index < Slots /\ (Len(recorded) < Slots => index = Len(recorded))
    BY <2>3 DEF RingFits
  <2> QED BY <2>2, <2>3, <2>4, <2>5
<1>2. NonZero(rates) = r /\ History = [i \in 1..n |-> recorded[i]]
  BY NonZeroIsFilled, HistoryIsRecorded
<1>3. r \in [1..n -> Nat]
  <2>1. \A i \in 1..n : i - 1 \in Slot
    BY <1>1
  <2>2. rates \in [Slot -> 0..BaseValue] /\ BaseValue \in Nat
    BY UtilAssumption DEF RingFits
  <2> HIDE DEF n
  <2> QED BY <2>1, <2>2
<1>4. PICK p \in Bijection(1..n, 1..n) :
        /\ Sorted(r) = [j \in 1..n |-> r[p[j]]]
        /\ Ascending(Sorted(r))
  <2> HIDE DEF r, n
  <2> QED BY <1>1, <1>3, SortedIsOrder
<1>5. p \in [1..n -> 1..n] /\ \A x, y \in 1..n : p[x] = p[y] => x = y
  BY DEF Bijection, Injection, IsInjective
<1>6. ASSUME NEW k \in 0..(n - 1)
      PROVE  At(k) \in 1..n /\ Back(index, At(k)) = k /\ rates[k] = recorded[At(k)]
  <2> HIDE DEF n
  <2>1. At(k) \in 1..Slots /\ At(k) \in 1..n /\ k \in Nat /\ k < Slots
    BY <1>1
  <2>2. Back(index, At(k)) = k
    <3>1. Back(index, At(k)) = IF At(k) <= index THEN index - At(k) ELSE Slots + index - At(k)
      <4> HIDE DEF At
      <4> QED BY <2>1, BackFacts DEF RingFits
    <3> QED BY <1>1, <2>1, <3>1
  <2>3. rates[k] = recorded[At(k)]
    <3> HIDE DEF At
    <3>1. At(k) <= Len(recorded)
      BY <1>1, <2>1
    <3> QED BY <2>1, <2>2, <3>1 DEF RingFits
  <2> QED BY <2>1, <2>2, <2>3
<1> DEFINE q == [j \in 1..n |-> At(p[j] - 1)]
<1>7. \A j \in 1..n : p[j] - 1 \in 0..(n - 1)
  BY <1>1, <1>5
<1> HIDE DEF At
<1>8. \A j \in 1..n :
        /\ q[j] \in 1..n /\ Back(index, q[j]) = p[j] - 1
        /\ rates[p[j] - 1] = recorded[q[j]]
  BY <1>6, <1>7
<1>9. q \in [1..n -> 1..n] /\ \A x, y \in 1..n : q[x] = q[y] => x = y
  <2>1. q \in [1..n -> 1..n]
    BY <1>8
  <2> HIDE DEF q, n
  <2>2. ASSUME NEW x \in 1..n, NEW y \in 1..n, q[x] = q[y] PROVE x = y
    <3>1. p[x] - 1 = p[y] - 1 /\ p[x] \in 1..n /\ p[y] \in 1..n
      BY <1>5, <1>8, <2>2
    <3>2. p[x] = p[y]
      BY <1>1, <3>1
    <3> QED BY <1>5, <3>2
  <2> QED BY <2>1, <2>2
<1> HIDE DEF q
<1>10. q \in Bijection(1..n, 1..n)
  <2> HIDE DEF n
  <2>1. q \in Injection(1..n, 1..n)
    BY <1>9 DEF Injection, IsInjective
  <2>2. IsFiniteSet(1..n)
    <3>1. 1 \in Int /\ n \in Int
      BY <1>1
    <3> QED BY <3>1, FS_Interval
  <2>3. q \in Surjection(1..n, 1..n)
    BY <2>1, <2>2, FS_Injection
  <2> QED BY <2>1, <2>3 DEF Bijection
<1>11. Sorted(r) = [j \in 1..n |-> History[q[j]]]
  <2>1. \A j \in 1..n : r[p[j]] = History[q[j]]
    <3> SUFFICES ASSUME NEW j \in 1..n PROVE r[p[j]] = History[q[j]]
      OBVIOUS
    <3>1. p[j] \in 1..n /\ q[j] \in 1..n
      BY <1>5, <1>8
    <3> HIDE DEF n
    <3> QED BY <1>2, <1>8, <3>1
  <2> HIDE DEF r
  <2> QED BY <1>4, <2>1
<1> HIDE DEF r
<1> QED BY <1>2, <1>4, <1>10, <1>11

\* In an ascending sequence, a number with k elements up to it is not below the k-th,
\* and one with as many elements from it on as there are from the k-th is not above it.
UpTo(t, n, x) == {j \in 1..n : t[j] <= x}
From(t, n, x) == {j \in 1..n : t[j] >= x}
LEMMA CountedFrom ==
  ASSUME NEW n \in Nat, NEW t \in [1..n -> Nat], Ascending(t), NEW x \in Nat, NEW k \in 1..n
  PROVE  /\ k <= Cardinality(UpTo(t, n, x)) => t[k] <= x
         /\ n - k + 1 <= Cardinality(From(t, n, x)) => t[k] >= x
<1> DEFINE L == {j \in 1..n : t[j] <= x}
           U == {j \in 1..n : t[j] >= x}
<1>1. \A i, j \in 1..n : i < j => t[i] <= t[j]
  BY DEF Ascending
<1>2. ASSUME ~(t[k] <= x) PROVE Cardinality(L) <= k - 1
  <2>1. L \in SUBSET (1..(k - 1))
    <3> SUFFICES ASSUME NEW j \in L PROVE j \in 1..(k - 1)
      OBVIOUS
    <3>1. j \in 1..n /\ t[j] <= x /\ t[j] \in Nat /\ t[k] \in Nat
      OBVIOUS
    <3>2. ~(k < j) /\ j # k
      BY <1>1, <1>2, <3>1
    <3> QED BY <3>1, <3>2
  <2>2. IsFiniteSet(1..(k - 1)) /\ Cardinality(1..(k - 1)) = k - 1
    <3>1. 1 \in Int /\ k - 1 \in Int /\ (k - 1) - 1 + 1 = k - 1
      OBVIOUS
    <3>2. 1 > k - 1 => k - 1 = 0
      OBVIOUS
    <3>3. IsFiniteSet(1..(k - 1))
          /\ Cardinality(1..(k - 1)) = IF 1 > k - 1 THEN 0 ELSE (k - 1) - 1 + 1
      BY <3>1, FS_Interval
    <3> QED BY <3>1, <3>2, <3>3
  <2> HIDE DEF L
  <2>3. Cardinality(L) <= Cardinality(1..(k - 1))
    BY <2>1, <2>2, FS_Subset
  <2> QED BY <2>2, <2>3
<1>3. ASSUME ~(t[k] >= x) PROVE Cardinality(U) <= n - k
  <2>1. U \in SUBSET ((k + 1)..n)
    <3> SUFFICES ASSUME NEW j \in U PROVE j \in (k + 1)..n
      OBVIOUS
    <3>1. j \in 1..n /\ t[j] >= x /\ t[j] \in Nat /\ t[k] \in Nat
      OBVIOUS
    <3>2. ~(j < k) /\ j # k
      BY <1>1, <1>3, <3>1
    <3> QED BY <3>1, <3>2
  <2>2. IsFiniteSet((k + 1)..n) /\ Cardinality((k + 1)..n) = n - k
    <3>1. k + 1 \in Int /\ n \in Int /\ n - (k + 1) + 1 = n - k
      OBVIOUS
    <3>2. k + 1 > n => n - k = 0
      OBVIOUS
    <3>3. IsFiniteSet((k + 1)..n)
          /\ Cardinality((k + 1)..n) = IF k + 1 > n THEN 0 ELSE n - (k + 1) + 1
      BY <3>1, FS_Interval
    <3> QED BY <3>1, <3>2, <3>3
  <2> HIDE DEF U
  <2>3. Cardinality(U) <= Cardinality((k + 1)..n)
    BY <2>1, <2>2, FS_Subset
  <2> QED BY <2>2, <2>3
<1>4. Cardinality(L) \in Nat /\ Cardinality(U) \in Nat
  <2>1. IsFiniteSet(1..n) /\ L \in SUBSET (1..n) /\ U \in SUBSET (1..n)
    BY FS_Interval
  <2> HIDE DEF L, U
  <2> QED BY <2>1, FS_Subset, FS_CardinalityType
<1> HIDE DEF L, U
<1>5. /\ k <= Cardinality(L) => t[k] <= x
      /\ n - k + 1 <= Cardinality(U) => t[k] >= x
  BY <1>2, <1>3, <1>4
<1> QED BY <1>5 DEF L, U, UpTo, From

\* A permutation of the positions leaves as many of them in a set.
LEMMA SameCount ==
  ASSUME NEW n \in Nat, NEW q \in Bijection(1..n, 1..n), NEW U \in SUBSET (1..n)
  PROVE  Cardinality({j \in 1..n : q[j] \in U}) = Cardinality(U) /\ Cardinality(U) \in Nat
<1> DEFINE T == {j \in 1..n : q[j] \in U}
           f == [j \in T |-> q[j]]
<1>1. /\ q \in [1..n -> 1..n]
      /\ \A x, y \in 1..n : q[x] = q[y] => x = y
      /\ \A y \in 1..n : \E x \in 1..n : q[x] = y
  BY DEF Bijection, Injection, Surjection, IsInjective
<1>2. /\ f \in [T -> U]
      /\ \A x, y \in T : f[x] = f[y] => x = y
      /\ \A y \in U : \E x \in T : f[x] = y
  BY <1>1
<1>3. IsFiniteSet(1..n) /\ T \in SUBSET (1..n)
  BY FS_Interval
<1> HIDE DEF T, f
<1>4. f \in Bijection(T, U)
  BY <1>2 DEF Bijection, Injection, Surjection, IsInjective
<1>5. IsFiniteSet(T)
  BY <1>3, FS_Subset
<1>6. ExistsBijection(T, U)
  BY <1>4 DEF ExistsBijection
<1>7. Cardinality(U) = Cardinality(T) /\ Cardinality(T) \in Nat
  BY <1>5, <1>6, FS_Bijection, FS_CardinalityType
<1> QED BY <1>7 DEF T

\* interest_rate takes the one in the middle, or the two.
LEMMA Halves ==
  ASSUME NEW n \in Nat \ {0}
  PROVE  \/ n % 2 = 0 /\ n \div 2 \in 1..n /\ (n \div 2) + 1 \in 1..n /\ n = 2 * (n \div 2)
         \/ n % 2 = 1 /\ (n \div 2) + 1 \in 1..n /\ n = 2 * (n \div 2) + 1
OBVIOUS

\* The rates in the ring are between 1 and 100%, and so is their middle.
LEMMA InterestRateType == RingFits => InterestRate \in 1..BaseValue
<1> SUFFICES ASSUME RingFits PROVE InterestRate \in 1..BaseValue
  OBVIOUS
<1> DEFINE t == Sorted(NonZero(rates))
           n == Count
<1>1. BaseValue \in Nat \ {0}
  BY UtilAssumption
<1>2. n \in Nat /\ n <= Len(recorded)
  BY RatesFill, UtilAssumption
<1>3. Len(recorded) \in Nat /\ \A j \in 1..Len(recorded) : recorded[j] \in 1..BaseValue
  <2>1. recorded \in Seq(1..BaseValue)
    BY DEF RingFits
  <2> QED BY <2>1, LenProperties, ElementOfSeq
<1>4. NonZero(rates) = [i \in 1..n |-> rates[i - 1]]
  BY NonZeroIsFilled
<1>5. CASE n = 0
  <2>1. NonZero(rates) = << >>
    BY <1>4, <1>5
  <2> QED BY <1>1, <2>1 DEF InterestRate, InterestRateOf
<1>6. CASE n # 0
  <2>1. PICK q \in Bijection(1..n, 1..n) : t = [j \in 1..n |-> History[q[j]]]
    BY SortedIsHistory
  <2>2. t \in [1..n -> 1..BaseValue]
    <3>1. q \in [1..n -> 1..n] /\ History = [i \in 1..n |-> recorded[i]]
      BY HistoryIsRecorded DEF Bijection, Injection
    <3> HIDE DEF t, n
    <3> QED BY <1>2, <1>3, <2>1, <3>1
  <2>3. NonZero(rates) # << >>
    <3>1. DOMAIN NonZero(rates) # {}
      <4> HIDE DEF n
      <4>1. 1 \in 1..n
        BY <1>2, <1>6
      <4> QED BY <1>4, <4>1
    <3> QED BY <3>1
  <2>4. InterestRate = Middle(t)
    BY <2>3 DEF InterestRate, InterestRateOf
  <2> HIDE DEF t, n
  <2>5. Len(t) = n
    <3>1. t \in Seq(1..BaseValue)
      BY <1>2, <2>2, SeqDef
    <3> QED BY <1>2, <2>2, <3>1, LenProperties
  <2> DEFINE h == n \div 2
  <2>6. \/ n % 2 = 0 /\ h \in 1..n /\ h + 1 \in 1..n
        \/ n % 2 = 1 /\ h + 1 \in 1..n
    BY <1>2, <1>6, Halves
  <2>7. h \in Int
    BY <1>2
  <2>8. Middle(t) = IF n % 2 = 0 THEN (t[(h + 1) - 1] + t[h + 1]) \div 2 ELSE t[h + 1]
    BY <2>5 DEF Middle
  <2>9. \A x, y \in 1..BaseValue : (x + y) \div 2 \in 1..BaseValue
    BY <1>1
  <2> HIDE DEF h
  <2>10. CASE n % 2 = 0
    <3>1. h \in 1..n /\ h + 1 \in 1..n /\ (h + 1) - 1 = h
      BY <2>6, <2>7, <2>10
    <3> QED BY <2>2, <2>4, <2>8, <2>9, <2>10, <3>1
  <2>11. CASE n % 2 = 1
    BY <2>2, <2>4, <2>6, <2>8, <2>11
  <2> QED BY <2>6, <2>10, <2>11
<1> QED BY <1>5, <1>6

\* It is the median of what history() returns.
LEMMA MedianOfRing == RingFits => InterestRateIsMedian
<1> SUFFICES ASSUME RingFits, History # << >>,
                    NEW x \in Range(History), NEW y \in Range(History),
                    2 * Below(x) >= Len(History), 2 * Above(x) > Len(History),
                    2 * Below(y) > Len(History), 2 * Above(y) >= Len(History)
             PROVE  InterestRate = (x + y) \div 2
  BY DEF InterestRateIsMedian
<1> DEFINE t == Sorted(NonZero(rates))
           n == Count
           h == n \div 2
<1>1. n \in Nat /\ n <= Len(recorded)
  BY RatesFill, UtilAssumption
<1>2. History = [i \in 1..n |-> recorded[i]] /\ NonZero(rates) = [i \in 1..n |-> rates[i - 1]]
  BY HistoryIsRecorded, NonZeroIsFilled
<1>3. History \in [1..n -> 1..BaseValue] /\ Len(History) = n
  <2>1. recorded \in Seq(1..BaseValue)
    BY DEF RingFits
  <2>2. Len(recorded) \in Nat /\ \A j \in 1..Len(recorded) : recorded[j] \in 1..BaseValue
    BY <2>1, LenProperties, ElementOfSeq
  <2> HIDE DEF n
  <2>3. History \in [1..n -> 1..BaseValue]
    BY <1>1, <1>2, <2>2
  <2>4. History \in Seq(1..BaseValue)
    BY <1>1, <2>3, SeqDef
  <2> QED BY <1>1, <2>3, <2>4, LenProperties
<1>4. n # 0
  <2> HIDE DEF n
  <2>1. n = 0 => History = << >>
    BY <1>2
  <2> QED BY <2>1
<1>5. x \in Nat /\ y \in Nat /\ BaseValue \in Nat
  <2> HIDE DEF n
  <2> QED BY <1>3, UtilAssumption DEF Range
<1>6. PICK q \in Bijection(1..n, 1..n) : t = [j \in 1..n |-> History[q[j]]] /\ Ascending(t)
  BY SortedIsHistory
<1>7. q \in [1..n -> 1..n]
  BY DEF Bijection, Injection
<1>8. InterestRate = Middle(t)
  <2>1. NonZero(rates) # << >>
    <3> HIDE DEF n
    <3>1. 1 \in 1..n
      BY <1>1, <1>4
    <3>2. 1 \in DOMAIN NonZero(rates)
      BY <1>2, <3>1
    <3> QED BY <3>2
  <2> QED BY <2>1 DEF InterestRate, InterestRateOf
<1> HIDE DEF t, n
<1>9. t \in [1..n -> Nat] /\ Len(t) = n
  <2>1. t \in [1..n -> Nat]
    BY <1>3, <1>5, <1>6, <1>7
  <2>2. t \in Seq(Nat)
    BY <1>1, <2>1, SeqDef
  <2> QED BY <1>1, <2>1, <2>2, LenProperties
<1>10. ASSUME NEW v
       PROVE  /\ Cardinality(UpTo(t, n, v)) = Below(v) /\ Below(v) \in Nat
              /\ Cardinality(From(t, n, v)) = Above(v) /\ Above(v) \in Nat
  <2> DEFINE L == {i \in 1..n : History[i] <= v}
             U == {i \in 1..n : History[i] >= v}
  <2>1. UpTo(t, n, v) = {j \in 1..n : q[j] \in L}
        /\ From(t, n, v) = {j \in 1..n : q[j] \in U}
    <3>1. \A j \in 1..n : t[j] = History[q[j]] /\ q[j] \in 1..n
      BY <1>6, <1>7
    <3> QED BY <3>1 DEF UpTo, From
  <2>2. Below(v) = Cardinality(L) /\ Above(v) = Cardinality(U)
    <3>1. DOMAIN History = 1..n
      BY <1>3
    <3> QED BY <3>1 DEF Below, Above
  <2>3. L \in SUBSET (1..n) /\ U \in SUBSET (1..n)
    OBVIOUS
  <2> HIDE DEF L, U
  <2>4. Cardinality({j \in 1..n : q[j] \in L}) = Cardinality(L) /\ Cardinality(L) \in Nat
    BY <1>1, <2>3, SameCount
  <2>5. Cardinality({j \in 1..n : q[j] \in U}) = Cardinality(U) /\ Cardinality(U) \in Nat
    BY <1>1, <2>3, SameCount
  <2> QED BY <2>1, <2>2, <2>4, <2>5
<1>11. \A v \in {x, y} : \A k \in 1..n :
         /\ k <= Below(v) => t[k] <= v
         /\ n - k + 1 <= Above(v) => t[k] >= v
  <2> SUFFICES ASSUME NEW v \in {x, y}, NEW k \in 1..n
               PROVE  /\ k <= Below(v) => t[k] <= v
                      /\ n - k + 1 <= Above(v) => t[k] >= v
    OBVIOUS
  <2>1. v \in Nat
    BY <1>5
  <2>2. /\ k <= Cardinality(UpTo(t, n, v)) => t[k] <= v
        /\ n - k + 1 <= Cardinality(From(t, n, v)) => t[k] >= v
    BY <1>1, <1>6, <1>9, <2>1, CountedFrom
  <2> QED BY <1>10, <2>2, Zenon
<1>12. \/ n % 2 = 0 /\ h \in 1..n /\ h + 1 \in 1..n /\ n = 2 * h
       \/ n % 2 = 1 /\ h + 1 \in 1..n /\ n = 2 * h + 1
  BY <1>1, <1>4, Halves
<1>13. Middle(t) = IF n % 2 = 0 THEN (t[(h + 1) - 1] + t[h + 1]) \div 2 ELSE t[h + 1]
  BY <1>9 DEF Middle
<1>14. /\ Below(x) \in Nat /\ Above(x) \in Nat /\ Below(y) \in Nat /\ Above(y) \in Nat
       /\ 2 * Below(x) >= n /\ 2 * Above(x) > n /\ 2 * Below(y) > n /\ 2 * Above(y) >= n
  BY <1>3, <1>10
<1>15. h \in Int
  BY <1>1
<1> HIDE DEF h
<1>16. CASE n % 2 = 0
  <2>1. h \in 1..n /\ h + 1 \in 1..n /\ n = 2 * h /\ (h + 1) - 1 = h
    BY <1>12, <1>15, <1>16
  <2>2. h <= Below(x) /\ n - h + 1 <= Above(x) /\ h + 1 <= Below(y) /\ n - (h + 1) + 1 <= Above(y)
    BY <1>14, <2>1
  <2>3. t[h] <= x /\ t[h] >= x /\ t[h + 1] <= y /\ t[h + 1] >= y
    BY <1>11, <2>1, <2>2
  <2>4. t[h] = x /\ t[h + 1] = y
    BY <1>5, <1>9, <2>1, <2>3
  <2> QED BY <1>8, <1>13, <1>16, <2>1, <2>4
<1>17. CASE n % 2 = 1
  <2>1. h + 1 \in 1..n /\ n = 2 * h + 1
    BY <1>12, <1>17
  <2>2. /\ h + 1 <= Below(x) /\ n - (h + 1) + 1 <= Above(x)
        /\ h + 1 <= Below(y) /\ n - (h + 1) + 1 <= Above(y)
    BY <1>14, <1>15, <2>1
  <2>3. t[h + 1] <= x /\ t[h + 1] >= x /\ t[h + 1] <= y /\ t[h + 1] >= y
    BY <1>11, <2>1, <2>2
  <2>4. t[h + 1] = x /\ t[h + 1] = y
    BY <1>5, <1>9, <2>1, <2>3
  <2>5. (x + x) \div 2 = x
    BY <1>5
  <2> QED BY <1>8, <1>13, <1>17, <2>4, <2>5
<1> QED BY <1>12, <1>16, <1>17

-----------------------------------------------------------------------------
(* Blocks. *)

(***************************************************************************)
(* The blocks keep the promises of SupplyCurve: the reward is an Issue, the*)
(* conversions are those of SupplyCurve, and the update of the util entry  *)
(* changes no supply (index_block).                                        *)
(***************************************************************************)
THEOREM BlocksFollowCurve == BlockSpec => Spec
<1>1. BlockInit => Init
  BY DEF BlockInit
<1>2. [BlockNext]_blockVars => [Next]_supplies
  <2> SUFFICES ASSUME [BlockNext]_blockVars PROVE [Next]_supplies
    OBVIOUS
  <2>1. CASE BeginBlock
    <3>1. CASE \E reward \in Rewards : Issue(reward)
      BY <3>1 DEF Next
    <3>2. CASE UNCHANGED supplies
      BY <3>2
    <3> QED BY <2>1, <3>1, <3>2 DEF BeginBlock
  <2>2. CASE IndexConversion
    BY <2>2 DEF IndexConversion, Next
  <2>3. CASE EndBlock
    BY <2>3 DEF EndBlock
  <2>4. CASE UNCHANGED blockVars
    BY <2>4 DEF blockVars
  <2> QED BY <2>1, <2>2, <2>3, <2>4 DEF BlockNext
<1> QED BY <1>1, <1>2, PTL DEF BlockSpec, Spec

\* A rate is at most 100%.
LEMMA RateType ==
  ASSUME NEW a \in Nat, NEW b \in Nat
  PROVE  RateOf(a, b) \in 0..BaseValue
<1>1. BaseValue \in Nat \ {0}
  BY UtilAssumption
<1>2. CASE a > b
  <2> DEFINE m == BaseValue * (a - b)
             k == a + b
  <2>1. m \in Nat /\ k \in Nat \ {0}
    <3>1. a - b \in Nat
      BY <1>2
    <3> QED BY <1>1, <1>2, <3>1
  <2>2. m <= k * BaseValue
    <3>1. a - b \in Nat /\ a - b <= a + b
      BY <1>2
    <3>2. \A i, j, l \in Nat : i <= j => l * i <= j * l
      OBVIOUS
    <3> QED BY <1>1, <3>1, <3>2
  <2> HIDE DEF m, k
  <2>3. m \div k \in Nat /\ m \div k <= BaseValue
    BY <1>1, <2>1, <2>2, QuotientBounds, DivisionType
  <2>4. RateOf(a, b) = m \div k
    BY <1>2 DEF RateOf, m, k
  <2> QED BY <1>1, <2>3, <2>4
<1>3. CASE ~(a > b)
  BY <1>1, <1>3 DEF RateOf
<1> QED BY <1>2, <1>3

\* The empty ring.
LEMMA RingInit == BlockInit => RingFits
<1> SUFFICES ASSUME BlockInit PROVE RingFits
  OBVIOUS
<1>1. recorded = << >> /\ index = 0 /\ rates = [j \in Slot |-> 0]
  BY DEF BlockInit, UtilInit
<1>2. Slots \in Nat \ {0} /\ BaseValue \in Nat /\ 0 \in Slot
  BY UtilAssumption DEF Slot
<1>3. recorded \in Seq(1..BaseValue) /\ Len(recorded) = 0
  BY <1>1, EmptySeq
<1>4. \A j \in 1..Slots : Back(index, j) \in Slot
  BY <1>1, <1>2, BackFacts
<1> QED BY <1>1, <1>2, <1>3, <1>4 DEF RingFits

\* A rate is put at the index, and what was j-th before is one further back.
LEMMA RingUpdate ==
  ASSUME SuppliesAreNat, RingFits, UpdateUtil(supply0, supply1)
  PROVE  RingFits'
<1> DEFINE rate == RateOf(supply0, supply1)
<1>1. rate \in 0..BaseValue /\ BaseValue \in Nat /\ Slots \in Nat \ {0}
  BY RateType, UtilAssumption DEF SuppliesAreNat
<1>2. /\ rates' = IF rate > 0 THEN [rates EXCEPT ![index] = rate] ELSE rates
      /\ index' = IF rate > 0 THEN (index + 1) % Slots ELSE index
      /\ recorded' = IF rate > 0 THEN <<rate>> \o recorded ELSE recorded
  BY DEF UpdateUtil, NextIndex
<1> HIDE DEF rate
<1>3. CASE ~(rate > 0)
  BY <1>2, <1>3 DEF RingFits, Back
<1>4. CASE rate > 0
  <2>1. /\ recorded \in Seq(1..BaseValue) /\ Len(recorded) \in Nat
        /\ rate \in 1..BaseValue
    <3>1. recorded \in Seq(1..BaseValue)
      BY DEF RingFits
    <3> QED BY <1>1, <1>4, <3>1, LenProperties
  <2>2. /\ recorded' \in Seq(1..BaseValue) /\ Len(recorded') = Len(recorded) + 1
        /\ recorded'[1] = rate
        /\ \A j \in 2..(Len(recorded) + 1) : recorded'[j] = recorded[j - 1]
    <3> DEFINE one == <<rate>>
    <3>1. one \in Seq(1..BaseValue) /\ Len(one) = 1 /\ one[1] = rate
      BY <2>1
    <3>2. recorded' = one \o recorded
      BY <1>2, <1>4
    <3> HIDE DEF one
    <3>3. /\ one \o recorded \in Seq(1..BaseValue)
          /\ Len(one \o recorded) = Len(one) + Len(recorded)
          /\ \A i \in 1..(Len(one) + Len(recorded)) :
               (one \o recorded)[i] = IF i <= Len(one) THEN one[i] ELSE recorded[i - Len(one)]
      BY <2>1, <3>1, ConcatProperties
    <3> QED BY <2>1, <3>1, <3>2, <3>3
  <2>3. index \in Slot /\ rates \in [Slot -> 0..BaseValue]
    BY DEF RingFits
  <2>4. rates' = [rates EXCEPT ![index] = rate] /\ rates' \in [Slot -> 0..BaseValue]
        /\ rates'[index] = rate /\ \A k \in Slot : k # index => rates'[k] = rates[k]
    BY <1>1, <1>2, <1>4, <2>3
  <2>5. index' = (index + 1) % Slots
    BY <1>2, <1>4
  <2>6. index' \in Slot
    BY <2>3, <2>5, BackFacts
  <2>7. Len(recorded') < Slots => index' = Len(recorded')
    <3>1. index + 1 < Slots => index' = index + 1
      BY <2>3, <2>5, BackFacts
    <3> QED BY <1>1, <2>1, <2>2, <3>1 DEF RingFits
  <2>8. ASSUME NEW j \in 1..Slots
        PROVE  rates'[Back(index', j)] = IF j <= Len(recorded') THEN recorded'[j] ELSE 0
    <3>1. CASE j = 1
      <4>1. Back(index', j) = index
        BY <2>3, <2>5, <3>1, BackFacts
      <4> QED BY <2>1, <2>2, <2>4, <3>1, <4>1
    <3>2. CASE j # 1
      <4>1. j \in 2..Slots /\ j - 1 \in 1..Slots /\ j - 1 # Slots /\ Slots \in 1..Slots
        BY <1>1, <3>2
      <4>2. Back(index', j) = Back(index, j - 1)
        BY <2>3, <2>5, <4>1, BackFacts
      <4>3. Back(index, Slots) = index
        <5>1. Back(index, Slots) = IF Slots <= index THEN index - Slots ELSE Slots + index - Slots
          BY <2>3, <4>1, BackFacts
        <5> QED BY <1>1, <2>3, <5>1 DEF Slot
      <4>4. Back(index, j - 1) # index /\ Back(index, j - 1) \in Slot
        <5>1. Back(index, j - 1) = Back(index, Slots) => j - 1 = Slots
          BY <2>3, <4>1, BackFacts
        <5>2. Back(index, j - 1) \in Slot
          BY <2>3, <4>1, BackFacts
        <5> QED BY <4>1, <4>3, <5>1, <5>2
      <4>5. rates'[Back(index', j)] = rates[Back(index, j - 1)]
        BY <2>4, <4>2, <4>4
      <4>6. rates[Back(index, j - 1)] = IF j - 1 <= Len(recorded) THEN recorded[j - 1] ELSE 0
        BY <4>1 DEF RingFits
      <4>7. /\ j <= Len(recorded') <=> j - 1 <= Len(recorded)
            /\ j <= Len(recorded') => recorded'[j] = recorded[j - 1]
        BY <2>1, <2>2, <4>1
      <4> QED BY <4>5, <4>6, <4>7
    <3> QED BY <3>1, <3>2
  <2>9. \A j \in 1..Slots :
          rates'[(Slots + index' - j) % Slots] = IF j <= Len(recorded') THEN recorded'[j] ELSE 0
    BY <2>8 DEF Back
  <2> QED BY <2>2, <2>4, <2>6, <2>7, <2>9 DEF RingFits, Back
<1> QED BY <1>3, <1>4

\* Every step keeps the ring.
LEMMA RingStep == SuppliesAreNat /\ RingFits /\ [BlockNext]_blockVars => RingFits'
<1> SUFFICES ASSUME SuppliesAreNat, RingFits, [BlockNext]_blockVars PROVE RingFits'
  OBVIOUS
<1>1. CASE UNCHANGED util
  BY <1>1 DEF util, RingFits, Back
<1>2. CASE EndBlock
  BY <1>2, RingUpdate DEF EndBlock
<1>3. CASE BeginBlock \/ IndexConversion
  BY <1>1, <1>3 DEF BeginBlock, IndexConversion, util
<1>4. CASE UNCHANGED blockVars
  BY <1>1, <1>4 DEF blockVars
<1> QED BY <1>2, <1>3, <1>4 DEF BlockNext

\* The ring is in order in every behaviour.
LEMMA RingInvariant == BlockSpec => [](SuppliesAreNat /\ RingFits)
BY RingInit, RingStep, BlocksFollowCurve, SuppliesType, PTL DEF BlockSpec

(***************************************************************************)
(* RingHoldsLastRates: history() returns the rates of the last blocks that *)
(* had one, the latest first, for every number of slots.                   *)
(***************************************************************************)
THEOREM RingIsLastRates == BlockSpec => []RingHoldsLastRates
<1>1. RingFits => RingHoldsLastRates
  <2> SUFFICES ASSUME RingFits PROVE RingHoldsLastRates
    OBVIOUS
  <2>1. History = [i \in 1..Count |-> recorded[i]]
    BY HistoryIsRecorded
  <2>2. Count \in Nat
    BY RatesFill, UtilAssumption
  <2>3. SubSeq(recorded, 1, Count) = [i \in 1..Count |-> recorded[i]]
    BY <2>2
  <2> QED BY <2>1, <2>3 DEF RingHoldsLastRates, Count
<1> QED BY <1>1, RingInvariant, PTL

(***************************************************************************)
(* InterestRateIsMedian: the interest rate is the median of the last rates,*)
(* for every number of slots and however many of them are filled.          *)
(***************************************************************************)
THEOREM InterestIsMedian == BlockSpec => []InterestRateIsMedian
BY MedianOfRing, RingInvariant, PTL

BondsAreNat == bondsPerSat \in Nat
RateIsDefined == InterestRate \in 1..BaseValue

\* The bonds per sat remain a natural number.
LEMMA BondsStep ==
  BondsAreNat /\ RateIsDefined' /\ [BlockNext]_blockVars => BondsAreNat'
<1> SUFFICES ASSUME bondsPerSat \in Nat, InterestRate' \in 1..BaseValue, [BlockNext]_blockVars
             PROVE  bondsPerSat' \in Nat
  BY DEF BondsAreNat, RateIsDefined
<1>1. {BaseValue, BlocksPerYear} \subseteq Nat \ {0}
  BY UtilAssumption
<1>2. CASE EndBlock
  <2> DEFINE rate == InterestRateOf(rates')
  <2>1. rate \in Nat
    BY <1>1 DEF InterestRate
  <2>2. bondsPerSat' = bondsPerSat + ((bondsPerSat * rate) \div BaseValue) \div BlocksPerYear
    BY <1>2 DEF EndBlock, UpdateUtil, Growth
  <2> HIDE DEF rate
  <2>3. bondsPerSat * rate \in Nat
    BY <2>1
  <2>4. (bondsPerSat * rate) \div BaseValue \in Nat
    BY <1>1, <2>3, DivisionType
  <2>5. ((bondsPerSat * rate) \div BaseValue) \div BlocksPerYear \in Nat
    BY <1>1, <2>4, DivisionType
  <2> QED BY <2>2, <2>5
<1>3. CASE BeginBlock \/ IndexConversion \/ UNCHANGED blockVars
  BY <1>3 DEF BeginBlock, IndexConversion, blockVars, util
<1> QED BY <1>2, <1>3 DEF BlockNext

(***************************************************************************)
(* UtilsAreDefined: no division of the API is by zero, a bond is worth a   *)
(* util at least, and a sat's utils are no fewer than its bonds.           *)
(***************************************************************************)
THEOREM UtilsHaveValue == BlockSpec => []UtilsAreDefined
<1>1. BlockInit => BondsAreNat
  BY UtilAssumption DEF BlockInit, UtilInit, BondsAreNat
<1>2. RingFits => RateIsDefined
  BY InterestRateType DEF RateIsDefined
<1>3. BondsAreNat /\ RateIsDefined => UtilsAreDefined
  <2> SUFFICES ASSUME bondsPerSat \in Nat, InterestRate \in 1..BaseValue PROVE UtilsAreDefined
    BY DEF BondsAreNat, RateIsDefined
  <2> DEFINE b == BaseValue
             r == InterestRate
             u == (b * b) \div r
  <2>1. b \in Nat \ {0} /\ r \in Nat \ {0} /\ r <= b
    BY UtilAssumption
  <2>2. UtilsPerBond = u /\ UtilsPerSat = (bondsPerSat * u) \div b
    BY DEF UtilsPerBond, UtilsPerSat
  <2> HIDE DEF r, b
  <2>3. r * b <= b * b /\ b * b \in Nat
    <3>1. \A i, j, l \in Nat : i <= j => i * l <= j * l
      OBVIOUS
    <3> QED BY <2>1, <3>1
  <2>4. u \in Nat /\ b <= u
    BY <2>1, <2>3, QuotientBounds, DivisionType
  <2> HIDE DEF u
  <2>5. b * bondsPerSat <= bondsPerSat * u /\ bondsPerSat * u \in Nat
    <3>1. \A i, j, l \in Nat : i <= j => i * l <= l * j
      OBVIOUS
    <3> QED BY <2>1, <2>4, <3>1
  <2>6. bondsPerSat <= (bondsPerSat * u) \div b /\ (bondsPerSat * u) \div b \in Nat
    BY <2>1, <2>5, QuotientBounds, DivisionType
  <2> QED BY <2>1, <2>2, <2>4, <2>6 DEF UtilsAreDefined, b, r
<1> QED
  BY <1>1, <1>2, <1>3, BondsStep, RingInvariant, PTL DEF BlockSpec
=============================================================================
