-------------------------- MODULE ConversionCurve --------------------------
(***************************************************************************)
(* The integer arithmetic of the two supplies.  Tighten and Ease are       *)
(* converted into one another along the circle                             *)
(*     supply0 ^ 2 + supply1 ^ 2 = K ^ 2                                   *)
(* rounded by an integer square root, and the block reward is shared in    *)
(* proportion to the two supplies.                                         *)
(***************************************************************************)
EXTENDS Integers

(***************************************************************************)
(* u128::sqrt of num_integer::Roots (external): the largest integer whose  *)
(* square does not exceed n.                                               *)
(***************************************************************************)
Sqrt(n) == CHOOSE r \in 0..n : r * r <= n /\ n < (r + 1) * (r + 1)

\* The square of K for the supplies a and b ("invariant" in the code).
SumOfSquares(a, b) == a * a + b * b

\* Mutant: the root is rounded up.
YieldRoundedUp(supplyIn, supplyOut, inputAmt) ==
  LET rest == supplyIn - inputAmt
  IN  Sqrt(SumOfSquares(supplyIn, supplyOut) - rest * rest) + 1 - supplyOut
\* Output amount of a conversion of exactly inputAmt.
ExactInputYields(supplyIn, supplyOut, inputAmt) ==
  LET rest == supplyIn - inputAmt
  IN  Sqrt(SumOfSquares(supplyIn, supplyOut) - rest * rest) - supplyOut

\* The guard new_output_sq > invariant of an exact output.
OutputReachable(supplyIn, supplyOut, outputAmt) ==
  LET grown == supplyOut + outputAmt
  IN  grown * grown <= SumOfSquares(supplyIn, supplyOut)

\* Mutant: one unit more than it costs.
CostPlusOne(supplyIn, supplyOut, outputAmt) ==
  LET grown == supplyOut + outputAmt
  IN  supplyIn + 1 - Sqrt(SumOfSquares(supplyIn, supplyOut) - grown * grown)
\* Input amount of a conversion into exactly outputAmt.
ExactOutputCosts(supplyIn, supplyOut, outputAmt) ==
  LET grown == supplyOut + outputAmt
  IN  supplyIn - Sqrt(SumOfSquares(supplyIn, supplyOut) - grown * grown)

(***************************************************************************)
(* The same in integers of w values, in which a release build wraps sums,  *)
(* differences and squares: w is 2 ^ 128.                                  *)
(***************************************************************************)
WrappedYields(w, supplyIn, supplyOut, inputAmt) ==
  LET rest == supplyIn - inputAmt
  IN  (Sqrt((SumOfSquares(supplyIn, supplyOut) - rest * rest) % w) - supplyOut) % w
WrappedReachable(w, supplyIn, supplyOut, outputAmt) ==
  LET grown == supplyOut + outputAmt
  IN  (grown * grown) % w <= SumOfSquares(supplyIn, supplyOut) % w
WrappedCosts(w, supplyIn, supplyOut, outputAmt) ==
  LET grown == supplyOut + outputAmt
  IN  (supplyIn - Sqrt((SumOfSquares(supplyIn, supplyOut) - grown * grown) % w)) % w

\* Mutant: shared in proportion to the sum of the supplies, not to K.
ShareOfSum(s0, s1, reward) ==
  IF SumOfSquares(s0, s1) = 0 THEN reward ELSE (s0 * reward) \div (s0 + s1)

(***************************************************************************)
(* The two parts of a block reward: everything to supply0 while nothing    *)
(* has been issued, otherwise proportional to each supply.                 *)
(***************************************************************************)
RewardShare0(s0, s1, reward) ==
  IF SumOfSquares(s0, s1) = 0
  THEN reward
  ELSE (s0 * reward) \div Sqrt(SumOfSquares(s0, s1))

RewardShare1(s0, s1, reward) ==
  IF SumOfSquares(s0, s1) = 0
  THEN 0
  ELSE (s1 * reward) \div Sqrt(SumOfSquares(s0, s1))
=============================================================================
