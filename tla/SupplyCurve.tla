---------------------------- MODULE SupplyCurve ----------------------------
(***************************************************************************)
(* What the rune index promises about the two supplies, without its        *)
(* tables: a block issues a reward shared in proportion to them, and a     *)
(* conversion moves them to a point on or inside the circle they are on    *)
(* such that the side it was not told exactly could not have been one      *)
(* unit better.  RuneUpdater, which computes these points with an integer  *)
(* square root, implements this specification.                             *)
(***************************************************************************)
EXTENDS ConversionCurve

CONSTANT Rewards   \* the block rewards there are

ASSUME CurveAssumption == Rewards \subseteq Nat

VARIABLES supply0, supply1

supplies == <<supply0, supply1>>

Squares == SumOfSquares(supply0, supply1)

Init == supply0 = 0 /\ supply1 = 0

\* update_supply.
Issue(reward) ==
  /\ reward > 0
  /\ supply0' = supply0 + RewardShare0(supply0, supply1, reward)
  /\ supply1' = supply1 + RewardShare1(supply0, supply1, reward)

\* Mutant: the output may be one unit short of the largest.
NearlyBestOutput(a, b, a2, b2) == SumOfSquares(a, b) < SumOfSquares(a2, b2 + 2)
\* From the supplies (a, b) to (a2, b2): within the circle, an exact input a - a2
\* for which b2 is the largest possible, or an exact output b2 - b for which a2 is.
InsideCircle(a, b, a2, b2) ==
  /\ a2 < a
  /\ b < b2
  /\ SumOfSquares(a2, b2) <= SumOfSquares(a, b)
BestOutput(a, b, a2, b2) == SumOfSquares(a, b) < SumOfSquares(a2, b2 + 1)
BestInput(a, b, a2, b2) == SumOfSquares(a, b) < SumOfSquares(a2 + 1, b2)

ConvertPoint(a, b, a2, b2) ==
  /\ InsideCircle(a, b, a2, b2)
  /\ BestOutput(a, b, a2, b2) \/ BestInput(a, b, a2, b2)

\* A conversion of Tighten into Ease, and of Ease into Tighten.
Tighten2Ease ==
  \E a2 \in 0..supply0, b2 \in 0..(supply0 + supply1) :
    /\ ConvertPoint(supply0, supply1, a2, b2)
    /\ supply0' = a2
    /\ supply1' = b2
Ease2Tighten ==
  \E a2 \in 0..(supply0 + supply1), b2 \in 0..supply1 :
    /\ ConvertPoint(supply1, supply0, b2, a2)
    /\ supply0' = a2
    /\ supply1' = b2
Convert == Tighten2Ease \/ Ease2Tighten

Next == (\E reward \in Rewards : Issue(reward)) \/ Convert

Spec == Init /\ [][Next]_supplies

-----------------------------------------------------------------------------
(***************************************************************************)
(* A conversion loses less than one unit of the converted supply K, and    *)
(* never adds to it, whatever the direction and whichever side was exact   *)
(* (convert_exact_input and convert_exact_output, rune_updater.rs).        *)
(***************************************************************************)
ConvertLosesLessThanOne ==
  [][Convert => Sqrt(Squares) - 1 <= Sqrt(Squares') /\ Squares' <= Squares]_supplies

(***************************************************************************)
(* A block raises the converted supply K by its reward: at most two units  *)
(* less, for the rounding of two quotients and a square root, and at most  *)
(* two more as long as K is no smaller than the reward (update_supply,     *)
(* rune_updater.rs).                                                       *)
(***************************************************************************)
IssueTracksReward ==
  [][\A reward \in Rewards :
       Issue(reward) => /\ Sqrt(Squares) + reward <= Sqrt(Squares') + 2
                        /\ reward <= Sqrt(Squares) =>
                             Sqrt(Squares') <= Sqrt(Squares) + reward + 2
     ]_supplies

(***************************************************************************)
(* Converting an exact input and converting the proceeds back never        *)
(* returns more than was put in, from any supplies the index can reach.    *)
(***************************************************************************)
RoundTripNoGain ==
  \A x \in 1..supply0 :
    LET y == ExactInputYields(supply0, supply1, x)
    IN  ExactInputYields(supply1 + y, supply0 - x, y) <= x

(***************************************************************************)
(* Converting an input in two parts never yields more than converting it   *)
(* at once.                                                                *)
(***************************************************************************)
SplitNoGain ==
  \A x \in 0..supply0 : \A x1 \in 0..x :
    LET y1 == ExactInputYields(supply0, supply1, x1)
        y2 == ExactInputYields(supply0 - x1, supply1 + y1, x - x1)
    IN  y1 + y2 <= ExactInputYields(supply0, supply1, x)

(***************************************************************************)
(* The two kinds of conversion agree: what an exact output costs buys at   *)
(* least that output as an exact input, and one unit less does not.        *)
(***************************************************************************)
ExactOutputIsCheapest ==
  \A y \in 1..(supply0 + supply1) :
    OutputReachable(supply0, supply1, y) =>
      LET x == ExactOutputCosts(supply0, supply1, y)
      IN  /\ x > 0
          /\ ExactInputYields(supply0, supply1, x) >= y
          /\ ExactInputYields(supply0, supply1, x - 1) < y
=============================================================================
