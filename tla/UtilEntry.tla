----------------------------- MODULE UtilEntry -----------------------------
(***************************************************************************)
(* UtilEntry (src/index/entry.rs): the row that every indexed block updates*)
(* with the two supplies.  The rates of the last blocks that had one are in*)
(* a ring; the interest rate is their median, and the bonds per sat grow by*)
(* it.                                                                     *)
(***************************************************************************)
EXTENDS Naturals, Sequences, FiniteSets, Functions

CONSTANTS
  Slots,          \* 100: the length of rates
  BaseValue,      \* BASE_VALUE, 10 ^ 12
  BlocksPerYear   \* BLOCKS_PER_YEAR, 52595

ASSUME UtilAssumption == {Slots, BaseValue, BlocksPerYear} \subseteq Nat \ {0}

VARIABLES
  index, rates, bondsPerSat,   \* the fields
  recorded                     \* history: every rate so far, the latest first

util == <<index, rates, bondsPerSat, recorded>>

\* rates, a Vec indexed from 0, is a function on Slot.
Slot == 0..(Slots - 1)

UtilInit ==
  /\ index = 0
  /\ rates = [j \in Slot |-> 0]
  /\ bondsPerSat = BaseValue
  /\ recorded = << >>

-----------------------------------------------------------------------------
\* Mutant: a slot that was never written counts as a rate.
AllRates(r) == [j \in 1..Slots |-> r[j - 1]]
\* filter: the numbers of s that are not 0, in their order.
NonZeros(s) ==
  LET kept[i \in 0..Len(s)] ==
        IF i = 0 THEN << >>
        ELSE IF s[i] > 0 THEN Append(kept[i - 1], s[i]) ELSE kept[i - 1]
  IN  kept[Len(s)]
\* The rates that interest_rate filters and sorts.
NonZero(r) == NonZeros([j \in 1..Slots |-> r[j - 1]])
\* sort_unstable: of the orders of s, one that ascends.
Ascending(t) == \A i, j \in DOMAIN t : i < j => t[i] <= t[j]
Sorted(s) ==
  CHOOSE t \in {[j \in DOMAIN s |-> s[p[j]]] : p \in Bijection(DOMAIN s, DOMAIN s)} :
    Ascending(t)

\* Mutant: the upper of the two rates in the middle.
UpperMiddle(s) == s[(Len(s) \div 2) + 1]
\* The middle of a sorted sequence.
Middle(s) ==
  LET mid == (Len(s) \div 2) + 1
  IN  IF Len(s) % 2 = 0 THEN (s[mid - 1] + s[mid]) \div 2 ELSE s[mid]

\* interest_rate: 100% until there is a rate.
InterestRateOf(r) ==
  IF NonZero(r) = << >> THEN BaseValue ELSE Middle(Sorted(NonZero(r)))

\* (A - B) / (A + B), with BaseValue for 1.
RateOf(supply0, supply1) ==
  IF supply0 > supply1
  THEN (BaseValue * (supply0 - supply1)) \div (supply0 + supply1)
  ELSE 0

\* Mutant: the index moves even if the block has no rate.
AlwaysNext(rate) == (index + 1) % Slots
NextIndex(rate) == IF rate > 0 THEN (index + 1) % Slots ELSE index

Growth(r) == ((bondsPerSat * InterestRateOf(r)) \div BaseValue) \div BlocksPerYear

\* update, from index_block.
UpdateUtil(supply0, supply1) ==
  LET rate == RateOf(supply0, supply1)
  IN  /\ rates' = IF rate > 0 THEN [rates EXCEPT ![index] = rate] ELSE rates
      /\ index' = NextIndex(rate)
      /\ bondsPerSat' = bondsPerSat + Growth(rates')
      /\ recorded' = IF rate > 0 THEN <<rate>> \o recorded ELSE recorded

-----------------------------------------------------------------------------
\* What the API reports of the row.
InterestRate == InterestRateOf(rates)
History == NonZeros([j \in 1..Slots |-> rates[(Slots + index - j) % Slots]])
UtilsPerBond == (BaseValue * BaseValue) \div InterestRate
UtilsPerSat == (bondsPerSat * UtilsPerBond) \div BaseValue

(***************************************************************************)
(* The ring, read from its index backwards as history() does, holds the    *)
(* rates of the last blocks that had one and nothing else: "the last 100   *)
(* blocks where A > B and (A - B) / (A + B) is non-zero after integer      *)
(* division" (docs/src/bitomc/specification.md:246).                       *)
(***************************************************************************)
RingHoldsLastRates ==
  History = SubSeq(recorded, 1,
                   IF Len(recorded) < Slots THEN Len(recorded) ELSE Slots)

(***************************************************************************)
(* The interest rate is a median of those rates: at least half of them are *)
(* no larger, and at least half no smaller, whether their number is even or*)
(* odd: of an even number it is the average of the two in the middle,      *)
(* rounded down (interest_rate).                                           *)
(***************************************************************************)
Below(x) == Cardinality({j \in DOMAIN History : History[j] <= x})
Above(x) == Cardinality({j \in DOMAIN History : History[j] >= x})
InterestRateIsMedian ==
  History # << >> =>
    LET n == Len(History)
        low == {x \in Range(History) : 2 * Below(x) >= n /\ 2 * Above(x) > n}
        high == {x \in Range(History) : 2 * Below(x) > n /\ 2 * Above(x) >= n}
    IN  \A x \in low, y \in high : InterestRate = (x + y) \div 2

(***************************************************************************)
(* The divisions of the API are defined and their results make sense: a    *)
(* rate is between 1 and 100%, so a bond is never worth less than one util,*)
(* and the utils of a sat never less than its bonds (utils_per_bond and    *)
(* utils_per_sat).                                                         *)
(***************************************************************************)
UtilsAreDefined ==
  /\ InterestRate \in 1..BaseValue
  /\ UtilsPerBond >= BaseValue
  /\ UtilsPerSat >= bondsPerSat
=============================================================================
