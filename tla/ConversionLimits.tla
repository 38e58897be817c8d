-------------------------- MODULE ConversionLimits --------------------------
(***************************************************************************)
(* What the wallet computes before a conversion                            *)
(* (src/subcommand/wallet/convert.rs): the amounts it expects, and the     *)
(* limits it puts in the transaction.                                      *)
(*                                                                         *)
(* A command c is a record: exactInput, the id of the rune that is given   *)
(* up, and the amounts input and output, of which one is a limit or 0.     *)
(***************************************************************************)
EXTENDS ConversionCurve, Runes, FiniteSetsExt, Sequences

CONSTANT U128Max  \* u128::MAX: the answer for an output out of reach
Width == U128Max + 1

GetExpectedOutput(supplyIn, supplyOut, input) ==
  IF input > supplyIn THEN 0 ELSE WrappedYields(Width, supplyIn, supplyOut, input)

GetRequiredInput(supplyIn, supplyOut, output) ==
  IF WrappedReachable(Width, supplyIn, supplyOut, output)
  THEN WrappedCosts(Width, supplyIn, supplyOut, output)
  ELSE U128Max

Expected(c, supply, input) ==
  GetExpectedOutput(supply[c.id], supply[Other(c.id)], input)
Required(c, supply, output) ==
  GetRequiredInput(supply[c.id], supply[Other(c.id)], output)

\* get_conversion_parameters: the limits, when the user leaves one at 0.  A
\* tolerance of 20 basis points is taken off what the entries say, except for a
\* connected conversion, whose place in the chain decides the amount.  states
\* are the supplies before the places in the chain, supply is of the entries.
Parameters(c, connected, states, supply) ==
  LET last == {states[i] : i \in {j \in DOMAIN states : j + 1 >= Len(states)}}
      expected == Expected(c, supply, c.input)
      required == IF connected THEN Max({Required(c, s, c.output) : s \in last})
                               ELSE Required(c, supply, c.output)
  IN  IF c.exactInput /\ c.output = 0 /\ ~connected
      THEN [ok |-> expected > 0, max |-> c.input, min |-> (expected * 9980) \div 10000]
      ELSE IF ~c.exactInput /\ c.input = 0
      THEN [ok |-> required < U128Max, min |-> c.output,
            max |-> IF connected THEN required ELSE (required * 10000) \div 9980]
      ELSE [ok |-> TRUE, max |-> c.input, min |-> c.output]

\* get_best_outpoint_in_conversion_chain for one place in the chain: whether the
\* limits hold there, and the amounts that are reported.
Satisfies(c, supply, limits) ==
  IF c.exactInput THEN limits.min <= Expected(c, supply, limits.max)
                  ELSE Required(c, supply, limits.min) <= limits.max
Amounts(c, supply, limits) ==
  IF c.exactInput
  THEN [input |-> limits.max, output |-> Expected(c, supply, limits.max)]
  ELSE [input |-> Required(c, supply, limits.min), output |-> limits.min]
=============================================================================
