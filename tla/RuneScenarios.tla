--------------------------- MODULE RuneScenarios ---------------------------
(***************************************************************************)
(* The tests of src/runes.rs as data: the transactions each of them        *)
(* broadcasts, block by block, and what it asserts of the index after each *)
(* block.  Replay runs them through the model of the rune updater.         *)
(*                                                                         *)
(* Everything is written as in the tests: heights, transactions of a block *)
(* and outputs are counted from 0 (transaction 0 is the coinbase), the     *)
(* runes are there from height 2, and an amount is a number of units.      *)
(* COIN_VALUE is 4 units instead of 100000000; the amounts that the tests  *)
(* give in units, as 1000, are as much smaller as it takes to be in the    *)
(* same relation to the reward.                                            *)
(***************************************************************************)
EXTENDS ConversionCurve, Sequences, SequencesExt

ID0 == "tighten"
ID1 == "ease"

COIN_VALUE == 4
REWARD == 50 * COIN_VALUE
Coins(n) == n * COIN_VALUE

\* u128::MAX, for amounts of 22 bits: encipher writes less than half of it.
MAX == 4194303

At(height, index, vout) == <<height, index, vout>>
Give(id, amount, output) == [id |-> id, amount |-> amount, output |-> output]
None == << >>
Some(vout) == <<vout>>

Stone(edicts, pointer) ==
  [kind |-> "runestone", edicts |-> edicts, pointer |-> pointer]
Default == Stone(<< >>, None)
NoStone == [Default EXCEPT !.kind = "none"]

\* The outputs of State::broadcast_tx: the mint script first, then the convert
\* script, then as many others as there are to be; the OP_RETURN goes in at opReturn.
Scripts(flags, outputs, opReturn) ==
  LET special == SelectSeq(<<"mint", "convert">>, LAMBDA s : s \in flags)
      paying == [i \in 1..outputs |-> IF i <= Len(special) THEN special[i]
                                                           ELSE "plain"]
  IN  IF opReturn = None THEN paying
                         ELSE InsertAt(paying, opReturn[1] + 1, "op_return")

TransactionTemplate(inputs, flags, outputs, stone, opReturn) ==
  [inputs |-> inputs, scripts |-> Scripts(flags, outputs, opReturn), stone |-> stone]
Tx(inputs, flags, outputs, stone) ==
  TransactionTemplate(inputs, flags, outputs, stone, Some(outputs))

\* assert_runes: the supply, burned and mints of both runes, and every balance.
Asserts(tighten, ease, held) == <<[tighten |-> tighten, ease |-> ease, held |-> held]>>
Held(at, tighten, ease) == <<at, tighten, ease>>

\* broadcast_tx, mine_blocks(1), assert_runes; and mine_blocks(n).
Block(tx, asserts) == [txs |-> <<tx>>, asserts |-> asserts]
Empty(n) == [i \in 1..n |-> [txs |-> << >>, asserts |-> << >>]]

\* What most tests begin with: the first reward is minted.
FirstMint ==
  Block(Tx({At(1, 0, 0)}, {"mint"}, 2, Default),
        Asserts(<<REWARD, 0, 1>>, <<0, 0, 1>>, {Held(At(2, 1, 1), REWARD, 0)}))
\* The second block's reward when nobody mints and nothing was converted.
SecondBlock(tx, held) ==
  Block(tx, Asserts(<<2 * REWARD, REWARD, 2>>, <<0, 0, 2>>, held))

\* The supply that is left, or has grown, when the other goes from a to b.
Rest(supplyIn, supplyOut, grown) ==
  Sqrt(supplyIn * supplyIn + supplyOut * supplyOut - grown * grown)

-----------------------------------------------------------------------------
(* Allocation. *)

index_starts_with_runes == << >>

input_runes_may_be_allocated ==
  <<FirstMint,
    SecondBlock(Tx({At(2, 1, 1)}, {}, 2, Stone(<<Give(ID0, REWARD, 0)>>, None)),
                {Held(At(3, 1, 0), REWARD, 0)})>>

unallocated_runes_are_assigned_to_first_non_op_return_output ==
  <<FirstMint,
    SecondBlock(Tx({At(2, 1, 1)}, {}, 1, Default), {Held(At(3, 1, 0), REWARD, 0)})>>

unallocated_runes_are_burned_if_no_non_op_return_output_is_present ==
  <<FirstMint,
    Block(Tx({At(2, 1, 1)}, {}, 0, Default),
          Asserts(<<2 * REWARD, 2 * REWARD, 2>>, <<0, 0, 2>>, {}))>>

unallocated_runes_are_assigned_to_default_output ==
  <<Block(Tx({At(1, 0, 0)}, {"mint"}, 3, Stone(<< >>, Some(2))),
          Asserts(<<REWARD, 0, 1>>, <<0, 0, 1>>, {Held(At(2, 1, 2), REWARD, 0)}))>>

unallocated_runes_are_burned_if_default_output_is_op_return ==
  <<Block(Tx({At(1, 0, 0)}, {"mint"}, 3, Stone(<< >>, Some(3))),
          Asserts(<<REWARD, REWARD, 1>>, <<0, 0, 1>>, {}))>>

unallocated_runes_in_transactions_with_no_runestone_are_assigned_to_first_non_op_return_output ==
  <<FirstMint,
    SecondBlock(TransactionTemplate({At(2, 1, 1)}, {}, 1, NoStone, None),
                {Held(At(3, 1, 0), REWARD, 0)})>>

unallocated_runes_are_assigned_to_first_non_op_return_output_when_op_return_is_not_last_output ==
  <<FirstMint,
    SecondBlock(TransactionTemplate({At(2, 1, 1)}, {}, 1, NoStone, Some(0)),
                {Held(At(3, 1, 1), REWARD, 0)})>>

edicts_over_max_inputs_are_ignored ==
  <<FirstMint,
    SecondBlock(Tx({At(2, 1, 1)}, {}, 2, Stone(<<Give(ID0, MAX, 1)>>, None)),
                {Held(At(3, 1, 1), REWARD, 0)})>>

allocate_all_remaining_runes_in_inputs ==
  <<FirstMint,
    SecondBlock(Tx({At(2, 1, 1)}, {}, 2, Stone(<<Give(ID0, 0, 1)>>, None)),
                {Held(At(3, 1, 1), REWARD, 0)})>>

edict_with_amount_zero_and_no_destinations_is_ignored ==
  <<Block(Tx({At(1, 0, 0)}, {}, 1, Stone(<<Give(ID0, 0, 1)>>, None)),
          Asserts(<<REWARD, REWARD, 1>>, <<0, 0, 1>>, {}))>>

multiple_input_runes_on_different_inputs_may_be_allocated ==
  LET a == REWARD - Coins(20)
      b == Rest(REWARD, 0, a)
  IN  <<Block(Tx({At(1, 0, 0)}, {"mint", "convert"}, 4,
                 Stone(<<Give(ID0, a, 2), Give(ID1, Coins(30), 3)>>, Some(4))),
              Asserts(<<a, 0, 1>>, <<b, 0, 1>>,
                      {Held(At(2, 1, 2), a, 0), Held(At(2, 1, 3), 0, b)})),
        Block(Tx({At(2, 1, 2), At(2, 1, 3)}, {}, 2,
                 Stone(<<Give(ID0, a \div 2, 1), Give(ID1, b \div 2, 1)>>, None)),
              Asserts(<<2 * a, a, 2>>, <<2 * b, b, 2>>,
                      {Held(At(3, 1, 0), a \div 2, b \div 2),
                       Held(At(3, 1, 1), a \div 2, b \div 2)}))>>

-----------------------------------------------------------------------------
(* Split edicts, in the transaction that mints the first reward. *)

MintAndSplit(outputs, edicts, amounts) ==
  <<Block(Tx({At(1, 0, 0)}, {"mint"}, outputs, Stone(edicts, None)),
          Asserts(<<REWARD, 0, 1>>, <<0, 0, 1>>,
                  {Held(At(2, 1, i), amounts[i], 0) : i \in DOMAIN amounts}))>>

split ==
  MintAndSplit(3, <<Give(ID0, 0, 4)>>, <<Coins(25), Coins(25)>>)

split_with_preceding_edict ==
  MintAndSplit(3, <<Give(ID0, 11, 1), Give(ID0, 0, 4)>>,
    <<11 + (REWARD - 11) \div 2 + 1, (REWARD - 11) \div 2>>)

split_with_following_edict ==
  MintAndSplit(3, <<Give(ID0, 0, 4), Give(ID0, 10, 1)>>, <<Coins(25), Coins(25)>>)

split_with_amount ==
  MintAndSplit(3, <<Give(ID0, 10, 4)>>, <<REWARD - 10, 10>>)

split_with_amount_with_preceding_edict ==
  MintAndSplit(5, <<Give(ID0, REWARD - 20, 1), Give(ID0, 10, 6)>>,
    <<REWARD - 20 + 10, 10>>)

split_with_amount_with_following_edict ==
  MintAndSplit(5, <<Give(ID0, 10, 6), Give(ID0, MAX, 2)>>,
    <<10, REWARD - 40 + 10, 10, 10>>)

open_mint_claims_can_use_split ==
  MintAndSplit(5, <<Give(ID0, 0, 6)>>, [i \in 1..4 |-> Coins(125) \div 10])

rune_cannot_be_minted_less_than_limit_amount ==
  MintAndSplit(2, <<Give(ID0, 1, 1)>>, <<REWARD>>)

transactions_cannot_claim_more_than_mint_amount ==
  MintAndSplit(2, <<Give(ID0, Coins(100), 1)>>, <<REWARD>>)

multiple_edicts_in_one_transaction_may_claim_open_mint ==
  MintAndSplit(2, <<Give(ID0, Coins(10), 1), Give(ID0, Coins(10), 1),
                    Give(ID0, Coins(30), 1)>>, <<REWARD>>)

-----------------------------------------------------------------------------
(* The mint chain. *)

rune_can_be_minted_without_edict == <<FirstMint>>

rune_cannot_be_minted_if_previous_mint_is_not_an_input ==
  <<FirstMint,
    SecondBlock(Tx({At(2, 0, 0)}, {"mint"}, 2, Default),
                {Held(At(2, 1, 1), REWARD, 0)})>>

rune_can_be_minted_if_previous_mint_output_is_an_input ==
  <<FirstMint,
    Block(Tx({At(2, 1, 0), At(2, 1, 1)}, {"mint"}, 2, Default),
          Asserts(<<2 * REWARD, 0, 2>>, <<0, 0, 2>>,
                  {Held(At(3, 1, 1), 2 * REWARD, 0)}))>>

rune_can_be_minted_if_previous_mint_output_is_spent ==
  <<FirstMint,
    SecondBlock(TransactionTemplate({At(2, 1, 0)}, {}, 1, NoStone, None),
                {Held(At(2, 1, 1), REWARD, 0)}),
    Block(Tx({At(3, 0, 0)}, {"mint"}, 2, Default),
          Asserts(<<3 * REWARD, 0, 3>>, <<0, 0, 3>>,
                  {Held(At(2, 1, 1), REWARD, 0), Held(At(4, 1, 1), 2 * REWARD, 0)}))>>

mint_after_conversion ==
  LET b == Coins(30)
      a == Rest(REWARD, 0, b)
  IN  <<Block(Tx({At(1, 0, 0)}, {"mint", "convert"}, 3,
                 Stone(<<Give(ID0, a, 2), Give(ID1, b, 2)>>, Some(3))),
              Asserts(<<a, 0, 1>>, <<b, 0, 1>>, {Held(At(2, 1, 2), a, b)})),
        Block(Tx({At(2, 1, 0), At(2, 1, 1), At(2, 1, 2)}, {"mint"}, 2, Default),
              Asserts(<<2 * a, 0, 2>>, <<2 * b, 0, 2>>,
                      {Held(At(3, 1, 1), 2 * a, 2 * b)}))>>

mint_receives_burnt_runes ==
  <<Block(Tx({At(1, 0, 0)}, {"mint", "convert"}, 2,
             Stone(<<Give(ID1, Coins(29), 1), Give(ID1, Coins(1), 2),
                     Give(ID0, Coins(39), 1), Give(ID0, Coins(1), 2)>>, Some(2))),
          Asserts(<<Coins(40), Coins(1), 1>>, <<Coins(30), Coins(1), 1>>,
                  {Held(At(2, 1, 1), Coins(39), Coins(29))})),
    Block(Tx({At(2, 1, 0), At(2, 1, 1)}, {"mint"}, 2, Default),
          Asserts(<<Coins(80), 0, 2>>, <<Coins(60), 0, 2>>,
                  {Held(At(3, 1, 1), Coins(80), Coins(60))}))>>

mint_receives_missed_mints ==
  <<FirstMint>> \o Empty(9) \o
  <<Block(Tx({At(11, 0, 0), At(2, 1, 0)}, {"mint"}, 2, Default),
          Asserts(<<11 * REWARD, 0, 11>>, <<0, 0, 11>>,
                  {Held(At(2, 1, 1), REWARD, 0), Held(At(12, 1, 1), 10 * REWARD, 0)}))>>

-----------------------------------------------------------------------------
(* Conversions that are accepted. *)

convert_exact_input ==
  LET a == REWARD - Coins(20)
      supply == 2 * REWARD - Coins(20)
      b == Rest(2 * REWARD, 0, supply)
      reward0 == (REWARD * supply) \div (2 * REWARD)
      reward1 == (REWARD * b) \div (2 * REWARD)
      supply1 == b + reward1 - Coins(10)
      supply0 == Rest(supply + reward0, b + reward1, supply1)
  IN  <<FirstMint,
        Block(Tx({At(2, 1, 1)}, {"convert"}, 2,
                 Stone(<<Give(ID0, a, 1), Give(ID1, Coins(50), 1)>>, Some(2))),
              Asserts(<<supply, REWARD, 2>>, <<b, 0, 2>>, {Held(At(3, 1, 1), a, b)})),
        Block(Tx({At(3, 1, 0), At(3, 1, 1)}, {"convert"}, 2,
                 Stone(<<Give(ID1, b - Coins(10), 1),
                         Give(ID0, a + Coins(5), 1)>>, Some(2))),
              Asserts(<<supply0, REWARD + reward0, 3>>, <<supply1, reward1, 3>>,
                      {Held(At(4, 1, 1), supply0 - (REWARD + reward0),
                            b - Coins(10))}))>>

convert_exact_output ==
  LET b == Coins(60)
      a == Rest(2 * REWARD, 0, b)
  IN  <<FirstMint,
        Block(Tx({At(2, 1, 0), At(2, 1, 1)}, {"mint", "convert"}, 3,
                 Stone(<<Give(ID1, b, 2), Give(ID0, 2 * REWARD - Coins(30), 2)>>,
                       Some(3))),
              Asserts(<<a, 0, 2>>, <<b, 0, 2>>, {Held(At(3, 1, 2), a, b)}))>>

convert_exact_input_and_split ==
  LET a == 2 * REWARD - Coins(20)
      b == Rest(2 * REWARD, 0, a)
  IN  <<FirstMint,
        Block(Tx({At(2, 1, 0), At(2, 1, 1)}, {"mint", "convert"}, 4,
                 Stone(<<Give(ID0, a, 2), Give(ID1, b \div 2, 5)>>, Some(4))),
              Asserts(<<a, 0, 2>>, <<b, 0, 2>>,
                      {Held(At(3, 1, 2), a, b \div 2), Held(At(3, 1, 3), 0, b \div 2)}))>>

convert_exact_input_and_split_with_remainder_assigned_to_first_conversion_output ==
  LET least == Coins(60)
      a == 2 * REWARD - Coins(40)
      b == Rest(2 * REWARD, 0, a)
  IN  <<FirstMint,
        Block(Tx({At(2, 1, 0), At(2, 1, 1)}, {"mint", "convert"}, 4,
                 Stone(<<Give(ID0, a, 2), Give(ID1, least \div 2, 5)>>, Some(4))),
              Asserts(<<a, 0, 2>>, <<b, 0, 2>>,
                      {Held(At(3, 1, 2), a, least \div 2 + b - least),
                       Held(At(3, 1, 3), 0, least \div 2)}))>>

\* Mint and convert 10 TIGHTEN to 30 EASE.
FirstConversion(a, b) ==
  Block(Tx({At(1, 0, 0)}, {"mint", "convert"}, 3,
           Stone(<<Give(ID0, a, 2), Give(ID1, b, 2)>>, Some(3))),
        Asserts(<<a, 0, 1>>, <<b, 0, 1>>, {Held(At(2, 1, 2), a, b)}))
AllThree == {At(2, 1, 0), At(2, 1, 1), At(2, 1, 2)}

convert_even_if_output_is_provided_as_an_input ==
  LET a == REWARD - Coins(10)
      b == Rest(REWARD, 0, a)
      a2 == 2 * a - Coins(20)
      b2 == Rest(2 * a, 2 * b, a2)
  IN  <<FirstConversion(a, b),
        Block(Tx(AllThree, {"mint", "convert"}, 3,
                 Stone(<<Give(ID0, a2, 2), Give(ID1, b2, 2)>>, Some(3))),
              Asserts(<<a2, 0, 2>>, <<b2, 0, 2>>, {Held(At(3, 1, 2), a2, b2)}))>>

convert_even_if_output_is_provided_as_an_input_and_split ==
  LET a == REWARD - Coins(10)
      b == Rest(REWARD, 0, a)
      a2 == 2 * a - Coins(20)
      b2 == Rest(2 * a, 2 * b, a2)
  IN  <<FirstConversion(a, b),
        Block(Tx(AllThree, {"mint", "convert"}, 4,
                 Stone(<<Give(ID1, b2 \div 2, 5), Give(ID0, a2, 2)>>, Some(4))),
              Asserts(<<a2, 0, 2>>, <<b2, 0, 2>>,
                      {Held(At(3, 1, 2), a2, b2 \div 2), Held(At(3, 1, 3), 0, b2 \div 2)}))>>

convert_and_burn_if_conversion_output_is_op_return ==
  LET a == REWARD - Coins(10)
      b == Rest(REWARD, 0, a)
  IN  <<Block(Tx({At(1, 0, 0)}, {"mint", "convert"}, 2,
                 Stone(<<Give(ID0, a, 1), Give(ID1, b, 2)>>, Some(2))),
              Asserts(<<a, 0, 1>>, <<b, b, 1>>, {Held(At(2, 1, 1), a, 0)}))>>

-----------------------------------------------------------------------------
(* Conversions that are refused, whose input is given back. *)

MintAndRefuse(outputs, edicts) ==
  <<Block(Tx({At(1, 0, 0)}, {"mint", "convert"}, outputs, Stone(edicts, Some(outputs))),
          Asserts(<<REWARD, 0, 1>>, <<0, 0, 1>>, {Held(At(2, 1, 2), REWARD, 0)}))>>

convert_undo_burn_input_if_min_output_not_met ==
  LET a == REWARD - Coins(10)
  IN  MintAndRefuse(3, <<Give(ID0, a, 2), Give(ID1, Rest(REWARD, 0, a) * 2, 2)>>)

convert_undo_burn_input_if_desired_output_exceeds_max_output ==
  MintAndRefuse(3, <<Give(ID0, REWARD - Coins(10), 2), Give(ID1, Coins(100), 2)>>)

convert_undo_burn_input_if_input_exceeds_max_input ==
  MintAndRefuse(3, <<Give(ID0, REWARD - Coins(10), 2), Give(ID1, Coins(40), 2)>>)

convert_undo_burn_input_if_min_output_not_met_and_missing_output_with_input_id ==
  MintAndRefuse(3, <<Give(ID1, REWARD * 2, 2)>>)

convert_undo_burn_input_if_min_output_not_met_and_missing_output_with_input_id_and_output_is_split ==
  MintAndRefuse(4, <<Give(ID1, REWARD, 5)>>)

convert_burn_input_if_min_output_not_met_and_no_output_exists ==
  <<Block(Tx({At(1, 0, 0)}, {"mint", "convert"}, 0, Stone(<<Give(ID1, REWARD * 2, 0)>>, Some(0))),
          Asserts(<<REWARD, REWARD, 1>>, <<0, 0, 1>>, {}))>>

\* Mint and convert to exactly 30 EASE, then once more, not connected to the first.
ConvertUnconnected(inputs, flags) ==
  LET b == Coins(30)
      a == Rest(REWARD, 0, b)
  IN  <<Block(Tx({At(1, 0, 0)}, {"mint", "convert"}, 3,
                 Stone(<<Give(ID1, b, 2), Give(ID0, REWARD - Coins(20), 2)>>, Some(3))),
              Asserts(<<a, 0, 1>>, <<b, 0, 1>>, {Held(At(2, 1, 2), a, b)})),
        Block(Tx(inputs, flags, 2,
                 Stone(<<Give(ID0, a \div 2, 1), Give(ID1, b + 1, 1)>>, Some(2))),
              Asserts(<<2 * a, a, 2>>, <<2 * b, b, 2>>, {Held(At(3, 1, 1), a, b)}))>>

convert_undo_burn_input_if_last_conversion_outpoint_is_not_an_input ==
  ConvertUnconnected({At(2, 1, 2)}, {"convert"})

convert_undo_burn_input_if_conversion_outpoint_missing ==
  ConvertUnconnected({At(2, 1, 1), At(2, 1, 2)}, {})

-----------------------------------------------------------------------------
Tests ==
  [index_starts_with_runes |-> index_starts_with_runes,
   input_runes_may_be_allocated |-> input_runes_may_be_allocated,
   unallocated_runes_are_assigned_to_first_non_op_return_output |->
     unallocated_runes_are_assigned_to_first_non_op_return_output,
   unallocated_runes_are_burned_if_no_non_op_return_output_is_present |->
     unallocated_runes_are_burned_if_no_non_op_return_output_is_present,
   unallocated_runes_are_assigned_to_default_output |->
     unallocated_runes_are_assigned_to_default_output,
   unallocated_runes_are_burned_if_default_output_is_op_return |->
     unallocated_runes_are_burned_if_default_output_is_op_return,
   unallocated_runes_in_transactions_with_no_runestone_are_assigned_to_first_non_op_return_output |->
     unallocated_runes_in_transactions_with_no_runestone_are_assigned_to_first_non_op_return_output,
   convert_exact_input |-> convert_exact_input,
   convert_exact_output |-> convert_exact_output,
   convert_exact_input_and_split |-> convert_exact_input_and_split,
   convert_exact_input_and_split_with_remainder_assigned_to_first_conversion_output |->
     convert_exact_input_and_split_with_remainder_assigned_to_first_conversion_output,
   convert_even_if_output_is_provided_as_an_input |->
     convert_even_if_output_is_provided_as_an_input,
   convert_even_if_output_is_provided_as_an_input_and_split |->
     convert_even_if_output_is_provided_as_an_input_and_split,
   convert_and_burn_if_conversion_output_is_op_return |->
     convert_and_burn_if_conversion_output_is_op_return,
   convert_undo_burn_input_if_min_output_not_met |->
     convert_undo_burn_input_if_min_output_not_met,
   convert_undo_burn_input_if_desired_output_exceeds_max_output |->
     convert_undo_burn_input_if_desired_output_exceeds_max_output,
   convert_undo_burn_input_if_last_conversion_outpoint_is_not_an_input |->
     convert_undo_burn_input_if_last_conversion_outpoint_is_not_an_input,
   convert_undo_burn_input_if_conversion_outpoint_missing |->
     convert_undo_burn_input_if_conversion_outpoint_missing,
   convert_undo_burn_input_if_input_exceeds_max_input |->
     convert_undo_burn_input_if_input_exceeds_max_input,
   convert_undo_burn_input_if_min_output_not_met_and_missing_output_with_input_id |->
     convert_undo_burn_input_if_min_output_not_met_and_missing_output_with_input_id,
   convert_undo_burn_input_if_min_output_not_met_and_missing_output_with_input_id_and_output_is_split |->
     convert_undo_burn_input_if_min_output_not_met_and_missing_output_with_input_id_and_output_is_split,
   convert_burn_input_if_min_output_not_met_and_no_output_exists |->
     convert_burn_input_if_min_output_not_met_and_no_output_exists,
   mint_after_conversion |-> mint_after_conversion,
   mint_receives_burnt_runes |-> mint_receives_burnt_runes,
   mint_receives_missed_mints |-> mint_receives_missed_mints,
   multiple_input_runes_on_different_inputs_may_be_allocated |->
     multiple_input_runes_on_different_inputs_may_be_allocated,
   unallocated_runes_are_assigned_to_first_non_op_return_output_when_op_return_is_not_last_output |->
     unallocated_runes_are_assigned_to_first_non_op_return_output_when_op_return_is_not_last_output,
   edicts_over_max_inputs_are_ignored |-> edicts_over_max_inputs_are_ignored,
   split |-> split,
   split_with_preceding_edict |-> split_with_preceding_edict,
   split_with_following_edict |-> split_with_following_edict,
   split_with_amount |-> split_with_amount,
   split_with_amount_with_preceding_edict |-> split_with_amount_with_preceding_edict,
   split_with_amount_with_following_edict |-> split_with_amount_with_following_edict,
   allocate_all_remaining_runes_in_inputs |-> allocate_all_remaining_runes_in_inputs,
   rune_can_be_minted_without_edict |-> rune_can_be_minted_without_edict,
   rune_cannot_be_minted_if_previous_mint_is_not_an_input |->
     rune_cannot_be_minted_if_previous_mint_is_not_an_input,
   rune_can_be_minted_if_previous_mint_output_is_an_input |->
     rune_can_be_minted_if_previous_mint_output_is_an_input,
   rune_can_be_minted_if_previous_mint_output_is_spent |->
     rune_can_be_minted_if_previous_mint_output_is_spent,
   rune_cannot_be_minted_less_than_limit_amount |->
     rune_cannot_be_minted_less_than_limit_amount,
   open_mint_claims_can_use_split |-> open_mint_claims_can_use_split,
   transactions_cannot_claim_more_than_mint_amount |->
     transactions_cannot_claim_more_than_mint_amount,
   multiple_edicts_in_one_transaction_may_claim_open_mint |->
     multiple_edicts_in_one_transaction_may_claim_open_mint,
   edict_with_amount_zero_and_no_destinations_is_ignored |->
     edict_with_amount_zero_and_no_destinations_is_ignored]
=============================================================================
