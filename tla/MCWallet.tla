------------------------------ MODULE MCWallet ------------------------------
(***************************************************************************)
(* Two distributions of 14 Tighten and 19 Ease over the wallet and one     *)
(* other holder, each with a conversion chain and with a broken one; every *)
(* kind of command; and a conversion and a mint of others.                 *)
(***************************************************************************)
EXTENDS Wallet

Reserved == <<"op_return", "mint", "convert", "plain", "plain", "plain", "plain">>
SeedWith(edicts) ==
  Unfunded({}, Reserved,
           Spend(<<Of(10, ID0, 1), Of(5, ID0, 7), Of(9, ID1, 7)>> \o edicts, 0),
           {4, 5, 6})
EaseFirst ==
  SeedWith(<<Of(3, ID0, 5), Of(6, ID0, 6), Of(4, ID1, 4), Of(6, ID1, 5)>>)
TightenFirst ==
  SeedWith(<<Of(6, ID0, 4), Of(3, ID0, 5), Of(6, ID1, 5), Of(1, ID1, 3), Of(3, ID1, 6)>>)
BreakChain == Unfunded({[txid |-> 2, vout |-> 3]}, <<"plain">>, NoArtifact, {})

TwoSeeds ==
  {<<EaseFirst>>, <<TightenFirst>>,
   <<EaseFirst, BreakChain>>, <<TightenFirst, BreakChain>>}

OtherHolder == [txid |-> 2, vout |-> 7]
Others ==
  [convert |->
     [inputs |-> {OtherHolder}, ends |-> {"convert"},
      template |-> Unfunded({}, <<"op_return", "convert", "plain">>,
                     Spend(<<Of(5, ID0, 1), Of(0, ID1, 3), Of(1, ID1, 3)>>, 0), {}).template],
   mint |->
     [inputs |-> {}, ends |-> {"mint"}, template |-> MintTransaction.template]]

Convert(exactInput, id, input, output) ==
  [kind |-> "convert", exactInput |-> exactInput, id |-> id,
   input |-> input, output |-> output]
EveryCommand ==
  {[kind |-> "mint"]}
  \cup {[kind |-> "send", id |-> id, amount |-> a] : id \in Rune, a \in {3, 9}}
  \cup {Convert(TRUE, id, a, b) : id \in Rune, a \in {6, 9}, b \in {0, 5}}
  \cup {Convert(FALSE, id, a, b) : id \in Rune, a \in {0, 9}, b \in {1, 4}}

Templates_ == <<{CoinbaseTx({}).template}>>
=============================================================================
