----------------------------- MODULE MCReplay -----------------------------
(***************************************************************************)
(* The tests of src/runes.rs, and every order of up to four transactions   *)
(* in one block, after a block that mints and converts: a burn, a mint, a  *)
(* conversion, and a conversion that is not connected to it.               *)
(***************************************************************************)
EXTENDS Replay

R == INSTANCE RuneScenarios

\* Runes on three outputs, and the ends of both chains.
Seed ==
  R!Block(R!Tx({R!At(1, 0, 0)}, {"mint", "convert"}, 5,
               R!Stone(<<R!Give(ID0, 160, 4), R!Give(ID1, 100, 2),
                         R!Give(ID1, 10, 3), R!Give(ID0, 20, 3)>>, R!Some(2))),
          << >>)
Palette ==
  [burn |-> R!Tx({R!At(2, 1, 2)}, {}, 1,
                 R!Stone(<<R!Give(ID1, 30, 1), R!Give(ID0, 7, 1)>>, R!None)),
   mint |-> R!Tx({R!At(2, 1, 0)}, {"mint"}, 2, R!Default),
   convert |-> R!Tx({R!At(2, 1, 1), R!At(2, 1, 3)}, {"convert"}, 2,
                    R!Stone(<<R!Give(ID0, 15, 1), R!Give(ID1, 11, 1)>>, R!Some(2))),
   unconnected |-> R!Tx({R!At(2, 1, 4)}, {"convert"}, 2,
                        R!Stone(<<R!Give(ID1, 5, 1), R!Give(ID0, 150, 1)>>, R!Some(2)))]
Lists == SetToAllKPermutations(DOMAIN Palette)
ListBlocks(list) ==
  <<Seed, [txs |-> [i \in DOMAIN list |-> Palette[list[i]]], asserts |-> << >>]>>

TestNames == {<<name>> : name \in DOMAIN R!Tests}
AllScenarios ==
  [name \in TestNames \cup {<<"seed">> \o list : list \in Lists} |->
     IF name \in TestNames THEN R!Tests[name[1]] ELSE ListBlocks(Tail(name))]

AllTxs ==
  UNION {UNION {Range(block.txs) : block \in Range(list)} :
           list \in Range(AllScenarios)}
AllTemplates ==
  LET templates == {CoinbaseTemplate} \cup {TemplateOf(t) : t \in AllTxs}
  IN  [n \in 1..MaxTxs |-> templates]
=============================================================================
