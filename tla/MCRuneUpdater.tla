--------------------------- MODULE MCRuneUpdater ---------------------------
(***************************************************************************)
(* The transactions the runs of RuneUpdater are made of.                   *)
(***************************************************************************)
EXTENDS RuneUpdater

Out(script) == [script |-> script, value |-> IF script \in StateChange THEN 1
                                                                       ELSE 0]
Outs(scripts) == [v \in DOMAIN scripts |-> Out(scripts[v])]
Move(id, amount, output) == [id |-> id, amount |-> amount, output |-> output]
Stone(edicts, pointer) ==
  [kind |-> "runestone", edicts |-> edicts, pointer |-> pointer]

Transaction(scripts, artifact) ==
  [coinbase |-> FALSE, rbf |-> TRUE, outputs |-> Outs(scripts),
   artifact |-> artifact]
Coinbase == [coinbase |-> TRUE, rbf |-> FALSE, outputs |-> Outs(<<"plain">>),
             artifact |-> NoArtifact]

\* The first block's transactions: Tighten is minted, some of it converted.
MintTx == Transaction(<<"op_return", "mint", "plain">>, Stone(<< >>, 0))
SeedConvertTx ==
  Transaction(<<"op_return", "convert", "plain", "plain">>,
    Stone(<<Move(ID0, 2, 1), Move(ID1, 1, 3), Move(ID0, 0, 4),
            Move(ID1, 1, 3)>>, 0))

\* Every runestone of up to two edicts on one list of outputs.
MovesTo(n, amounts) ==
  {Move(id, amount, output) : id \in Rune, amount \in amounts, output \in 1..(n + 1)}
StonesFor(n, amounts, pointers) ==
  LET moves == MovesTo(n, amounts)
      lists == {<< >>} \cup {<<e>> : e \in moves}
                       \cup {<<e, f>> : e \in moves, f \in moves}
  IN  {Stone(l, p) : l \in lists, p \in pointers}
EveryEdict(scripts, amounts, pointers) ==
  {Transaction(scripts, a) : a \in StonesFor(Len(scripts), amounts, pointers)}

\* An edict total past the width of a Lot of 1024.
OverflowTx ==
  Transaction(<<"op_return", "convert", "plain">>,
    Stone(<<Move(ID1, 400, 3), Move(ID1, 400, 3), Move(ID1, 400, 3)>>, 0))

\* Exact outputs whose square does not fit in it: one may wrap to less than K.
WideSquareTx(amount) ==
  Transaction(<<"op_return", "convert", "plain">>,
    Stone(<<Move(ID1, amount, 3), Move(ID0, 1, 1)>>, 0))

EdictTemplates ==
  <<{Coinbase}, {MintTx}, {SeedConvertTx},
    EveryEdict(<<"op_return", "convert", "plain", "plain">>, {0, 1, 3}, {0, 1}) \cup
    EveryEdict(<<"op_return", "mint">>, {0, 2}, {0}) \cup
    {Transaction(<<"plain", "op_return">>, Cenotaph),
     Transaction(<<"plain", "plain">>, NoArtifact),
     OverflowTx} \cup
    {WideSquareTx(amount) : amount \in 28..34}>>

\* Blocks in which chains are started, continued, moved on and broken.
CoinbaseMint == [coinbase |-> TRUE, rbf |-> TRUE,
                 outputs |-> Outs(<<"op_return", "mint", "plain">>),
                 artifact |-> Stone(<< >>, 0)]
FinalMint == [MintTx EXCEPT !.rbf = FALSE]
ConvertTx ==
  Transaction(<<"op_return", "convert", "plain">>,
    Stone(<<Move(ID0, 1, 1), Move(ID1, 1, 3)>>, 3))
ConvertBackTx ==
  Transaction(<<"plain", "op_return", "convert">>,
    Stone(<<Move(ID0, 2, 1), Move(ID1, 2, 2)>>, 1))
NoChainConvertTx ==
  Transaction(<<"op_return", "plain">>,
    Stone(<<Move(ID0, 1, 1), Move(ID1, 1, 2)>>, 2))
MoveChainsTx == Transaction(<<"convert", "mint", "plain">>, NoArtifact)
BreakChainsTx == Transaction(<<"plain">>, NoArtifact)

\* The minted runes on two outputs, for two conversions that need not be connected.
MintTwoTx ==
  Transaction(<<"op_return", "mint", "plain", "plain">>,
    Stone(<<Move(ID0, 2, 4)>>, 0))

ChainTemplates ==
  <<{Coinbase, CoinbaseMint}, {MintTwoTx, FinalMint},
    {Coinbase, CoinbaseMint, MintTx, ConvertTx},
    {Coinbase, MintTx, ConvertBackTx},
    {ConvertTx, MoveChainsTx, BreakChainsTx},
    {Coinbase, NoChainConvertTx, ConvertTx, MoveChainsTx, BreakChainsTx},
    {ConvertBackTx}>>

\* Three outputs that want half the width of a Lot each.
WideTx ==
  Transaction(<<"op_return", "convert", "plain", "plain", "plain">>,
    Stone(<<Move(ID1, 1375, 6), Move(ID0, 20, 1)>>, 0))
WideTemplates == <<{Coinbase}, {MintTx}, {WideTx}>>
=============================================================================
