------------------------------ MODULE Replay ------------------------------
(***************************************************************************)
(* Lists of blocks run through the rune updater, each block first as a     *)
(* simulation of its transactions and then in earnest.  Scenarios are      *)
(* written as in RuneScenarios: counted from 0, places in the chain as     *)
(* height, transaction and output.                                         *)
(***************************************************************************)
EXTENDS Simulation

CONSTANT Scenarios   \* name -> sequence of [txs, asserts]

VARIABLES
  test,       \* the name of the scenario that is run
  blocks,     \* and its blocks
  simulated   \* the next block has been simulated

replayVars == <<allVars, test, blocks, simulated>>

BlockAt(h) == blocks[h - FirstRuneHeight + 1]
HasBlock == height - FirstRuneHeight + 1 \in DOMAIN blocks

\* The number of the coinbase of the block at height h among all transactions.
CoinbaseTxid(h) ==
  1 + MapThenSumSet(LAMBDA g : 1 + Len(BlockAt(g).txs), FirstRuneHeight..(h - 1))

\* A simulation has no coinbase: its transactions come one number earlier.
OutpointOf(at) ==
  IF at[1] < FirstRuneHeight
  THEN Null
  ELSE [txid |-> CoinbaseTxid(at[1]) + at[2]
                 - (IF mode = "simulate" /\ at[1] = height THEN 1 ELSE 0),
        vout |-> at[3] + 1]

\* A transaction as the updater sees it: outputs counted from 1, and the stone of
\* the test enciphered and deciphered.
StoneOf(t) ==
  [kind |-> t.stone.kind,
   edicts |-> [i \in DOMAIN t.stone.edicts |->
                 [t.stone.edicts[i] EXCEPT !.output = @ + 1]],
   pointer |-> IF t.stone.pointer = << >> THEN 0 ELSE t.stone.pointer[1] + 1]
TemplateOf(t) ==
  [coinbase |-> FALSE,
   rbf |-> TRUE,
   outputs |-> [v \in DOMAIN t.scripts |->
                  [script |-> t.scripts[v],
                   value |-> IF t.scripts[v] \in StateChange THEN 1 ELSE 0]],
   artifact |-> IF t.stone.kind = "none"
                THEN NoArtifact
                ELSE Decipher(Len(t.scripts), Encipher(StoneOf(t)))]
CoinbaseTemplate ==
  [coinbase |-> TRUE, rbf |-> FALSE,
   outputs |-> <<[script |-> "plain", value |-> 0]>>, artifact |-> NoArtifact]

\* Inputs that hold no runes and end no chain are not known to the updater.
InputsOf(t) == {u \in Spendable : \E at \in t.inputs : u.at = OutpointOf(at)}

\* The transactions of the block taken so far, and the next one.
Taken == nextTxid - (IF mode = "simulate" THEN saved.nextTxid
                                          ELSE CoinbaseTxid(height) + 1)
NextTx == BlockAt(height).txs[Taken + 1]

ReplayInit ==
  /\ SimulationInit
  /\ test \in DOMAIN Scenarios
  /\ blocks = Scenarios[test]
  /\ simulated = FALSE

-----------------------------------------------------------------------------
SimulateBlock ==
  /\ HasBlock
  /\ ~simulated
  /\ BeginSimulation
  /\ UNCHANGED <<test, blocks, simulated>>

\* The transactions of the block are passed to simulate, without a coinbase.
SimulateNext ==
  /\ mode = "simulate"
  /\ Taken < Len(BlockAt(height).txs)
  /\ SimulateTransaction(TemplateOf(NextTx), InputsOf(NextTx))
  /\ UNCHANGED <<test, blocks, simulated>>

SimulateStep == (SimulateRunes \/ ReportState) /\ UNCHANGED <<test, blocks, simulated>>

SimulateEnd ==
  /\ mode = "simulate" /\ pc = "block"
  /\ Taken = Len(BlockAt(height).txs)
  /\ EndSimulation
  /\ simulated' = TRUE
  /\ UNCHANGED <<test, blocks>>

\* mine_blocks, and the block is indexed.
MineBlock ==
  /\ HasBlock
  /\ simulated
  /\ IndexStep(BeginBlock)
  /\ UNCHANGED <<test, blocks, simulated>>

IndexCoinbase ==
  /\ IndexStep(TakeTransaction(CoinbaseTemplate, {}))
  /\ UNCHANGED <<test, blocks, simulated>>

IndexNext ==
  /\ pc = "block"
  /\ ~first
  /\ Taken < Len(BlockAt(height).txs)
  /\ IndexStep(TakeTransaction(TemplateOf(NextTx), InputsOf(NextTx)))
  /\ UNCHANGED <<test, blocks, simulated>>

IndexRunesStep == IndexStep(IndexRunes) /\ UNCHANGED <<test, blocks, simulated>>

IndexEnd ==
  /\ pc = "block"
  /\ ~first
  /\ Taken = Len(BlockAt(height).txs)
  /\ IndexStep(EndBlock)
  /\ simulated' = FALSE
  /\ UNCHANGED <<test, blocks>>

\* The scenario is over, or a block of it cannot be indexed.
Done ==
  /\ mode = "index"
  /\ pc = "panicked" \/ (pc = "idle" /\ ~HasBlock)
  /\ UNCHANGED replayVars

ReplayNext ==
  \/ SimulateBlock
  \/ SimulateNext
  \/ SimulateStep
  \/ SimulateEnd
  \/ MineBlock
  \/ IndexCoinbase
  \/ IndexNext
  \/ IndexRunesStep
  \/ IndexEnd
  \/ Done

ReplaySpec == ReplayInit /\ [][ReplayNext]_replayVars

-----------------------------------------------------------------------------
\* assert_runes: every entry, and every balance.
Row(r) == <<entries[r].supply, entries[r].burned, entries[r].mints>>
AssertHolds(assert) ==
  /\ Row(ID0) = assert.tighten
  /\ Row(ID1) = assert.ease
  /\ DOMAIN balances = {OutpointOf(held[1]) : held \in assert.held}
  /\ \A held \in assert.held :
       LET balance == balances[OutpointOf(held[1])]
       IN  balance[ID0] = held[2] /\ balance[ID1] = held[3]
Untouched == [tighten |-> <<0, 0, 0>>, ease |-> <<0, 0, 0>>, held |-> {}]

(***************************************************************************)
(* The model passes the tests of the repository: after each block of each  *)
(* test the entries and the balances are what its assert_runes asserts     *)
(* (src/runes.rs, src/index/testing.rs:101), and untouched before them.    *)
(***************************************************************************)
TestsHold ==
  mode = "index" /\ pc = "idle" =>
    IF height = FirstRuneHeight
    THEN AssertHolds(Untouched)
    ELSE \A i \in DOMAIN BlockAt(height - 1).asserts :
           AssertHolds(BlockAt(height - 1).asserts[i])

(***************************************************************************)
(* What a simulation reports after a transaction is what the index has     *)
(* after it when the same transactions are mined in the next block: the    *)
(* wallet computes the limits of a conversion from it (convert.rs:725).    *)
(***************************************************************************)
Indexed == [supply |-> [r \in Rune |-> entries[r].supply],
            burned |-> [r \in Rune |-> MintPot(r)]]
SimulationForetells ==
  mode = "index" /\ pc = "block" /\ ~first /\ Taken > 0 => states[Taken] = Indexed
=============================================================================
