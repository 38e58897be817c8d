-------------------------- MODULE SimulationProofs --------------------------
(***************************************************************************)
(* Theorems about Simulation, for every list of transactions and every     *)
(* committed state: a simulation takes the steps of the index.             *)
(***************************************************************************)
EXTENDS Simulation, RuneUpdaterProofs

-----------------------------------------------------------------------------
(* The inductive invariant. *)

(***************************************************************************)
(* What is committed is kept with its types.                               *)
(***************************************************************************)
SavedType ==
  /\ saved.entries \in [Rune -> Entry]
  /\ DOMAIN saved.balances \subseteq Outpoint
  /\ \A o \in DOMAIN saved.balances : saved.balances[o] \in [Rune -> Nat]
  /\ saved.lastOutpoint \in [StateChange -> Outpoint]
  /\ saved.lastValue \in [StateChange -> Nat]
  /\ saved.utxos \subseteq Unspent
  /\ saved.nextTxid \in Nat \ {0}

(***************************************************************************)
(* In a simulation a transaction that mints is the first to have its       *)
(* number, so that its mint shows in minters.                              *)
(***************************************************************************)
MinterIsNew ==
  /\ \A m \in minters : m < nextTxid
  /\ pc \in {"inputs", "mint"} => tx.txid \notin minters
  /\ pc \notin {"block", "panicked"} => tx.txid < nextTxid

(***************************************************************************)
(* What has been moved early is a part of what is burned.                  *)
(***************************************************************************)
MovedIsBurned ==
  moved \in [Rune -> Nat] /\ \A r \in Rune : moved[r] <= entries[r].burned

Simulating == pc # "idle" /\ SavedType /\ MinterIsNew /\ MovedIsBurned

SimulationInvariant ==
  /\ UpdaterInvariant
  /\ mode = "simulate" => Simulating

-----------------------------------------------------------------------------
(* The invariant is inductive. *)

\* A simulation begins with the reward of the next block, and no minter.
LEMMA BeginSimulationInvariant ==
  ASSUME SimulationInvariant, BeginSimulation, height <= MaxHeight
  PROVE  SimulationInvariant'
<1> USE DEF SimulationInvariant, BeginSimulation
<1>1. TypeOK /\ height \in Nat /\ FirstRuneHeight <= height
  BY DEF UpdaterInvariant, TypeOK, BlockType
<1>2. Issued \in [Rune -> Entry]
  <2>1. height \in FirstRuneHeight..MaxHeight
    BY <1>1, BoundAssumption
  <2> QED
    BY <1>1, <2>1, IssuedType
<1>3. TypeOK'
  <2>1. TablesType'
    BY <1>1, <1>2 DEF TypeOK, TablesType
  <2>2. BlockType'
    BY <1>1 DEF TypeOK, BlockType, Phases
  <2>3. TransactionType'
    BY <1>1 DEF TypeOK, TransactionType, allocation, conversion, Vouts
  <2> QED
    BY <2>1, <2>2, <2>3 DEF TypeOK
<1>4. UpdaterInvariant'
  BY <1>1, <1>3 DEF UpdaterInvariant, ConversionFound, InputReturned
<1>5. SavedType'
  BY <1>1 DEF TypeOK, TablesType, BlockType, SavedType, Committed
<1>6. MinterIsNew'
  BY DEF MinterIsNew
<1>7. MovedIsBurned'
  BY <1>2, ZeroType DEF MovedIsBurned, Zero, Entry
<1> QED
  BY <1>4, <1>5, <1>6, <1>7 DEF Simulating

\* The tables are what was committed, and the locals are empty.
LEMMA EndSimulationInvariant ==
  ASSUME SimulationInvariant, EndSimulation
  PROVE  SimulationInvariant'
<1> USE DEF SimulationInvariant, EndSimulation
<1>1. TypeOK /\ SavedType /\ FirstRuneHeight <= height
  BY DEF UpdaterInvariant, Simulating
<1>2. TablesType'
  BY <1>1 DEF SavedType, TablesType
<1>3. BlockType'
  BY <1>1, ZeroType DEF SavedType, TypeOK, BlockType, Phases
<1>4. TransactionType'
  <2>1. tx' \in Tx
    BY NoTxType
  <2>2. /\ allocated' \in [Vouts' -> [Rune -> Nat]]
        /\ allocatedConversion' \in [Vouts' -> [Rune -> Nat]]
    BY NoLocals DEF Vouts
  <2> QED
    BY <2>1, <2>2, ZeroType DEF TransactionType
<1>5. UpdaterInvariant'
  BY <1>1, <1>2, <1>3, <1>4 DEF UpdaterInvariant, TypeOK, ConversionFound, InputReturned
<1> QED
  BY <1>5

\* update_burned moves to the entries what the transaction has burned.
LEMMA ReportStateInvariant ==
  ASSUME SimulationInvariant, ReportState
  PROVE  SimulationInvariant'
<1> USE DEF SimulationInvariant, ReportState
<1>1. TypeOK /\ Simulating /\ FirstRuneHeight <= height
  BY DEF UpdaterInvariant
<1>2. entries \in [Rune -> Entry] /\ burned \in [Rune -> Nat] /\ moved \in [Rune -> Nat]
  BY <1>1 DEF TypeOK, TablesType, BlockType, Simulating, MovedIsBurned
<1>3. /\ entries' \in [Rune -> Entry]
      /\ \A r \in Rune : entries'[r].burned = entries[r].burned + burned[r]
  <2>1. entries' = [r \in Rune |-> [entries[r] EXCEPT !.burned = entries[r].burned + burned[r]]]
    BY DEF UpdateBurned
  <2>2. \A r \in Rune : entries[r].burned + burned[r] \in Nat
    BY <1>2 DEF Entry
  <2> QED
    BY <1>2, <2>1, <2>2 DEF Entry
<1>4. TablesType' /\ BlockType' /\ TransactionType'
  <2>1. TablesType'
    BY <1>1, <1>3 DEF TypeOK, TablesType
  <2>2. BlockType'
    BY <1>1, ZeroType DEF TypeOK, BlockType, UpdateBurned, chain, history
  <2>3. TransactionType'
    BY <1>1 DEF TypeOK, TransactionType, allocation, conversion, Vouts
  <2> QED
    BY <2>1, <2>2, <2>3
<1>5. UpdaterInvariant'
  BY <1>1, <1>4 DEF UpdaterInvariant, TypeOK, ConversionFound, InputReturned
<1>6. MovedIsBurned'
  BY <1>1, <1>2, <1>3 DEF Simulating, MovedIsBurned, Entry
<1>7. MinterIsNew' /\ SavedType' /\ pc' # "idle"
  BY <1>1 DEF Simulating, MinterIsNew, SavedType, chain, history
<1> QED
  BY <1>5, <1>6, <1>7 DEF Simulating

\* A transaction of a simulation has the next number.
LEMMA SimulateTransactionInvariant ==
  ASSUME SimulationInvariant, nextTxid <= MaxTxs,
         NEW t \in Templates[nextTxid], NEW spent \in InputSets,
         SimulateTransaction(t, spent)
  PROVE  SimulationInvariant'
<1> USE DEF SimulationInvariant, SimulateTransaction
<1>1. NextTransaction
  BY DEF NextTransaction
<1>2. UpdaterInvariant'
  BY <1>1, StepInvariant DEF Next
<1>3. TypeOK /\ Simulating
  BY DEF UpdaterInvariant
<1>4. /\ tx'.txid = nextTxid /\ nextTxid' = nextTxid + 1 /\ minters' = minters
      /\ pc' = "inputs" /\ entries' = entries
      /\ nextTxid \in Nat /\ minters \subseteq Nat
  BY <1>3 DEF TakeTransaction, Take, tables, TypeOK, BlockType
<1>5. MinterIsNew'
  BY <1>3, <1>4 DEF Simulating, MinterIsNew
<1>6. MovedIsBurned' /\ SavedType'
  BY <1>3, <1>4 DEF Simulating, MovedIsBurned, SavedType, simulation
<1> QED
  BY <1>2, <1>4, <1>5, <1>6 DEF Simulating

-----------------------------------------------------------------------------
(* The steps of index_runes. *)

Unmoved == UNCHANGED <<entries, burned, minters>>

(***************************************************************************)
(* Which steps of index_runes change what a simulation has moved: a mint,  *)
(* which empties it, and a conversion and the end of a transaction, which  *)
(* leave what is burned in the entries.                                    *)
(***************************************************************************)
LEMMA IndexRunesKeeps ==
  ASSUME IndexRunes
  PROVE  /\ nextTxid' = nextTxid /\ tx' \in {tx, NoTx}
         /\ pc' # "idle"
         /\ pc' = "inputs" => pc = "inputs"
         /\ pc' = "mint" => pc = "inputs"
         /\ pc' \notin {"block", "panicked"} => tx' = tx /\ pc \notin {"block", "panicked"}
         /\ Unmoved \/ Mint \/ ConvertExactInput \/ ConvertExactOutput \/ FinishTransaction
<1> USE DEF Unmoved
<1>1. CASE \E o \in pending : TakeInput(o)
  BY <1>1 DEF TakeInput, chain, history
<1>2. CASE CreateOutpoints \/ MoveOutpoints
  BY <1>2 DEF CreateOutpoints, MoveOutpoints, chain, history
<1>3. CASE Mint
  BY <1>3 DEF Mint, chain
<1>4. CASE NoMint \/ OverflowEdict \/ RefuseConversion
  BY <1>4 DEF NoMint, OverflowEdict, RefuseConversion, tables, chain, history
<1>5. CASE ApplyEdict
  BY <1>5 DEF ApplyEdict, tables, chain, history
<1>6. CASE AllocateRest \/ BurnRest
  BY <1>6 DEF AllocateRest, BurnRest, AfterEdicts, tables, chain, history
<1>7. CASE BurnOutput \/ DetectConversion
  BY <1>7 DEF BurnOutput, DetectConversion, tables, chain, history
<1>8. CASE ConvertExactInput \/ ConvertExactOutput
  BY <1>8 DEF ConvertExactInput, ConvertExactOutput, chain
<1>9. CASE ReturnInput \/ StoreOutput
  BY <1>9 DEF ReturnInput, StoreOutput, tables, chain, history
<1>10. CASE FinishTransaction
  BY <1>10 DEF FinishTransaction, tables, chain, history
<1> QED
  BY <1>1, <1>2, <1>3, <1>4, <1>5, <1>6, <1>7, <1>8, <1>9, <1>10 DEF IndexRunes

(***************************************************************************)
(* A conversion changes nothing of the entries but the two supplies.       *)
(***************************************************************************)
LEMMA ConversionKeepsBurned ==
  ASSUME UpdaterInvariant, ConvertExactInput \/ ConvertExactOutput
  PROVE  /\ burned' = burned /\ minters' = minters
         /\ inputId \in Rune
         /\ MoveSupply(AmountIn, AmountOut)
         /\ entries' \in [Rune -> Entry]
         /\ \A r \in Rune : entries'[r].burned = entries[r].burned
<1>1. /\ burned' = burned /\ minters' = minters /\ pc = "convert"
      /\ MoveSupply(AmountIn, AmountOut)
  BY DEF ConvertExactInput, ConvertExactOutput
<1>2. TypeOK /\ inputId \in Rune
  BY <1>1 DEF UpdaterInvariant, ConversionFound
<1>3. entries' \in [Rune -> Entry]
  BY <1>1, <1>2, AmountsType, MoveSupplyType
<1>4. \A r \in Rune : entries'[r].burned = entries[r].burned
  <2>1. entries \in [Rune -> Entry] /\ Other(inputId) \in Rune
    BY <1>2, AmountsType DEF TypeOK, TablesType
  <2> QED
    BY <1>1, <1>2, <2>1 DEF MoveSupply, Entry
<1> QED
  BY <1>1, <1>2, <1>3, <1>4

\* A mint shows in minters, and empties what has been moved.
LEMMA MintShows ==
  ASSUME SimulationInvariant, SimulateRunes, Mint
  PROVE  /\ moved' = Zero /\ burned' = Zero
         /\ minters' = minters \cup {tx.txid} /\ tx.txid < nextTxid
         /\ entries' = [r \in Rune |-> [entries[r] EXCEPT !.burned = 0]]
<1>1. MinterIsNew /\ pc = "mint"
  BY DEF SimulationInvariant, SimulateRunes, Simulating, Mint
<1>2. minters' = minters \cup {tx.txid} /\ tx.txid \notin minters /\ tx.txid < nextTxid
  BY <1>1 DEF MinterIsNew, Mint
<1> QED
  BY <1>2 DEF SimulateRunes, Mint

\* index_runes keeps the invariant.
LEMMA SimulateRunesInvariant ==
  ASSUME SimulationInvariant, SimulateRunes
  PROVE  SimulationInvariant'
<1>1. /\ UpdaterInvariant /\ Simulating /\ mode' = mode /\ saved' = saved /\ IndexRunes
      /\ moved' = IF minters' # minters THEN Zero ELSE moved
  BY DEF SimulationInvariant, SimulateRunes
<1>2. UpdaterInvariant'
  BY <1>1, StepInvariant DEF Next
<1>3. entries \in [Rune -> Entry] /\ moved \in [Rune -> Nat]
  BY <1>1 DEF UpdaterInvariant, TypeOK, TablesType, Simulating, MovedIsBurned
<1>4. MovedIsBurned'
  <2>1. CASE Unmoved
    BY <1>1, <2>1 DEF Unmoved, Simulating, MovedIsBurned
  <2>2. CASE Mint
    <3>1. \A r \in Rune : entries'[r].burned = 0
      BY <1>3, <2>2, MintShows DEF Entry
    <3> QED
      BY <2>2, <3>1, MintShows, ZeroType DEF MovedIsBurned, Zero
  <2>3. CASE ConvertExactInput \/ ConvertExactOutput
    BY <1>1, <2>3, ConversionKeepsBurned DEF Simulating, MovedIsBurned
  <2>4. CASE FinishTransaction
    BY <1>1, <2>4 DEF FinishTransaction, tables, history, Simulating, MovedIsBurned
  <2> QED
    BY <1>1, <2>1, <2>2, <2>3, <2>4, IndexRunesKeeps
<1>5. MinterIsNew'
  <2>1. minters' = minters \/ (minters' = minters \cup {tx.txid} /\ tx.txid < nextTxid
                               /\ pc' = "edicts")
    <3>1. Unmoved \/ ConvertExactInput \/ ConvertExactOutput \/ FinishTransaction
            => minters' = minters
      BY DEF Unmoved, ConvertExactInput, ConvertExactOutput, FinishTransaction, history
    <3>2. Mint => pc' = "edicts"
      BY DEF Mint
    <3> QED
      BY <1>1, <3>1, <3>2, MintShows, IndexRunesKeeps
  <2> QED
    BY <1>1, <2>1, IndexRunesKeeps DEF Simulating, MinterIsNew
<1>6. SavedType' /\ pc' # "idle"
  BY <1>1, IndexRunesKeeps DEF Simulating, SavedType
<1> QED
  BY <1>2, <1>4, <1>5, <1>6 DEF SimulationInvariant, Simulating

\* The invariant holds of an empty index, and every step keeps it.
LEMMA SimulationInitInvariant == SimulationInit => SimulationInvariant
  BY InitInvariant DEF SimulationInit, SimulationInvariant

LEMMA SimulationStep ==
  SimulationInvariant /\ [SimulationNext]_allVars => SimulationInvariant'
<1> SUFFICES ASSUME SimulationInvariant, [SimulationNext]_allVars
             PROVE  SimulationInvariant'
  OBVIOUS
<1>1. CASE UNCHANGED allVars
  <2>1. UNCHANGED vars /\ mode' = mode /\ saved' = saved /\ moved' = moved
    BY <1>1 DEF allVars, simulation
  <2>2. UpdaterInvariant'
    BY <2>1, StepInvariant DEF SimulationInvariant
  <2>3. Simulating => Simulating'
    BY <2>1 DEF vars, tables, chain, history, Simulating, SavedType, MinterIsNew, MovedIsBurned
  <2> QED
    BY <2>1, <2>2, <2>3 DEF SimulationInvariant
<1>2. CASE IndexStep(Next)
  BY <1>2, StepInvariant DEF IndexStep, simulation, SimulationInvariant
<1> QED
  BY <1>1, <1>2, BeginSimulationInvariant, SimulateTransactionInvariant,
     SimulateRunesInvariant, ReportStateInvariant, EndSimulationInvariant
     DEF SimulationNext

LEMMA SimulationInvariance == SimulationSpec => []SimulationInvariant
  BY SimulationInitInvariant, SimulationStep, PTL DEF SimulationSpec

-----------------------------------------------------------------------------
(* What Block reads, but for the entries and the burned amounts, is the same. *)

LEMMA SameConstants ==
  /\ Block!ID0 = ID0 /\ Block!ID1 = ID1 /\ Block!Rune = Rune /\ Block!NoRune = NoRune
  /\ Block!StateChange = StateChange
  /\ Block!Null = Null /\ Block!Missing = Missing
  /\ Block!Zero = Zero /\ Block!NoTx = NoTx
  /\ \A r : Block!Other(r) = Other(r)
  /\ \A S : Block!Cardinality(S) = Cardinality(S)
  /\ \A S : Block!Min(S) = Min(S)
  /\ \A S : Block!Max(S) = Max(S)
BY DEF ID0, ID1, Rune, NoRune, StateChange, Null, Missing, Zero, NoTx, NoArtifact, Other,
       Cardinality, Min, Max,
       Block!ID0, Block!ID1, Block!Rune, Block!NoRune, Block!StateChange, Block!Null,
       Block!Missing, Block!Zero, Block!NoTx, Block!NoArtifact, Block!Other,
       Block!Cardinality, Block!Min, Block!Max

\* What the steps read of the transaction.
LEMMA SameTransaction ==
  /\ Block!Vouts = Vouts /\ Block!Edicts = Edicts
  /\ Block!ValidDestinations = ValidDestinations
  /\ \A v : Block!IsOpReturn(v) = IsOpReturn(v)
  /\ \A c : Block!ChainOutputs(c) = ChainOutputs(c)
  /\ \A c : Block!FirstOutpoint(c) = FirstOutpoint(c)
  /\ \A c : Block!FirstValue(c) = FirstValue(c)
BY DEF Vouts, Edicts, ValidDestinations, IsOpReturn, ChainOutputs, FirstOutpoint, FirstValue,
       Null, Min,
       Block!Vouts, Block!Edicts, Block!ValidDestinations, Block!IsOpReturn,
       Block!ChainOutputs, Block!FirstOutpoint, Block!FirstValue, Block!Null, Block!Min

\* The effect of an edict, which is one of the unallocated balance.
LEMMA SameEffect ==
  /\ \A e : Block!Effect(e) = Effect(e)
  /\ \A e, effect : Block!Fits(e, effect) = Fits(e, effect)
BY DEF Effect, UnheldEffect, SingleEffect, SplitEffect, EachEffect, Fits, ToEach, Smaller,
       Excess, Rank, Nothing, Vouts, ValidDestinations, Cardinality,
       Block!Effect, Block!UnheldEffect, Block!SingleEffect, Block!SplitEffect,
       Block!EachEffect, Block!Fits, Block!ToEach, Block!Smaller, Block!Excess, Block!Rank,
       Block!Nothing, Block!Vouts, Block!ValidDestinations, Block!Cardinality

-----------------------------------------------------------------------------
(* The steps of a simulation, seen as steps of Block. *)

\* What Block sees of the entries and of the burned amounts.
LEMMA BlockUnmoved ==
  ASSUME Unmoved, moved' = moved
  PROVE  BlockEntries' = BlockEntries /\ BlockBurned' = BlockBurned
BY DEF Unmoved, BlockEntries, BlockBurned

LEMMA SteadyUnmoved ==
  ASSUME SimulateRunes, Unmoved
  PROVE  BlockEntries' = BlockEntries /\ BlockBurned' = BlockBurned
BY BlockUnmoved DEF SimulateRunes, Unmoved

\* A transaction of a simulation is the next one of the block.
LEMMA BlockTakes ==
  ASSUME nextTxid <= MaxTxs, NEW t \in Templates[nextTxid], NEW spent \in InputSets,
         SimulateTransaction(t, spent)
  PROVE  Block!NextTransaction
<1>1. Unmoved /\ moved' = moved
  BY DEF SimulateTransaction, simulation, TakeTransaction, Take, tables, Unmoved
<1>2. BlockEntries' = BlockEntries /\ BlockBurned' = BlockBurned
  BY <1>1, BlockUnmoved
<1>3. Block!InputSets = InputSets
  BY DEF InputSets, Spendable, StateChange, Cardinality,
         Block!InputSets, Block!Spendable, Block!StateChange, Block!Cardinality
<1>4. Block!TakeTransaction(t, spent)
  BY <1>2 DEF SimulateTransaction, TakeTransaction, Take, tables, Zero, Rune,
              Block!TakeTransaction, Block!Take, Block!tables, Block!Zero, Block!Rune,
              ID0, ID1, Block!ID0, Block!ID1
<1> QED
  BY <1>3, <1>4 DEF Block!NextTransaction

\* The steps that leave what is burned, and the supplies, alone.
LEMMA BlockInputs ==
  ASSUME SimulateRunes, NEW o \in pending, TakeInput(o)
  PROVE  Block!TakeInput(o)
<1>1. Unmoved
  BY DEF TakeInput, Unmoved, history
<1>2. BlockEntries' = BlockEntries /\ BlockBurned' = BlockBurned
  BY <1>1, SteadyUnmoved
<1> QED
  BY <1>2 DEF TakeInput, WithoutRow, conversion, chain, history,
              Block!TakeInput, Block!WithoutRow, Block!conversion, Block!chain, Block!history,
              Rune, ID0, ID1, Block!Rune, Block!ID0, Block!ID1

LEMMA BlockMovesOutpoints ==
  ASSUME SimulateRunes, CreateOutpoints \/ MoveOutpoints
  PROVE  Block!CreateOutpoints \/ Block!MoveOutpoints
<1>1. Unmoved
  BY DEF CreateOutpoints, MoveOutpoints, Unmoved, history
<1>2. BlockEntries' = BlockEntries /\ BlockBurned' = BlockBurned
  BY <1>1, SteadyUnmoved
<1>3. CreateOutpoints => Block!CreateOutpoints
  BY <1>2, SameConstants
     DEF CreateOutpoints, allocation, conversion, chain, history,
         Block!CreateOutpoints, Block!allocation, Block!conversion, Block!chain, Block!history
<1>4. MoveOutpoints => Block!MoveOutpoints
  BY <1>2, SameConstants, SameTransaction
     DEF MoveOutpoints, allocation, conversion, chain, history,
         Block!MoveOutpoints, Block!allocation, Block!conversion, Block!chain, Block!history
<1> QED
  BY <1>3, <1>4

LEMMA BlockEdicts ==
  ASSUME SimulateRunes, ApplyEdict \/ OverflowEdict
  PROVE  Block!ApplyEdict \/ Block!OverflowEdict
<1>1. Unmoved
  BY DEF ApplyEdict, OverflowEdict, Unmoved, tables, history
<1>2. BlockEntries' = BlockEntries /\ BlockBurned' = BlockBurned
  BY <1>1, SteadyUnmoved
<1>3. ApplyEdict => Block!ApplyEdict
  BY <1>2, SameEffect, SameTransaction
     DEF ApplyEdict, tables, chain, history,
         Block!ApplyEdict, Block!tables, Block!chain, Block!history
<1>4. OverflowEdict => Block!OverflowEdict
  BY <1>2, SameEffect, SameTransaction
     DEF OverflowEdict, tables, allocation, conversion, chain, history, Block!OverflowEdict,
         Block!tables, Block!allocation, Block!conversion, Block!chain, Block!history
<1> QED
  BY <1>3, <1>4

LEMMA BlockRests ==
  ASSUME SimulateRunes, AllocateRest \/ BurnRest
  PROVE  Block!AllocateRest \/ Block!BurnRest
<1>1. Unmoved
  BY DEF AllocateRest, BurnRest, AfterEdicts, Unmoved, tables, history
<1>2. BlockEntries' = BlockEntries /\ BlockBurned' = BlockBurned
  BY <1>1, SteadyUnmoved
<1>3. Block!DefaultOutputs = DefaultOutputs
  BY SameConstants, SameTransaction DEF DefaultOutputs, Block!DefaultOutputs
<1>4. AfterEdicts => Block!AfterEdicts
  BY <1>2, SameConstants, SameTransaction
     DEF AfterEdicts, tables, conversion, chain, history,
         Block!AfterEdicts, Block!tables, Block!conversion, Block!chain, Block!history
<1>5. AllocateRest => Block!AllocateRest
  BY <1>3, <1>4, SameConstants, SameTransaction DEF AllocateRest, Block!AllocateRest
<1>6. BurnRest => Block!BurnRest
  BY <1>3, <1>4, SameConstants DEF BurnRest, Block!BurnRest
<1> QED
  BY <1>5, <1>6

LEMMA BlockBurns ==
  ASSUME SimulateRunes, BurnOutput \/ DetectConversion
  PROVE  Block!BurnOutput \/ Block!DetectConversion
<1>1. Unmoved
  BY DEF BurnOutput, DetectConversion, Unmoved, tables, history
<1>2. BlockEntries' = BlockEntries /\ BlockBurned' = BlockBurned
  BY <1>1, SteadyUnmoved
<1>3. BurnOutput => Block!BurnOutput
  BY <1>2, SameConstants, SameTransaction
     DEF BurnOutput, tables, conversion, chain, history,
         Block!BurnOutput, Block!tables, Block!conversion, Block!chain, Block!history
<1>4. Block!ConversionInput = ConversionInput
  BY SameConstants DEF ConversionInput, Convertible, Block!ConversionInput, Block!Convertible
<1>5. DetectConversion => Block!DetectConversion
  BY <1>2, <1>4, SameConstants, SameTransaction
     DEF DetectConversion, tables, allocation, chain, history,
         Block!DetectConversion, Block!tables, Block!allocation, Block!chain, Block!history
<1> QED
  BY <1>3, <1>5

LEMMA BlockStores ==
  ASSUME SimulateRunes, ReturnInput \/ StoreOutput
  PROVE  Block!ReturnInput \/ Block!StoreOutput
<1>1. Unmoved
  BY DEF ReturnInput, StoreOutput, Unmoved, tables, history
<1>2. BlockEntries' = BlockEntries /\ BlockBurned' = BlockBurned
  BY <1>1, SteadyUnmoved
<1>3. Block!ReturnOutputs = ReturnOutputs
  BY DEF ReturnOutputs, EdictsToOutput, Holders, ToEach, Edicts, Vouts, ValidDestinations,
         Min, Max,
         Block!ReturnOutputs, Block!EdictsToOutput, Block!Holders, Block!ToEach,
         Block!Edicts, Block!Vouts, Block!ValidDestinations, Block!Min, Block!Max
<1>4. ReturnInput => Block!ReturnInput
  BY <1>2, <1>3, SameTransaction
     DEF ReturnInput, tables, conversion, chain, history,
         Block!ReturnInput, Block!tables, Block!conversion, Block!chain, Block!history
<1>5. StoreOutput => Block!StoreOutput
  BY <1>2, SameConstants, SameTransaction
     DEF StoreOutput, Stored, conversion, chain, history,
         Block!StoreOutput, Block!Stored, Block!conversion, Block!chain, Block!history
<1> QED
  BY <1>4, <1>5

-----------------------------------------------------------------------------
(* The steps that touch what is burned, or the supplies. *)

LEMMA BlockTypes ==
  ASSUME SimulationInvariant, mode = "simulate"
  PROVE  /\ entries \in [Rune -> Entry]
         /\ burned \in [Rune -> Nat]
         /\ moved \in [Rune -> Nat]
         /\ txBurned \in [Rune -> Nat]
         /\ BlockEntries \in [Rune -> Entry]
         /\ \A r \in Rune : /\ BlockEntries[r].supply = entries[r].supply
                            /\ BlockEntries[r].burned = entries[r].burned - moved[r]
                            /\ BlockEntries[r].mints = entries[r].mints
<1>1. TypeOK /\ MovedIsBurned
  BY DEF SimulationInvariant, UpdaterInvariant, Simulating
<1>2. /\ entries \in [Rune -> Entry]
      /\ burned \in [Rune -> Nat]
      /\ txBurned \in [Rune -> Nat]
      /\ moved \in [Rune -> Nat]
      /\ \A r \in Rune : moved[r] <= entries[r].burned
  BY <1>1 DEF TypeOK, TablesType, BlockType, TransactionType, MovedIsBurned
<1>3. \A r \in Rune : entries[r].burned - moved[r] \in Nat
  BY <1>2 DEF Entry
<1>4. BlockEntries \in [Rune -> Entry]
  BY <1>2, <1>3 DEF BlockEntries, Entry
<1>5. \A r \in Rune : /\ BlockEntries[r].supply = entries[r].supply
                     /\ BlockEntries[r].burned = entries[r].burned - moved[r]
                     /\ BlockEntries[r].mints = entries[r].mints
  BY <1>2 DEF BlockEntries, Entry
<1> QED
  BY <1>2, <1>4, <1>5

\* A mint is paid the pot of the block: what was moved early is in it.
LEMMA BlockMints ==
  ASSUME SimulationInvariant, SimulateRunes, Mint \/ NoMint
  PROVE  Block!Mint \/ Block!NoMint
<1>1. mode = "simulate" /\ mode' = "simulate"
  BY DEF SimulateRunes
<1>2. Block!StartsMintChain = StartsMintChain /\ Block!MayMint = MayMint
  BY SameConstants, SameTransaction
     DEF StartsMintChain, MayMint, Block!StartsMintChain, Block!MayMint
<1>3. Mint => Block!Mint
  <2> SUFFICES ASSUME Mint PROVE Block!Mint
    OBVIOUS
  <2>1. \A r \in Rune : Block!MintPot(r) = MintPot(r)
    BY <1>1, BlockTypes DEF MintPot, Block!MintPot, BlockBurned, Entry
  <2>2. BlockEntries' = [r \in Rune |-> [BlockEntries[r] EXCEPT !.burned = 0]]
    <3>1. \A r \in Rune : [entries'[r] EXCEPT !.burned = entries'[r].burned - moved'[r]]
                           = [BlockEntries[r] EXCEPT !.burned = 0]
      <4> SUFFICES ASSUME NEW r \in Rune
                   PROVE  [entries'[r] EXCEPT !.burned = entries'[r].burned - moved'[r]]
                            = [BlockEntries[r] EXCEPT !.burned = 0]
        OBVIOUS
      <4>1. entries[r] \in Entry
        BY <1>1, BlockTypes
      <4>2. entries'[r] = [entries[r] EXCEPT !.burned = 0] /\ moved'[r] = 0
        BY MintShows DEF Zero
      <4>3. entries'[r].burned - moved'[r] = 0
        BY <4>1, <4>2 DEF Entry
      <4>4. BlockEntries[r] = [entries[r] EXCEPT !.burned = entries[r].burned - moved[r]]
        BY DEF BlockEntries
      <4> QED
        BY <4>1, <4>2, <4>3, <4>4 DEF Entry
    <3> QED
      BY <3>1 DEF BlockEntries
  <2>3. BlockBurned' = Zero
    BY MintShows DEF BlockBurned, Zero
  <2>4. unallocated' = [r \in Rune |-> unallocated[r] + Block!MintPot(r)]
    BY <2>1 DEF Mint
  <2> QED
    BY <1>2, <2>2, <2>3, <2>4, SameConstants, SameTransaction
       DEF Mint, conversion, chain, Block!Mint, Block!conversion, Block!chain
<1>4. NoMint => Block!NoMint
  <2> SUFFICES ASSUME NoMint PROVE Block!NoMint
    OBVIOUS
  <2>1. BlockEntries' = BlockEntries /\ BlockBurned' = BlockBurned
    BY SteadyUnmoved DEF NoMint, Unmoved, tables, history
  <2> QED
    BY <1>2, <2>1
       DEF NoMint, tables, allocation, conversion, chain, history, Block!NoMint,
           Block!tables, Block!allocation, Block!conversion, Block!chain, Block!history
<1> QED
  BY <1>3, <1>4

\* The amounts of a conversion are computed from the supplies, which do not move.
LEMMA SameConversion ==
  ASSUME SimulationInvariant, mode = "simulate", pc = "convert"
  PROVE  /\ Block!AmountIn = AmountIn /\ Block!AmountOut = AmountOut
         /\ Block!ExactInput = ExactInput
         /\ Block!Acceptable = Acceptable /\ Block!Connected = Connected
         /\ Block!Takers = Takers
<1>1. inputId \in Rune /\ Other(inputId) \in Rune
  BY DEF SimulationInvariant, UpdaterInvariant, ConversionFound, Other, Rune
<1>2. Block!SupplyIn = SupplyIn /\ Block!SupplyOut = SupplyOut
  BY <1>1, BlockTypes, SameConstants DEF SupplyIn, SupplyOut, Block!SupplyIn, Block!SupplyOut
<1>3. Block!ExactInput = ExactInput /\ Block!WantedOut = WantedOut
  BY SameConstants DEF ExactInput, WantedOut, Block!ExactInput, Block!WantedOut
<1>4. /\ \A m, x, y, z : Block!WrappedCosts(m, x, y, z) = WrappedCosts(m, x, y, z)
      /\ \A m, x, y, z : Block!WrappedYields(m, x, y, z) = WrappedYields(m, x, y, z)
      /\ \A m, x, y, z : Block!WrappedReachable(m, x, y, z) = WrappedReachable(m, x, y, z)
  BY DEF WrappedCosts, WrappedYields, WrappedReachable, Sqrt, SumOfSquares,
         Block!WrappedCosts, Block!WrappedYields, Block!WrappedReachable, Block!Sqrt,
         Block!SumOfSquares
<1>5. Block!AmountIn = AmountIn /\ Block!AmountOut = AmountOut
  BY <1>2, <1>3, <1>4 DEF AmountIn, AmountOut, Block!AmountIn, Block!AmountOut
<1>6. Block!Acceptable = Acceptable
  BY <1>2, <1>3, <1>4, <1>5 DEF Acceptable, Block!Acceptable
<1>7. Block!Connected = Connected
  BY SameConstants, SameTransaction
     DEF Connected, StartsConversionChain, Block!Connected, Block!StartsConversionChain
<1>8. Block!Takers = Takers
  BY SameConstants, SameTransaction DEF Takers, Block!Takers
<1> QED
  BY <1>3, <1>5, <1>6, <1>7, <1>8

\* A conversion moves the supplies that Block sees as it moves those of the entries.
LEMMA BlockMovesSupply ==
  ASSUME SimulationInvariant, SimulateRunes, ConvertExactInput \/ ConvertExactOutput
  PROVE  /\ Block!MoveSupply(AmountIn, AmountOut)
         /\ BlockBurned' = BlockBurned
<1> DEFINE out == Other(inputId)
           less == (entries[inputId].supply - AmountIn) % LotModulus
           more == (entries[out].supply + AmountOut) % LotModulus
<1>1. mode = "simulate" /\ mode' = "simulate" /\ UpdaterInvariant /\ SimulationInvariant'
  BY SimulateRunesInvariant DEF SimulateRunes, SimulationInvariant
<1>2. /\ burned' = burned /\ moved' = moved
      /\ inputId \in Rune
      /\ MoveSupply(AmountIn, AmountOut)
      /\ entries' \in [Rune -> Entry]
  BY <1>1, ConversionKeepsBurned DEF SimulateRunes
<1>3. out \in Rune /\ out # inputId /\ Block!Other(inputId) = out
  BY <1>2, SameConstants DEF Other, Rune, ID0, ID1
<1>4. entries' = [entries EXCEPT ![inputId].supply = less, ![out].supply = more]
  BY <1>2, <1>3 DEF MoveSupply
<1>5. /\ entries \in [Rune -> Entry]
      /\ BlockEntries[inputId].supply = entries[inputId].supply
      /\ BlockEntries[out].supply = entries[out].supply
  BY <1>1, <1>2, <1>3, BlockTypes
<1>6. Block!MoveSupply(AmountIn, AmountOut)
        <=> BlockEntries' = [BlockEntries EXCEPT ![inputId].supply = less, ![out].supply = more]
  BY <1>3, <1>5 DEF Block!MoveSupply
<1> HIDE DEF out, less, more
<1>7. BlockEntries' = [BlockEntries EXCEPT ![inputId].supply = less, ![out].supply = more]
  <2> DEFINE change(e, r) == IF r = inputId THEN [e EXCEPT !.supply = less]
                             ELSE IF r = out THEN [e EXCEPT !.supply = more] ELSE e
  <2>1. \A r \in Rune : entries'[r] = change(entries[r], r)
    BY <1>2, <1>3, <1>4, <1>5
  <2>2. \A r \in Rune : BlockEntries'[r]
                          = [entries'[r] EXCEPT !.burned = entries'[r].burned - moved[r]]
    BY <1>2 DEF BlockEntries
  <2>3. \A r \in Rune : BlockEntries[r]
                          = [entries[r] EXCEPT !.burned = entries[r].burned - moved[r]]
    BY DEF BlockEntries
  <2>4. \A r \in Rune : BlockEntries'[r] = change(BlockEntries[r], r)
    <3> SUFFICES ASSUME NEW r \in Rune PROVE BlockEntries'[r] = change(BlockEntries[r], r)
      OBVIOUS
    <3>1. \A e \in Entry : \A x, y :
            /\ [e EXCEPT !.supply = x].burned = e.burned
            /\ [[e EXCEPT !.supply = x] EXCEPT !.burned = y]
                 = [[e EXCEPT !.burned = y] EXCEPT !.supply = x]
      BY DEF Entry
    <3>2. entries[r] \in Entry
      BY <1>5
    <3>3. ASSUME NEW x, entries'[r] = [entries[r] EXCEPT !.supply = x]
          PROVE  BlockEntries'[r] = [BlockEntries[r] EXCEPT !.supply = x]
      <4> DEFINE rest == entries[r].burned - moved[r]
      <4>1. entries'[r].burned = entries[r].burned
        BY <3>1, <3>2, <3>3
      <4>2. BlockEntries'[r] = [[entries[r] EXCEPT !.supply = x] EXCEPT !.burned = rest]
        BY <2>2, <3>3, <4>1
      <4>3. BlockEntries[r] = [entries[r] EXCEPT !.burned = rest]
        BY <2>3
      <4> HIDE DEF rest
      <4> QED
        BY <3>1, <3>2, <4>2, <4>3
    <3>4. CASE r \in {inputId, out}
      BY <1>3, <2>1, <3>3, <3>4
    <3>5. CASE r # out /\ r # inputId
      BY <2>1, <2>2, <2>3, <3>5
    <3> QED
      BY <3>3, <3>4, <3>5
  <2>5. /\ DOMAIN BlockEntries = Rune /\ DOMAIN BlockEntries' = Rune
        /\ BlockEntries = [r \in Rune |-> BlockEntries[r]]
        /\ BlockEntries' = [r \in Rune |-> BlockEntries'[r]]
    BY DEF BlockEntries
  <2> QED
    BY <1>2, <1>3, <2>4, <2>5
<1>8. BlockBurned' = BlockBurned
  BY <1>2 DEF BlockBurned
<1> QED
  BY <1>6, <1>7, <1>8

LEMMA BlockConverts ==
  ASSUME SimulationInvariant, SimulateRunes,
         ConvertExactInput \/ ConvertExactOutput \/ RefuseConversion
  PROVE  Block!ConvertExactInput \/ Block!ConvertExactOutput \/ Block!RefuseConversion
<1>1. mode = "simulate" /\ pc = "convert"
  BY DEF SimulateRunes, ConvertExactInput, ConvertExactOutput, RefuseConversion
<1>2. Block!ConnectConversion <=> ConnectConversion
  BY SameConstants, SameTransaction
     DEF ConnectConversion, StartsConversionChain,
         Block!ConnectConversion, Block!StartsConversionChain
<1>3. CASE ConvertExactInput
  <2>1. Block!MoveSupply(AmountIn, AmountOut) /\ BlockBurned' = BlockBurned
    BY <1>3, BlockMovesSupply
  <2>2. Block!ConvertExactInput
    BY <1>1, <1>2, <1>3, <2>1, SameConversion, SameConstants, SameTransaction
       DEF ConvertExactInput, conversion, chain,
           Block!ConvertExactInput, Block!conversion, Block!chain
  <2> QED
    BY <2>2
<1>4. CASE ConvertExactOutput
  <2>1. Block!MoveSupply(AmountIn, AmountOut) /\ BlockBurned' = BlockBurned
    BY <1>4, BlockMovesSupply
  <2>2. Block!ConvertExactOutput
    BY <1>1, <1>2, <1>4, <2>1, SameConversion, SameConstants, SameTransaction
       DEF ConvertExactOutput, conversion, chain,
           Block!ConvertExactOutput, Block!conversion, Block!chain
  <2> QED
    BY <2>2
<1>5. CASE RefuseConversion
  <2>1. BlockEntries' = BlockEntries /\ BlockBurned' = BlockBurned
    BY <1>5, SteadyUnmoved DEF RefuseConversion, Unmoved, tables, history
  <2>2. Block!RefuseConversion
    BY <1>1, <1>5, <2>1, SameConversion
       DEF RefuseConversion, tables, allocation, conversion, chain, history,
           Block!RefuseConversion, Block!tables, Block!allocation, Block!conversion,
           Block!chain, Block!history
  <2> QED
    BY <2>2
<1> QED
  BY <1>3, <1>4, <1>5

\* What the transaction has burned is burned in the block.
LEMMA BlockFinishes ==
  ASSUME SimulationInvariant, SimulateRunes, FinishTransaction
  PROVE  Block!FinishTransaction
<1>1. /\ mode = "simulate" /\ entries' = entries /\ moved' = moved
      /\ burned' = [r \in Rune |-> burned[r] + txBurned[r]]
  BY DEF SimulateRunes, FinishTransaction, tables, history
<1>2. BlockEntries' = BlockEntries
  BY <1>1 DEF BlockEntries
<1>3. \A r \in Rune : burned'[r] + moved'[r] = BlockBurned[r] + txBurned[r]
  BY <1>1, BlockTypes DEF BlockBurned
<1>4. BlockBurned' = [r \in Rune |-> BlockBurned[r] + txBurned[r]]
  BY <1>3 DEF BlockBurned
<1> QED
  BY <1>2, <1>4, SameConstants, SameTransaction
     DEF FinishTransaction, tables, chain, history,
         Block!FinishTransaction, Block!tables, Block!chain, Block!history

\* To report the state is no step of the block: what is moved is counted as burned.
LEMMA ReportStutters ==
  ASSUME SimulationInvariant, ReportState
  PROVE  UNCHANGED <<Block!vars>>
<1>1. /\ mode = "simulate" /\ burned' = Zero
      /\ entries' = [r \in Rune |-> [entries[r] EXCEPT !.burned = entries[r].burned + burned[r]]]
      /\ moved' = [r \in Rune |-> moved[r] + burned[r]]
  BY DEF ReportState, UpdateBurned
<1>2. BlockEntries' = BlockEntries
  <2>1. \A r \in Rune : [entries'[r] EXCEPT !.burned = entries'[r].burned - moved'[r]]
                         = [entries[r] EXCEPT !.burned = entries[r].burned - moved[r]]
    <3> SUFFICES ASSUME NEW r \in Rune
                 PROVE  [entries'[r] EXCEPT !.burned = entries'[r].burned - moved'[r]]
                          = [entries[r] EXCEPT !.burned = entries[r].burned - moved[r]]
      OBVIOUS
    <3>1. entries[r] \in Entry /\ burned[r] \in Nat /\ moved[r] \in Nat
      BY <1>1, BlockTypes
    <3>2. /\ entries'[r] = [entries[r] EXCEPT !.burned = entries[r].burned + burned[r]]
          /\ moved'[r] = moved[r] + burned[r]
      BY <1>1
    <3>3. entries'[r].burned - moved'[r] = entries[r].burned - moved[r]
      BY <3>1, <3>2 DEF Entry
    <3> QED
      BY <3>1, <3>2, <3>3 DEF Entry
  <2> QED
    BY <2>1 DEF BlockEntries
<1>3. BlockBurned' = BlockBurned
  <2>1. \A r \in Rune : burned'[r] + moved'[r] = burned[r] + moved[r]
    BY <1>1, BlockTypes DEF Zero
  <2> QED
    BY <2>1 DEF BlockBurned
<1> QED
  BY <1>2, <1>3
     DEF ReportState, allocation, conversion, chain, history,
         Block!vars, Block!tables, Block!allocation, Block!conversion, Block!chain,
         Block!history

\* Every step of index_runes in a simulation is one of the block.
LEMMA BlockIndexes ==
  ASSUME SimulationInvariant, SimulateRunes
  PROVE  Block!IndexRunes
<1>1. IndexRunes
  BY DEF SimulateRunes
<1> QED
  BY <1>1, BlockInputs, BlockMovesOutpoints, BlockMints, BlockEdicts, BlockRests,
     BlockBurns, BlockConverts, BlockStores, BlockFinishes
     DEF IndexRunes, Block!IndexRunes

(***************************************************************************)
(* SimulationIndexes: in Updater::simulate each step is one that indexing  *)
(* the same transactions would take, or none, for update_burned called     *)
(* early.                                                                  *)
(***************************************************************************)
THEOREM SimulationTakesTheSteps == SimulationSpec => SimulationIndexes
<1>1. ASSUME SimulationInvariant, [SimulationNext]_allVars, mode = "simulate", mode' = "simulate"
      PROVE  Block!IndexRunes \/ Block!NextTransaction \/ UNCHANGED <<Block!vars>>
  <2>1. CASE UNCHANGED allVars
    <3>1. BlockEntries' = BlockEntries /\ BlockBurned' = BlockBurned
      BY <2>1, BlockUnmoved DEF allVars, simulation, vars, tables, history, Unmoved
    <3> QED
      BY <2>1, <3>1
         DEF allVars, vars, tables, allocation, conversion, chain, history,
             Block!vars, Block!tables, Block!allocation, Block!conversion, Block!chain,
             Block!history
  <2>2. CASE SimulateRunes
    BY <1>1, <2>2, BlockIndexes
  <2>3. CASE ReportState
    BY <1>1, <2>3, ReportStutters
  <2>4. ~IndexStep(Next) /\ ~BeginSimulation /\ ~EndSimulation
    BY <1>1 DEF IndexStep, BeginSimulation, EndSimulation
  <2> QED
    BY <1>1, <2>1, <2>2, <2>3, <2>4, BlockTakes DEF SimulationNext
<1>2. SimulationInvariant /\ [SimulationNext]_allVars
        => [mode = "simulate" /\ mode' = "simulate"
              => Block!IndexRunes \/ Block!NextTransaction]_<<Block!vars>>
  BY <1>1
<1> QED
  BY <1>2, SimulationInvariance, PTL DEF SimulationSpec, SimulationIndexes
=============================================================================
