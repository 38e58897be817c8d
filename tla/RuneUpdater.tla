---------------------------- MODULE RuneUpdater ----------------------------
(***************************************************************************)
(* src/index/updater/rune_updater.rs: how the indexer applies the          *)
(* transactions of a block to the rune tables.  One block is update_supply,*)
(* index_runes for every transaction in order, then update_burned;         *)
(* index_runes is split here at its loops, so that each pass of a loop is  *)
(* one step and pc names the loop.                                         *)
(*                                                                         *)
(* Outputs are numbered from 1, so an edict whose output is Len(outputs)+1 *)
(* is the code's output == tx.output.len(): "every eligible output".       *)
(* A map with or_default() entries is a total function with default 0; the *)
(* one map whose missing keys are tested, unallocated, has its set of keys *)
(* beside it (entered).                                                    *)
(***************************************************************************)
EXTENDS ConversionCurve, Runestone, FiniteSets, FiniteSetsExt

CONSTANTS
  Templates,         \* what the n-th transaction may be, but for its inputs
  MaxInputs,         \* bound: rune-carrying or chain inputs per transaction
  MaxTxs,            \* bound: transactions in a behaviour
  MaxHeight,         \* bound: height of the last block
  FirstRuneHeight,   \* settings.first_rune_height(), the entries' block
  InitialReward,     \* 50 * 100000000 in the code
  HalvingInterval,   \* 210000 in the code
  MaxHalvings,       \* 128 in the code: the width of the shifted integer
  CoinbaseMaturity   \* confirmations of a spendable coinbase output (external)

NoRune == "none"

\* StateChange: the two chains of outputs, named as the scripts that carry them.
StateChange == {"mint", "convert"}
Script == StateChange \cup {"op_return", "plain"}

Outpoint == [txid : Nat, vout : Nat]
Null == [txid |-> 0, vout |-> 0]       \* OutPoint::null(): no such transaction
Missing == [txid |-> 0, vout |-> 1]    \* no row in STATE_CHANGE_TO_LAST_OUTPOINT

Output == [script : Script, value : Nat]
Template == [coinbase : BOOLEAN, rbf : BOOLEAN,
             outputs : Seq(Output), artifact : Artifact]

\* An artifact sits in an OP_RETURN output, and is what decipher can find there.
WellFormed(t) ==
  /\ t.artifact.kind # "none" =>
       \E v \in DOMAIN t.outputs : t.outputs[v].script = "op_return"
  /\ FitsOutputs(t.artifact, Len(t.outputs))

\* RuneEntry::reward: the subsidy, halved until the shift would be undefined.
Reward(h) ==
  LET halvings == (h - FirstRuneHeight) \div HalvingInterval
  IN  IF h < FirstRuneHeight \/ halvings >= MaxHalvings
      THEN 0
      ELSE InitialReward \div (2 ^ halvings)

ASSUME BoundAssumption ==
  /\ MaxInputs \in Nat
  /\ MaxTxs \in Nat
  /\ MaxHeight \in Nat
  /\ FirstRuneHeight \in Nat
  /\ CoinbaseMaturity \in Nat \ {0}
ASSUME TemplateAssumption == Templates \in [1..MaxTxs -> SUBSET Template]
ASSUME WellFormedAssumption ==
  \A n \in 1..MaxTxs : \A t \in Templates[n] : WellFormed(t)
ASSUME RewardAssumption ==
  \A h \in FirstRuneHeight..MaxHeight : Reward(h) \in Nat

VARIABLES
  pc,            \* the loop the indexer is in
  height,        \* Updater.height: the block being indexed, or the next one
  \* the tables
  entries,       \* RUNE_ID_TO_RUNE_ENTRY
  balances,      \* OUTPOINT_TO_RUNE_BALANCES
  lastOutpoint,  \* STATE_CHANGE_TO_LAST_OUTPOINT
  lastValue,     \* STATE_CHANGE_TO_LAST_TXOUT_VALUE
  \* the fields of RuneUpdater, one for each block
  burned,        \* burned
  require,       \* require_conversion_outpoint
  \* the locals of index_runes, one for each transaction
  tx, pending, cursor, unallocated, entered, allocated, converted,
  allocatedConversion, txBurned, lastId, inputId,
  \* the chain of blocks the indexer reads (external)
  utxos,         \* its unspent outputs
  nextTxid,
  first,         \* the block's coinbase transaction comes next
  \* history, for the properties
  minters,       \* the transactions of the block that minted
  lineage        \* the last conversion of the block and its descendants

tables == <<entries, balances, lastOutpoint, lastValue>>
chain == <<utxos, nextTxid, first>>
history == <<minters, lineage>>
allocation == <<unallocated, entered, allocated, txBurned>>
conversion == <<converted, allocatedConversion, lastId, inputId>>
vars == <<pc, height, tables, burned, require, tx, pending, cursor,
          allocation, conversion, chain, history>>

Entry == [supply : Nat, burned : Nat, mints : Nat]
Unspent == [at : Outpoint, script : Script, value : Nat,
            height : Nat, coinbase : BOOLEAN]
Tx == [txid : Nat, inputs : SUBSET Outpoint, coinbase : BOOLEAN,
       rbf : BOOLEAN, outputs : Seq(Output), artifact : Artifact]

Zero == [r \in Rune |-> 0]
NoTx == [txid |-> 0, inputs |-> {}, coinbase |-> FALSE, rbf |-> FALSE,
         outputs |-> << >>, artifact |-> NoArtifact]

-----------------------------------------------------------------------------
\* Helpers on the transaction being indexed.

Vouts == 1..Len(tx.outputs)
IsOpReturn(v) == tx.outputs[v].script = "op_return"

\* is_valid_destination: not OP_RETURN, not the mint, not the convert script.
ValidDestinations == {v \in Vouts : tx.outputs[v].script = "plain"}

\* The outputs with the script of a chain, and the first of them as an outpoint.
ChainOutputs(c) == {v \in Vouts : tx.outputs[v].script = c}
\* Mutant: a broken chain is not reset to null.
StaleOutpoint(c) ==
  IF ChainOutputs(c) = {}
  THEN lastOutpoint[c]
  ELSE [txid |-> tx.txid, vout |-> Min(ChainOutputs(c))]
FirstOutpoint(c) ==
  IF ChainOutputs(c) = {}
  THEN Null
  ELSE [txid |-> tx.txid, vout |-> Min(ChainOutputs(c))]
FirstValue(c) ==
  IF ChainOutputs(c) = {} THEN 0 ELSE tx.outputs[Min(ChainOutputs(c))].value

Edicts == tx.artifact.edicts

-----------------------------------------------------------------------------
Init ==
  /\ pc = "idle"
  /\ height = FirstRuneHeight
  /\ entries = [r \in Rune |-> [supply |-> 0, burned |-> 0, mints |-> 0]]
  /\ balances = [o \in {} |-> Zero]
  /\ lastOutpoint = [c \in StateChange |-> Missing]
  /\ lastValue = [c \in StateChange |-> 0]
  /\ burned = Zero
  /\ require = TRUE
  /\ tx = NoTx
  /\ pending = {}
  /\ cursor = 1
  /\ unallocated = Zero
  /\ entered = {}
  /\ allocated = << >>
  /\ converted = Zero
  /\ allocatedConversion = << >>
  /\ txBurned = Zero
  /\ lastId = NoRune
  /\ inputId = NoRune
  /\ utxos = {}
  /\ nextTxid = 1
  /\ first = TRUE
  /\ minters = {}
  /\ lineage = {}

-----------------------------------------------------------------------------
(* index_block: the steps around the loop over the transactions. *)

\* Another block is within the bounds of the model.
BlockAllowed ==
  /\ height <= MaxHeight
  /\ nextTxid <= MaxTxs
  /\ \E t \in Templates[nextTxid] : t.coinbase

\* update_supply: the reward of the block is issued to the burned pot.
Issued ==
  LET s0 == entries[ID0].supply
      s1 == entries[ID1].supply
      reward == Reward(height)
      share == [r \in Rune |-> IF r = ID0 THEN RewardShare0(s0, s1, reward)
                                          ELSE RewardShare1(s0, s1, reward)]
  IN  IF reward = 0
      THEN entries
      ELSE [r \in Rune |-> [supply |-> entries[r].supply + share[r],
                            burned |-> entries[r].burned + share[r],
                            mints  |-> entries[r].mints + 1]]

\* A new RuneUpdater, and update_supply.
BeginBlock ==
  /\ pc = "idle"
  /\ BlockAllowed
  /\ pc' = "block"
  /\ require' = TRUE
  /\ first' = TRUE
  /\ minters' = {}
  /\ lineage' = {}
  /\ entries' = Issued
  /\ UNCHANGED <<height, balances, lastOutpoint, lastValue, burned, tx,
                 pending, cursor, allocation, conversion, utxos, nextTxid>>

\* Mutant: the map of burned amounts is not emptied.
BurnedKept ==
  /\ entries' = [r \in Rune |-> [entries[r] EXCEPT !.burned = @ + burned[r]]]
  /\ burned' = burned
\* update_burned.
UpdateBurned ==
  /\ entries' = [r \in Rune |-> [entries[r] EXCEPT !.burned = @ + burned[r]]]
  /\ burned' = Zero

\* update_burned, then the header is stored and the height advances.
EndBlock ==
  /\ pc = "block"
  /\ ~first
  /\ pc' = "idle"
  /\ height' = height + 1
  /\ UpdateBurned
  /\ UNCHANGED <<balances, lastOutpoint, lastValue, require, tx, pending,
                 cursor, allocation, conversion, chain, history>>

(***************************************************************************)
(* Consensus on what a transaction of this block may spend (external): the *)
(* outputs the indexer knows something about, the mint script              *)
(* OP_1 OP_CHECKSEQUENCEVERIFY only from the next block on, a coinbase     *)
(* output once it is mature.  Inputs outside this set hold no runes and    *)
(* are left out.                                                           *)
(***************************************************************************)
Spendable ==
  {u \in utxos :
     /\ u.at \in DOMAIN balances \/ \E c \in StateChange : lastOutpoint[c] = u.at
     /\ u.script = "mint" => u.height < height
     /\ u.coinbase => u.height + CoinbaseMaturity <= height}

InputSets == {S \in SUBSET Spendable : Cardinality(S) <= MaxInputs}

\* The head of the loop over the block's transactions, and the declarations of
\* index_runes.
Take(txid, t, spent) ==
  /\ pc = "block"
  /\ t.coinbase = first
  /\ t.coinbase => spent = {}
  /\ pc' = "inputs"
  /\ tx' = [txid |-> txid, inputs |-> {u.at : u \in spent},
            coinbase |-> t.coinbase, rbf |-> t.rbf, outputs |-> t.outputs,
            artifact |-> t.artifact]
  /\ pending' = {u.at : u \in spent}
  /\ cursor' = 1
  /\ allocated' = [v \in 1..Len(t.outputs) |-> Zero]
  /\ allocatedConversion' = [v \in 1..Len(t.outputs) |-> Zero]
  /\ utxos' = (utxos \ spent) \cup
              {[at |-> [txid |-> txid, vout |-> v],
                script |-> t.outputs[v].script, value |-> t.outputs[v].value,
                height |-> height, coinbase |-> t.coinbase] :
                 v \in {w \in 1..Len(t.outputs) :
                          t.outputs[w].script # "op_return"}}
  /\ first' = FALSE
  /\ lineage' = IF \E u \in spent : u.at.txid \in lineage
                THEN lineage \cup {txid} ELSE lineage
  /\ UNCHANGED <<height, tables, burned, require, unallocated, entered,
                 converted, txBurned, lastId, inputId, minters>>

\* The next transaction of the block is given the next number.
TakeTransaction(t, spent) ==
  /\ Take(nextTxid, t, spent)
  /\ nextTxid' = nextTxid + 1

-----------------------------------------------------------------------------
(* index_runes, up to the edicts. *)

\* OUTPOINT_TO_RUNE_BALANCES without one row.
WithoutRow(o) == [p \in DOMAIN balances \ {o} |-> balances[p]]

\* unallocated: remove the balances of one input and add them up.
TakeInput(o) ==
  /\ pc = "inputs"
  /\ o \in pending
  /\ pending' = pending \ {o}
  /\ IF o \in DOMAIN balances
     THEN /\ unallocated' = [r \in Rune |-> unallocated[r] + balances[o][r]]
          /\ entered' = entered \cup {r \in Rune : balances[o][r] > 0}
          /\ balances' = WithoutRow(o)
     ELSE UNCHANGED <<unallocated, entered, balances>>
  /\ UNCHANGED <<pc, height, entries, lastOutpoint, lastValue, burned, require,
                 tx, cursor, allocated, txBurned, conversion, chain, history>>

\* update_outpoints, first call: the two rows are created.
CreateOutpoints ==
  /\ pc = "inputs"
  /\ pending = {}
  /\ \E c \in StateChange : lastOutpoint[c] = Missing
  /\ pc' = "mint"
  /\ lastOutpoint' = [c \in StateChange |-> Null]
  /\ UNCHANGED <<height, entries, balances, lastValue, burned, require, tx,
                 pending, cursor, allocation, conversion, chain, history>>

\* update_outpoints: a transaction that spends the end of a chain becomes its
\* end, or breaks it.  With both rows null, and for a coinbase, no input matches.
MoveOutpoints ==
  LET moved(c) == lastOutpoint[c] \in tx.inputs
  IN  /\ pc = "inputs"
      /\ pending = {}
      /\ \A c \in StateChange : lastOutpoint[c] # Missing
      /\ pc' = "mint"
      /\ lastOutpoint' = [c \in StateChange |->
                            IF moved(c) THEN FirstOutpoint(c)
                                        ELSE lastOutpoint[c]]
      /\ lastValue' = [c \in StateChange |->
                         IF moved(c) THEN FirstValue(c) ELSE lastValue[c]]
      /\ UNCHANGED <<height, entries, balances, burned, require, tx, pending,
                     cursor, allocation, conversion, chain, history>>

\* mint: the conditions under which it pays.
StartsMintChain == lastOutpoint["mint"] = Null
\* Mutant: the saved outpoint need not point to this transaction.
MayMintUnchained ==
  /\ tx.artifact.kind # "none"
  /\ tx.rbf
  /\ StartsMintChain => ChainOutputs("mint") # {}
MayMint ==
  /\ tx.artifact.kind # "none"
  /\ tx.rbf
  /\ IF StartsMintChain
     THEN ChainOutputs("mint") # {}
     ELSE lastOutpoint["mint"].txid = tx.txid

\* Mutant: what this block has burned so far is left out.
EarlierPot(r) == entries[r].burned
MintPot(r) == entries[r].burned + burned[r]

Mint ==
  /\ pc = "mint"
  /\ MayMint
  /\ pc' = "edicts"
  /\ unallocated' = [r \in Rune |-> unallocated[r] + MintPot(r)]
  /\ entered' = Rune
  /\ entries' = [r \in Rune |-> [entries[r] EXCEPT !.burned = 0]]
  /\ burned' = Zero
  /\ minters' = minters \cup {tx.txid}
  /\ lastOutpoint' = [lastOutpoint EXCEPT
                        !["mint"] = IF StartsMintChain
                                    THEN FirstOutpoint("mint") ELSE @]
  /\ lastValue' = [lastValue EXCEPT
                     !["mint"] = IF StartsMintChain
                                 THEN FirstValue("mint") ELSE @]
  /\ UNCHANGED <<height, balances, require, tx, pending, cursor, allocated,
                 txBurned, conversion, chain, lineage>>

NoMint ==
  /\ pc = "mint"
  /\ ~MayMint
  /\ pc' = "edicts"
  /\ UNCHANGED <<height, tables, burned, require, tx, pending, cursor,
                 allocation, conversion, chain, history>>

-----------------------------------------------------------------------------
(***************************************************************************)
(* The edict loop.  The effect of one edict: what each output is given out *)
(* of the unallocated balance, what each output wants of a conversion, and *)
(* the amounts by which the balance shrinks and converted grows.           *)
(***************************************************************************)
Smaller(a, b) == IF a <= b THEN a ELSE b
Excess(a, b) == IF a > b THEN a - b ELSE 0
Rank(v, D) == Cardinality({w \in D : w < v})
Nothing == [v \in Vouts |-> 0]

ToEach(e) == e.output = Len(tx.outputs) + 1

\* Mutant: the amount is counted once, however many destinations want it.
UnheldCountedOnce(e) ==
  LET targets == IF ToEach(e) THEN ValidDestinations ELSE {e.output}
  IN  [give |-> Nothing, given |-> 0,
       want |-> [v \in Vouts |-> IF v \in targets THEN e.amount ELSE 0],
       wanted |-> IF targets = {} THEN 0 ELSE e.amount]
\* No entry for the rune: the whole amount is wanted.  For an edict to every
\* destination the total is a product of u128, unchecked in a release build.
UnheldEffect(e) ==
  LET targets == IF ToEach(e) THEN ValidDestinations ELSE {e.output}
  IN  [give |-> Nothing, given |-> 0,
       want |-> [v \in Vouts |-> IF v \in targets THEN e.amount ELSE 0],
       wanted |-> IF ToEach(e)
                  THEN (e.amount * Cardinality(targets)) % LotModulus
                  ELSE e.amount]

\* Mutant: one output too many gets a unit of the remainder.
SplitOffByOne(balance) ==
  LET n == Cardinality(ValidDestinations)
      part(v) == (balance \div n) +
                 (IF Rank(v, ValidDestinations) <= balance % n THEN 1 ELSE 0)
  IN  [give |-> [v \in Vouts |-> IF v \in ValidDestinations THEN part(v)
                                                            ELSE 0],
       given |-> IF n = 0 THEN 0 ELSE balance,
       want |-> Nothing, wanted |-> 0]
\* Amount 0 to every destination: the balance is divided, the remainder goes
\* to the first ones.
SplitEffect(balance) ==
  LET n == Cardinality(ValidDestinations)
      part(v) == (balance \div n) +
                 (IF Rank(v, ValidDestinations) < balance % n THEN 1 ELSE 0)
  IN  [give |-> [v \in Vouts |-> IF v \in ValidDestinations THEN part(v)
                                                            ELSE 0],
       given |-> IF n = 0 THEN 0 ELSE balance,
       want |-> Nothing, wanted |-> 0]

\* A positive amount to every destination: each is given the amount in turn
\* while the balance lasts and wants the rest.
EachEffect(e, balance) ==
  LET before(v) == e.amount * Rank(v, ValidDestinations)
      part(v) == Smaller(e.amount, Excess(balance, before(v)))
      total == e.amount * Cardinality(ValidDestinations)
  IN  [give |-> [v \in Vouts |-> IF v \in ValidDestinations THEN part(v)
                                                            ELSE 0],
       given |-> Smaller(balance, total),
       want |-> [v \in Vouts |-> IF v \in ValidDestinations
                                 THEN e.amount - part(v) ELSE 0],
       wanted |-> Excess(total, balance)]

\* Mutant: the amount is not capped by the balance.
SingleUncapped(e, balance) ==
  LET amount == IF e.amount = 0 THEN balance ELSE e.amount
      excess == Excess(e.amount, balance)
  IN  [give |-> [Nothing EXCEPT ![e.output] = amount], given |-> amount,
       want |-> [Nothing EXCEPT ![e.output] = excess], wanted |-> excess]
\* One output: amount 0 is the whole balance, an excess is wanted.
SingleEffect(e, balance) ==
  LET amount == IF e.amount = 0 THEN balance ELSE Smaller(e.amount, balance)
      excess == Excess(e.amount, balance)
  IN  [give |-> [Nothing EXCEPT ![e.output] = amount], given |-> amount,
       want |-> [Nothing EXCEPT ![e.output] = excess], wanted |-> excess]

Effect(e) ==
  IF e.id \notin entered THEN UnheldEffect(e)
  ELSE IF ~ToEach(e) THEN SingleEffect(e, unallocated[e.id])
  ELSE IF e.amount = 0 THEN SplitEffect(unallocated[e.id])
  ELSE EachEffect(e, unallocated[e.id])

\* Lot additions are checked: expect("lot overflow").
Fits(e, effect) ==
  /\ converted[e.id] + effect.wanted < LotModulus
  /\ \A v \in Vouts : allocatedConversion[v][e.id] + effect.want[v] < LotModulus

ApplyEdict ==
  LET e == Edicts[cursor]
      effect == Effect(e)
  IN  /\ pc = "edicts"
      /\ cursor \in DOMAIN Edicts
      /\ Fits(e, effect)
      /\ cursor' = cursor + 1
      /\ lastId' = e.id
      /\ unallocated' = [unallocated EXCEPT ![e.id] = @ - effect.given]
      /\ allocated' = [v \in Vouts |->
                         [allocated[v] EXCEPT ![e.id] = @ + effect.give[v]]]
      /\ converted' = [converted EXCEPT ![e.id] = @ + effect.wanted]
      /\ allocatedConversion' =
           [v \in Vouts |->
              [allocatedConversion[v] EXCEPT ![e.id] = @ + effect.want[v]]]
      /\ UNCHANGED <<pc, height, tables, burned, require, tx, pending, entered,
                     txBurned, inputId, chain, history>>

\* The addition panics: the write transaction is dropped and the thread ends.
OverflowEdict ==
  /\ pc = "edicts"
  /\ cursor \in DOMAIN Edicts
  /\ ~Fits(Edicts[cursor], Effect(Edicts[cursor]))
  /\ pc' = "panicked"
  /\ UNCHANGED <<height, tables, burned, require, tx, pending, cursor,
                 allocation, conversion, chain, history>>

-----------------------------------------------------------------------------
(* index_runes, what the edicts have left over. *)

\* The pointer, or else the first eligible output.
DefaultOutputs ==
  IF tx.artifact.pointer # 0
  THEN {tx.artifact.pointer}
  ELSE IF ValidDestinations = {} THEN {} ELSE {Min(ValidDestinations)}

AfterEdicts ==
  /\ pc = "edicts"
  /\ cursor \notin DOMAIN Edicts
  /\ pc' = "burn"
  /\ cursor' = 1
  /\ unallocated' = Zero
  /\ entered' = {}
  /\ UNCHANGED <<height, tables, burned, require, tx, pending, conversion,
                 chain, history>>

AllocateRest ==
  /\ AfterEdicts
  /\ tx.artifact.kind # "cenotaph"
  /\ DefaultOutputs # {}
  /\ allocated' = [v \in Vouts |->
                     IF v \in DefaultOutputs
                     THEN [r \in Rune |-> allocated[v][r] + unallocated[r]]
                     ELSE allocated[v]]
  /\ UNCHANGED txBurned

\* A cenotaph, or no output to take the rest.
BurnRest ==
  /\ AfterEdicts
  /\ tx.artifact.kind = "cenotaph" \/ DefaultOutputs = {}
  /\ txBurned' = [r \in Rune |-> txBurned[r] + unallocated[r]]
  /\ UNCHANGED allocated

\* Allocations to an OP_RETURN output are burned, output by output.
BurnOutput ==
  /\ pc = "burn"
  /\ cursor \in Vouts
  /\ cursor' = cursor + 1
  /\ IF IsOpReturn(cursor)
     THEN /\ txBurned' = [r \in Rune |-> txBurned[r] + allocated[cursor][r]]
          /\ allocated' = [allocated EXCEPT ![cursor] = Zero]
     ELSE UNCHANGED <<txBurned, allocated>>
  /\ UNCHANGED <<pc, height, tables, burned, require, tx, pending, unallocated,
                 entered, conversion, chain, history>>

-----------------------------------------------------------------------------
(* index_runes, the conversion. *)

\* The rune burned, where more of the other one is wanted than was allocated.
Convertible(r) == txBurned[r] > 0 /\ converted[Other(r)] > 0
ConversionInput ==
  IF Convertible(ID0) THEN ID0 ELSE IF Convertible(ID1) THEN ID1 ELSE NoRune

DetectConversion ==
  /\ pc = "burn"
  /\ cursor \notin Vouts
  /\ cursor' = 1
  /\ inputId' = IF lastId = NoRune THEN NoRune ELSE ConversionInput
  /\ pc' = IF inputId' = NoRune THEN "store" ELSE "convert"
  /\ UNCHANGED <<height, tables, burned, require, tx, pending, allocation,
                 converted, allocatedConversion, lastId, chain, history>>

\* validate_rbf_and_conversion_outpoint.
StartsConversionChain == require /\ lastOutpoint["convert"] = Null
\* Mutant: the saved outpoint need not point to this transaction.
ConnectedToAny ==
  /\ tx.rbf
  /\ \/ ~require
     \/ StartsConversionChain /\ ChainOutputs("convert") # {}
     \/ lastOutpoint["convert"] # Null
Connected ==
  /\ tx.rbf
  /\ \/ ~require
     \/ StartsConversionChain /\ ChainOutputs("convert") # {}
     \/ lastOutpoint["convert"].txid = tx.txid

\* The rows and the flag it writes when it accepts.
ConnectConversion ==
  /\ lineage' = {tx.txid}
  /\ lastOutpoint' = [lastOutpoint EXCEPT
                        !["convert"] = IF StartsConversionChain
                                       THEN FirstOutpoint("convert") ELSE @]
  /\ lastValue' = [lastValue EXCEPT
                     !["convert"] = IF StartsConversionChain
                                    THEN FirstValue("convert") ELSE @]
  /\ require' = (require /\ ~StartsConversionChain)

SupplyIn == entries[inputId].supply
SupplyOut == entries[Other(inputId)].supply
ExactInput == lastId = Other(inputId)

WantedOut == converted[Other(inputId)]

\* The amounts converted, and the checks that refuse them.
AmountIn ==
  IF ExactInput THEN txBurned[inputId]
                ELSE WrappedCosts(LotModulus, SupplyIn, SupplyOut, WantedOut)
\* Mutant: the output is rounded up.
AmountOutRoundedUp ==
  IF ExactInput
  THEN WrappedYields(LotModulus, SupplyIn, SupplyOut, txBurned[inputId]) + 1
  ELSE WantedOut
AmountOut ==
  IF ExactInput
  THEN WrappedYields(LotModulus, SupplyIn, SupplyOut, txBurned[inputId])
  ELSE WantedOut
Acceptable ==
  IF ExactInput
  THEN /\ txBurned[inputId] <= SupplyIn
       /\ WantedOut <= AmountOut
  ELSE /\ WrappedReachable(LotModulus, SupplyIn, SupplyOut, WantedOut)
       /\ AmountIn <= txBurned[inputId]

MoveSupply(amountIn, amountOut) ==
  entries' = [entries EXCEPT
                ![inputId].supply = (@ - amountIn) % LotModulus,
                ![Other(inputId)].supply = (@ + amountOut) % LotModulus]

\* The outputs that want the converted rune; the first one takes the residual.
Takers == {v \in Vouts : allocatedConversion[v][Other(inputId)] > 0}

ConvertExactInput ==
  LET out == Other(inputId)
      residual == AmountOut - converted[out]
      extra(v) == IF v = Min(Takers) THEN residual ELSE 0
  IN  /\ pc = "convert"
      /\ ExactInput
      /\ Acceptable
      /\ Connected
      /\ pc' = "return"
      /\ ConnectConversion
      /\ MoveSupply(AmountIn, AmountOut)
      /\ allocated' = [v \in Vouts |->
                         IF v \in Takers
                         THEN [allocated[v] EXCEPT
                                 ![out] = @ + allocatedConversion[v][out]
                                            + extra(v)]
                         ELSE allocated[v]]
      /\ txBurned' = [txBurned EXCEPT
                        ![inputId] = 0,
                        ![out] = IF Takers = {} THEN @ + residual ELSE @]
      /\ UNCHANGED <<height, balances, burned, tx, pending, cursor, unallocated,
                     entered, conversion, chain, minters>>

ConvertExactOutput ==
  LET out == Other(inputId)
  IN  /\ pc = "convert"
      /\ ~ExactInput
      /\ Acceptable
      /\ Connected
      /\ pc' = "return"
      /\ ConnectConversion
      /\ MoveSupply(AmountIn, AmountOut)
      /\ allocated' = [v \in Vouts |->
                         [allocated[v] EXCEPT
                            ![out] = @ + allocatedConversion[v][out]]]
      /\ txBurned' = [txBurned EXCEPT ![inputId] = @ - AmountIn]
      /\ UNCHANGED <<height, balances, burned, tx, pending, cursor, unallocated,
                     entered, conversion, chain, minters>>

\* convert_exact_input or convert_exact_output returns None.
RefuseConversion ==
  /\ pc = "convert"
  /\ ~(Acceptable /\ Connected)
  /\ pc' = "return"
  /\ UNCHANGED <<height, tables, burned, require, tx, pending, cursor,
                 allocation, conversion, chain, history>>

-----------------------------------------------------------------------------
(* index_runes, input amounts that were not converted. *)

\* Where they go: the output of the last edict of the rune that names one, else
\* the first output that holds the rune, else where the first edict points.
EdictsToOutput == {i \in DOMAIN Edicts : Edicts[i].id = inputId /\ ~ToEach(Edicts[i])}
Holders == {v \in Vouts : allocated[v][inputId] > 0}
\* Mutant: no output is looked for when the first edict names them all.
ReturnToNamed ==
  IF EdictsToOutput # {} THEN {Edicts[Max(EdictsToOutput)].output}
  ELSE IF Holders # {} THEN {Min(Holders)}
  ELSE IF ~ToEach(Edicts[1]) THEN {Edicts[1].output}
  ELSE {}
ReturnOutputs ==
  IF EdictsToOutput # {} THEN {Edicts[Max(EdictsToOutput)].output}
  ELSE IF Holders # {} THEN {Min(Holders)}
  ELSE IF ~ToEach(Edicts[1]) THEN {Edicts[1].output}
  ELSE IF ValidDestinations # {} THEN {Min(ValidDestinations)}
  ELSE {}

ReturnInput ==
  /\ pc = "return"
  /\ pc' = "store"
  /\ IF txBurned[inputId] > 0 /\ ReturnOutputs # {}
     THEN /\ allocated' = [v \in Vouts |->
                             IF v \in ReturnOutputs
                             THEN [allocated[v] EXCEPT
                                     ![inputId] = @ + txBurned[inputId]]
                             ELSE allocated[v]]
          /\ txBurned' = [txBurned EXCEPT ![inputId] = 0]
     ELSE UNCHANGED <<allocated, txBurned>>
  /\ UNCHANGED <<height, tables, burned, require, tx, pending, cursor,
                 unallocated, entered, conversion, chain, history>>

-----------------------------------------------------------------------------
(* index_runes, the results. *)

\* Mutant: an output that was allocated nothing gets an empty row.
StoredIfEmpty(v) == ~IsOpReturn(v)
Stored(v) == allocated[v] # Zero /\ ~IsOpReturn(v)

\* A row of OUTPOINT_TO_RUNE_BALANCES for each output that was allocated runes;
\* what a conversion allocated to an OP_RETURN output is burned.
StoreOutput ==
  LET outpoint == [txid |-> tx.txid, vout |-> cursor]
      stored == Stored(cursor)
  IN  /\ pc = "store"
      /\ cursor \in Vouts
      /\ cursor' = cursor + 1
      /\ balances' = [o \in DOMAIN balances \cup
                            (IF stored THEN {outpoint} ELSE {}) |->
                        IF stored /\ o = outpoint THEN allocated[cursor]
                                                  ELSE balances[o]]
      /\ txBurned' = IF IsOpReturn(cursor)
                     THEN [r \in Rune |-> txBurned[r] + allocated[cursor][r]]
                     ELSE txBurned
      /\ allocated' = [allocated EXCEPT ![cursor] = Zero]
      /\ UNCHANGED <<pc, height, entries, lastOutpoint, lastValue, burned,
                     require, tx, pending, unallocated, entered, conversion,
                     chain, history>>

\* The transaction's burned amounts go to the block's; the locals are dropped.
FinishTransaction ==
  /\ pc = "store"
  /\ cursor \notin Vouts
  /\ pc' = "block"
  /\ burned' = [r \in Rune |-> burned[r] + txBurned[r]]
  /\ tx' = NoTx
  /\ cursor' = 1
  /\ allocated' = << >>
  /\ txBurned' = Zero
  /\ converted' = Zero
  /\ allocatedConversion' = << >>
  /\ lastId' = NoRune
  /\ inputId' = NoRune
  /\ UNCHANGED <<height, tables, require, pending, unallocated, entered, chain, history>>

\* The bound of the model is reached, or the indexer has panicked.
Stopped ==
  /\ \/ pc = "panicked"
     \/ pc = "idle" /\ ~BlockAllowed
  /\ UNCHANGED vars

-----------------------------------------------------------------------------
\* The loop over the transactions, and index_runes.
NextTransaction ==
  /\ nextTxid <= MaxTxs
  /\ \E t \in Templates[nextTxid], spent \in InputSets : TakeTransaction(t, spent)

IndexRunes ==
  \/ \E o \in pending : TakeInput(o)
  \/ CreateOutpoints
  \/ MoveOutpoints
  \/ Mint
  \/ NoMint
  \/ ApplyEdict
  \/ OverflowEdict
  \/ AllocateRest
  \/ BurnRest
  \/ BurnOutput
  \/ DetectConversion
  \/ ConvertExactInput
  \/ ConvertExactOutput
  \/ RefuseConversion
  \/ ReturnInput
  \/ StoreOutput
  \/ FinishTransaction

Next ==
  \/ BeginBlock
  \/ NextTransaction
  \/ IndexRunes
  \/ EndBlock
  \/ Stopped

Spec == Init /\ [][Next]_vars

-----------------------------------------------------------------------------
Phases == {"idle", "block", "inputs", "mint", "edicts", "burn", "convert",
           "return", "store", "panicked"}

TablesType ==
  /\ entries \in [Rune -> Entry]
  /\ DOMAIN balances \subseteq Outpoint
  /\ \A o \in DOMAIN balances : balances[o] \in [Rune -> Nat]
  /\ lastOutpoint \in [StateChange -> Outpoint]
  /\ lastValue \in [StateChange -> Nat]
TransactionType ==
  /\ tx \in Tx
  /\ pending \subseteq Outpoint
  /\ cursor \in Nat
  /\ unallocated \in [Rune -> Nat]
  /\ entered \subseteq Rune
  /\ allocated \in [Vouts -> [Rune -> Nat]]
  /\ converted \in [Rune -> Nat]
  /\ allocatedConversion \in [Vouts -> [Rune -> Nat]]
  /\ txBurned \in [Rune -> Nat]
  /\ lastId \in Rune \cup {NoRune}
  /\ inputId \in Rune \cup {NoRune}
BlockType ==
  /\ pc \in Phases
  /\ height \in Nat
  /\ burned \in [Rune -> Nat]
  /\ require \in BOOLEAN
  /\ utxos \subseteq Unspent
  /\ nextTxid \in Nat \ {0}
  /\ first \in BOOLEAN
  /\ minters \subseteq Nat
  /\ lineage \subseteq Nat

(***************************************************************************)
(* The types of the tables, of the updater's fields and the chain, and of  *)
(* the locals of index_runes: unsigned amounts, which no subtraction takes *)
(* below zero.                                                             *)
(***************************************************************************)
TypeOK == TablesType /\ BlockType /\ TransactionType

\* What the holders have of a rune together.
Total(amounts, holders, r) == MapThenSumSet(LAMBDA h : amounts[h][r], holders)

(***************************************************************************)
(* Conservation: at every point of index_runes, what the outputs hold, what*)
(* the current transaction has in hand and what is burned and waiting for  *)
(* a minter add up to the supply in the rune's entry, conversions included.*)
(* The index tests assert it between blocks (src/index/testing.rs:118).    *)
(***************************************************************************)
Conserved(r) ==
  Total(balances, DOMAIN balances, r) + Total(allocated, Vouts, r)
    + unallocated[r] + txBurned[r] + burned[r] + entries[r].burned
  = entries[r].supply
Conservation == \A r \in Rune : Conserved(r)

(***************************************************************************)
(* The amount the conversion is computed for is the amount its outputs     *)
(* will be given: converted and allocated_conversion are kept in step by   *)
(* every branch of the edict loop.                                         *)
(***************************************************************************)
ConvertedIsAllocated ==
  \A r \in Rune :
    converted[r] = Total(allocatedConversion, Vouts, r)

(***************************************************************************)
(* Runes live on unspent outputs: a row of OUTPOINT_TO_RUNE_BALANCES is for*)
(* an output that is unspent, or that the current transaction is spending  *)
(* and has not reached yet, and it is never empty.                         *)
(***************************************************************************)
BalancesUnspent ==
  \A o \in DOMAIN balances :
    /\ o \in {u.at : u \in utxos} \cup pending
    /\ \E r \in Rune : balances[o][r] > 0

(***************************************************************************)
(* The end of a chain is an unspent output with the chain's script and the *)
(* recorded value: what get_last_outpoint_txout_for_state_change tells the *)
(* wallet to spend next can be spent (update_outpoints, mint and           *)
(* validate_rbf_and_conversion_outpoint).                                  *)
(***************************************************************************)
IsChainEnd(u, c) ==
  u.at = lastOutpoint[c] /\ u.script = c /\ u.value = lastValue[c]
ChainEndUnspent ==
  \A c \in StateChange :
    \/ lastOutpoint[c] \in {Null, Missing}
    \/ pc = "inputs" /\ lastOutpoint[c] \in tx.inputs
    \/ \E u \in utxos : IsChainEnd(u, c)

(***************************************************************************)
(* One transaction mints in a block at most ("the mint transaction",       *)
(* docs/src/bitomc/specification.md:151), although the mint chain can be   *)
(* broken and started again in the same block.                             *)
(***************************************************************************)
OneMintPerBlock == \A a, b \in minters : a = b

(***************************************************************************)
(* Two conversions of a block cannot be reordered while the chain is       *)
(* required: the later one descends from the earlier one, even when other  *)
(* transactions move the end of the chain between the two.                 *)
(***************************************************************************)
Converts == ConvertExactInput \/ ConvertExactOutput
ConversionsDescend ==
  [][Converts /\ lineage # {} /\ require' => tx.txid \in lineage]_vars

(***************************************************************************)
(* An amount burned as the input of a conversion does not stay burned when *)
(* the transaction has an output to give it back to, whether the conversion*)
(* was refused or needed less; only allocations to OP_RETURN outputs do.   *)
(***************************************************************************)
InputReturned ==
  pc = "store" /\ inputId # NoRune /\ ValidDestinations # {} =>
    \/ txBurned[inputId] = 0
    \/ cursor > 1

(***************************************************************************)
(* A transaction changes no supply but by one conversion, and a block no   *)
(* supply but by its reward: the supplies follow SupplyCurve ("converted   *)
(* according to the invariant", docs/src/bitomc/specification.md:206).     *)
(* This holds of conversions whose squares fit in a u128.                  *)
(***************************************************************************)
Supply == INSTANCE SupplyCurve
            WITH supply0 <- entries[ID0].supply, supply1 <- entries[ID1].supply,
                 Rewards <- {Reward(h) : h \in FirstRuneHeight..MaxHeight}
SquaresFit ==
  pc = "convert" => /\ SumOfSquares(SupplyIn, SupplyOut) < LotModulus
                    /\ (SupplyOut + WantedOut) * (SupplyOut + WantedOut) < LotModulus
SupplyFollowsCurve ==
  Supply!Init /\ [][SquaresFit => Supply!Next]_(Supply!supplies)

-----------------------------------------------------------------------------
(* What the repository says of the edicts, and the code does not do. *)

(***************************************************************************)
(* "assert outstanding == supply - burned" of src/index/testing.rs:124,    *)
(* between blocks, for amounts whose product passes the width of a Lot.    *)
(***************************************************************************)
OutstandingIsSupplyMinusBurned ==
  pc = "idle" =>
    \A r \in Rune :
      Total(balances, DOMAIN balances, r) = entries[r].supply - entries[r].burned
=============================================================================
