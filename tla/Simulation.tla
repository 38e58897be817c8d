---------------------------- MODULE Simulation ----------------------------
(***************************************************************************)
(* src/index/updater.rs, Updater::simulate: what a list of transactions    *)
(* would do to the supplies if it were the next block.  The wallet asks it *)
(* before it converts (src/wallet.rs, simulate; convert.rs).  It runs the  *)
(* rune updater in a write transaction that is dropped, and calls          *)
(* update_burned after every transaction where index_block calls it after  *)
(* the last one.                                                           *)
(*                                                                         *)
(* A simulation is between two blocks, as both need the write transaction. *)
(***************************************************************************)
EXTENDS RuneUpdater, SequencesExt

VARIABLES
  mode,     \* "index", or "simulate" while the write transaction of one is open
  saved,    \* what is committed, while a simulation runs
  states,   \* the SupplyState after each transaction of the last simulation
  moved     \* history: what update_burned has moved since the last mint

simulation == <<mode, saved, states, moved>>
allVars == <<vars, simulation>>

Committed == [entries |-> entries, balances |-> balances,
              lastOutpoint |-> lastOutpoint, lastValue |-> lastValue,
              utxos |-> utxos, nextTxid |-> nextTxid]

SimulationInit ==
  /\ Init
  /\ mode = "index"
  /\ saved = Committed
  /\ states = << >>
  /\ moved = Zero

-----------------------------------------------------------------------------
\* get_state.
State == [supply |-> [r \in Rune |-> entries[r].supply],
          burned |-> [r \in Rune |-> entries[r].burned]]

\* Index::simulate begins a write transaction and reads the height;
\* Updater::simulate makes a RuneUpdater and calls update_supply.
BeginSimulation ==
  /\ mode = "index"
  /\ pc = "idle"
  /\ mode' = "simulate"
  /\ pc' = "block"
  /\ saved' = Committed
  /\ states' = << >>
  /\ moved' = Zero
  /\ entries' = Issued
  /\ require' = TRUE
  /\ first' = FALSE
  /\ minters' = {}
  /\ lineage' = {}
  /\ UNCHANGED <<height, balances, lastOutpoint, lastValue, burned, tx,
                 pending, cursor, allocation, conversion, utxos, nextTxid>>

\* The transactions whose SupplyState is still to be pushed.
Unreported == (nextTxid - saved.nextTxid) - Len(states)

\* The head of the loop over the transactions.
SimulateTransaction(t, spent) ==
  /\ mode = "simulate"
  /\ Unreported = 0
  /\ TakeTransaction(t, spent)
  /\ UNCHANGED simulation

\* index_runes.
SimulateRunes ==
  /\ mode = "simulate"
  /\ IndexRunes
  /\ moved' = IF minters' # minters THEN Zero ELSE moved
  /\ UNCHANGED <<mode, saved, states>>

\* update_burned and get_state, after each transaction.
ReportState ==
  /\ mode = "simulate"
  /\ pc = "block"
  /\ Unreported > 0
  /\ UpdateBurned
  /\ moved' = [r \in Rune |-> moved[r] + burned[r]]
  /\ states' = Append(states, State')
  /\ UNCHANGED <<pc, height, balances, lastOutpoint, lastValue, require, tx,
                 pending, cursor, allocation, conversion, chain, history,
                 mode, saved>>

\* The write transaction is dropped, after the last transaction or in a panic,
\* which ends the request.  An empty list reports the state once.
EndSimulation ==
  /\ mode = "simulate"
  /\ pc = "panicked" \/ (pc = "block" /\ Unreported = 0)
  /\ states' = IF states = << >> /\ pc = "block" THEN <<State>> ELSE states
  /\ mode' = "index"
  /\ pc' = "idle"
  /\ entries' = saved.entries
  /\ balances' = saved.balances
  /\ lastOutpoint' = saved.lastOutpoint
  /\ lastValue' = saved.lastValue
  /\ utxos' = saved.utxos
  /\ nextTxid' = saved.nextTxid
  /\ first' = TRUE
  /\ tx' = NoTx
  /\ cursor' = 1
  /\ pending' = {}
  /\ unallocated' = Zero
  /\ entered' = {}
  /\ allocated' = << >>
  /\ txBurned' = Zero
  /\ converted' = Zero
  /\ allocatedConversion' = << >>
  /\ lastId' = NoRune
  /\ inputId' = NoRune
  /\ burned' = Zero
  /\ UNCHANGED <<height, require, minters, lineage, saved, moved>>

\* A block is indexed as before.
IndexStep(step) == mode = "index" /\ step /\ UNCHANGED simulation

\* Any list of transactions the next block could hold may be simulated.
SimulationNext ==
  \/ height <= MaxHeight /\ BeginSimulation
  \/ /\ nextTxid <= MaxTxs
     /\ \E t \in Templates[nextTxid], spent \in InputSets : SimulateTransaction(t, spent)
  \/ SimulateRunes
  \/ ReportState
  \/ EndSimulation
  \/ IndexStep(Next)

SimulationSpec == SimulationInit /\ [][SimulationNext]_allVars

-----------------------------------------------------------------------------
\* What update_burned has moved early, counted with the burned amounts of the block.
BlockEntries == [r \in Rune |-> [entries[r] EXCEPT !.burned = @ - moved[r]]]
BlockBurned == [r \in Rune |-> burned[r] + moved[r]]

(***************************************************************************)
(* A simulation indexes: each of its steps is a step of the rune updater,  *)
(* or none, when what update_burned has moved early is counted with the    *)
(* burned amounts of the block.  A mint among the transactions is paid what*)
(* it would be paid in the block (mint, rune_updater.rs).                  *)
(***************************************************************************)
Block == INSTANCE RuneUpdater WITH entries <- BlockEntries, burned <- BlockBurned
SimulationIndexes ==
  [][mode = "simulate" /\ mode' = "simulate"
       => Block!IndexRunes \/ Block!NextTransaction]_<<Block!vars>>
=============================================================================
