--------------------------- MODULE BlockSupplies ---------------------------
(***************************************************************************)
(* Updater::index_block (src/index/updater.rs) as far as the two supplies  *)
(* go: update_supply issues the reward of a block, its transactions convert*)
(* (SupplyCurve), and what they leave updates the util entry (UtilEntry).  *)
(***************************************************************************)
EXTENDS SupplyCurve, UtilEntry

CONSTANTS
  MaxSupply,   \* bound: no reward is issued once a supply has reached it
  MaxRates,    \* bound: blocks with a rate in a behaviour
  MaxBonds     \* bound: no block is indexed above it

ASSUME BoundAssumption == {MaxSupply, MaxRates, MaxBonds} \subseteq Nat

VARIABLE indexing   \* a block is being indexed

blockVars == <<supplies, util, indexing>>

BlockInit == Init /\ UtilInit /\ indexing = FALSE

\* update_supply; there is no reward after the last halving.
BeginBlock ==
  /\ ~indexing
  /\ bondsPerSat <= MaxBonds
  /\ Len(recorded) < MaxRates
  /\ indexing' = TRUE
  /\ IF supply0 < MaxSupply /\ supply1 < MaxSupply
     THEN \E reward \in Rewards : Issue(reward)
     ELSE UNCHANGED supplies
  /\ UNCHANGED util

\* index_runes of a transaction that converts.
IndexConversion ==
  /\ indexing
  /\ Convert
  /\ UNCHANGED <<util, indexing>>

\* get_state, and the update of the util entry.
EndBlock ==
  /\ indexing
  /\ indexing' = FALSE
  /\ UpdateUtil(supply0, supply1)
  /\ UNCHANGED supplies

BlockNext == BeginBlock \/ IndexConversion \/ EndBlock

BlockSpec == BlockInit /\ [][BlockNext]_blockVars
=============================================================================
