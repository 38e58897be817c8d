---------------------------- MODULE IndexUpdater ----------------------------
(***************************************************************************)
(* Index::update (src/index.rs), Updater (src/index/updater.rs) and Reorg  *)
(* (src/index/reorg.rs): how the index follows the chain of a Bitcoin node *)
(* that may reorganize at any time.  A thread fetches blocks into a bounded*)
(* queue; the updater applies them in a write transaction, commits it after*)
(* a number of blocks, takes savepoints near the tip, and rolls back to the*)
(* oldest one when a block does not continue what is committed.            *)
(*                                                                         *)
(* The tables a block changes are modelled by the sequence of the blocks   *)
(* that have been applied to them: the rune tables are a function of it,   *)
(* and the header table holds the last one applied at each height.  What is*)
(* an Option in the code is a set of at most one block.                    *)
(***************************************************************************)
EXTENDS Integers, Sequences, FiniteSetsExt, SequencesExt

CONSTANTS
  Updaters,         \* concurrent calls of Index::update
  NoUpdater,
  CommitInterval,   \* settings.commit_interval(), 5000 by default
  QueueCap,         \* 32: sync_channel(32) in fetch_blocks_from
  HeightLimit,      \* index.height_limit
  MaxSavepoints,    \* MAX_SAVEPOINTS, 2
  Interval,         \* SAVEPOINT_INTERVAL, 10
  TipDistance,      \* CHAIN_TIP_DISTANCE, 21
  MaxBlocks,        \* bound: blocks on the node's chain
  MaxReorgs,        \* bound: reorganizations in a behaviour
  MaxReorgDepth,    \* bound: blocks one of them replaces
  MaxErrors,        \* bound: failed calls to the node
  MaxCrashes        \* bound: restarts of the process

ASSUME UpdaterAssumption ==
  /\ NoUpdater \notin Updaters
  /\ {CommitInterval, QueueCap, MaxSavepoints, Interval, MaxBlocks}
       \subseteq Nat \ {0}
  /\ {HeightLimit, TipDistance, MaxReorgs, MaxReorgDepth, MaxErrors, MaxCrashes}
       \subseteq Nat

\* A block is known by its height and the branch it was mined on; prev is the
\* branch of its parent (header.prev_blockhash).
Block == [height : Nat, label : Nat, prev : Nat]
Genesis == [height |-> 0, label |-> 0, prev |-> 0]

VARIABLES
  chain,          \* the node's best chain (external)
  reorgs, errors, crashes,   \* what has happened, for the bounds
  \* the database
  db,             \* the blocks applied in the last committed transaction
  savepoints,     \* the persistent savepoints, oldest first
  writer,         \* who holds the write transaction
  wtx,            \* the blocks applied in it
  unrecoverablyReorged,
  \* the locals of each updater
  pc,
  height,         \* Updater.height
  uncommitted,
  closing,        \* the loop over the blocks has ended
  depth,          \* the depth being tried in detect_reorg
  \* its fetch_blocks_from thread
  queue, fetchNext, fetching

node == <<chain, reorgs>>
faults == <<errors, crashes>>
database == <<db, savepoints>>
transaction == <<writer, wtx>>
fetcher == <<queue, fetchNext, fetching>>
locals == <<height, uncommitted, closing, depth>>
vars == <<node, faults, database, transaction, unrecoverablyReorged, pc,
          locals, fetcher>>

-----------------------------------------------------------------------------
\* The header table of a sequence of applied blocks.
AppliedAt(s, h) == {i \in DOMAIN s : s[i].height = h}
HeaderAt(s, h) ==
  IF AppliedAt(s, h) = {} THEN {} ELSE {s[Max(AppliedAt(s, h))]}
BlockCount(s) ==
  IF s = << >> THEN 0 ELSE Max({s[i].height : i \in DOMAIN s}) + 1
LastHeader(s) == IF s = << >> THEN {} ELSE HeaderAt(s, BlockCount(s) - 1)

\* index.block_hash(height.checked_sub(back)) and
\* client.get_block_hash(height.saturating_sub(back)).
IndexBlock(h, back) ==
  IF back <= h THEN HeaderAt(db, h - back) ELSE LastHeader(db)
NodeBlock(h, back) ==
  LET at == IF back <= h THEN h - back ELSE 0
  IN  IF at < Len(chain) THEN {chain[at + 1]} ELSE {}

Init ==
  /\ \E n \in 1..MaxBlocks :
       chain = [i \in 1..n |-> [height |-> i - 1, label |-> 0, prev |-> 0]]
  /\ reorgs = 0
  /\ errors = 0
  /\ crashes = 0
  /\ db = << >>
  /\ savepoints = << >>
  /\ writer = NoUpdater
  /\ wtx = << >>
  /\ unrecoverablyReorged = FALSE
  /\ pc = [u \in Updaters |-> "idle"]
  /\ height = [u \in Updaters |-> 0]
  /\ uncommitted = [u \in Updaters |-> 0]
  /\ closing = [u \in Updaters |-> FALSE]
  /\ depth = [u \in Updaters |-> 0]
  /\ queue = [u \in Updaters |-> << >>]
  /\ fetchNext = [u \in Updaters |-> 0]
  /\ fetching = [u \in Updaters |-> FALSE]

-----------------------------------------------------------------------------
(* The node (external).  A reorganization replaces the last d blocks by    *)
(* d + 1 that were never on its chain before.                              *)

Tip == chain[Len(chain)]

Mine ==
  /\ Len(chain) < MaxBlocks
  /\ chain' = Append(chain, [height |-> Len(chain), label |-> reorgs,
                             prev |-> Tip.label])
  /\ UNCHANGED <<reorgs, faults, database, transaction, unrecoverablyReorged,
                 pc, locals, fetcher>>

Reorganize(d) ==
  LET kept == Len(chain) - d
      branch == [i \in 1..(d + 1) |->
                   [height |-> kept + i - 1, label |-> reorgs + 1,
                    prev |-> IF i = 1 THEN chain[kept].label ELSE reorgs + 1]]
  IN  /\ reorgs < MaxReorgs
      /\ kept > 0
      /\ Len(chain) < MaxBlocks
      /\ reorgs' = reorgs + 1
      /\ chain' = SubSeq(chain, 1, kept) \o branch
      /\ UNCHANGED <<faults, database, transaction, unrecoverablyReorged, pc,
                     locals, fetcher>>

-----------------------------------------------------------------------------
(* fetch_blocks_from: the thread lives until update_index returns.         *)

Receiving(u) == pc[u] \in {"indexing", "commit", "savepoint", "delete",
                           "create", "resume"}

Fetch(u) ==
  /\ Receiving(u)
  /\ fetching[u]
  /\ fetchNext[u] < HeightLimit
  /\ fetchNext[u] < Len(chain)
  /\ Len(queue[u]) < QueueCap
  /\ queue' = [queue EXCEPT ![u] = Append(@, chain[fetchNext[u] + 1])]
  /\ fetchNext' = [fetchNext EXCEPT ![u] = @ + 1]
  /\ UNCHANGED <<node, faults, database, transaction, unrecoverablyReorged, pc,
                 locals, fetching>>

\* The height limit, or a height the node does not have.
FetchEnd(u) ==
  /\ Receiving(u)
  /\ fetching[u]
  /\ fetchNext[u] >= HeightLimit \/ fetchNext[u] >= Len(chain)
  /\ fetching' = [fetching EXCEPT ![u] = FALSE]
  /\ UNCHANGED <<node, faults, database, transaction, unrecoverablyReorged, pc,
                 locals, queue, fetchNext>>

\* get_block_with_retries gives up.
FetchError(u) ==
  /\ Receiving(u)
  /\ fetching[u]
  /\ errors < MaxErrors
  /\ errors' = errors + 1
  /\ fetching' = [fetching EXCEPT ![u] = FALSE]
  /\ UNCHANGED <<node, crashes, database, transaction, unrecoverablyReorged, pc,
                 locals, queue, fetchNext>>

-----------------------------------------------------------------------------
(* Index::update and Updater::update_index.                                *)

\* update_index of u returns: what it holds is dropped.
Drop(u) ==
  /\ queue' = [queue EXCEPT ![u] = << >>]
  /\ fetchNext' = [fetchNext EXCEPT ![u] = 0]
  /\ fetching' = [fetching EXCEPT ![u] = FALSE]
  /\ height' = [height EXCEPT ![u] = 0]
  /\ uncommitted' = [uncommitted EXCEPT ![u] = 0]
  /\ closing' = [closing EXCEPT ![u] = FALSE]
  /\ depth' = [depth EXCEPT ![u] = 0]

Goto(u, phase) == pc' = [pc EXCEPT ![u] = phase]

\* begin_write and the head of update_index.
BeginUpdate(u) ==
  /\ pc[u] = "idle"
  /\ writer = NoUpdater
  /\ Goto(u, "indexing")
  /\ writer' = u
  /\ wtx' = db
  /\ height' = [height EXCEPT ![u] = BlockCount(db)]
  /\ fetchNext' = [fetchNext EXCEPT ![u] = BlockCount(db)]
  /\ fetching' = [fetching EXCEPT ![u] = TRUE]
  /\ UNCHANGED <<node, faults, database, unrecoverablyReorged, uncommitted,
                 closing, depth, queue>>

\* Mutants: the block is compared with what the node has now; its own hash, and
\* not that of its parent, is compared.
NodeContinues(u) ==
  \A b \in NodeBlock(height[u], 1) : b.label = Head(queue[u]).prev
SameBranch(u) ==
  \A b \in IndexBlock(height[u], 1) : b.label = Head(queue[u]).label
\* detect_reorg, its first match: the block continues what is committed, or
\* nothing is committed below it.
Continues(u) ==
  \A b \in IndexBlock(height[u], 1) : b.label = Head(queue[u]).prev

\* index_block of a block that continues, and the count of the loop.
ApplyBlock(u) ==
  LET batch == uncommitted[u] + 1
  IN  /\ pc[u] = "indexing"
      /\ queue[u] # << >>
      /\ Continues(u)
      /\ Goto(u, IF batch = CommitInterval THEN "commit" ELSE "indexing")
      /\ wtx' = Append(wtx, [Head(queue[u]) EXCEPT !.height = height[u]])
      /\ height' = [height EXCEPT ![u] = @ + 1]
      /\ uncommitted' = [uncommitted EXCEPT
                           ![u] = IF batch = CommitInterval THEN 0 ELSE batch]
      /\ queue' = [queue EXCEPT ![u] = Tail(@)]
      /\ UNCHANGED <<node, faults, database, writer, unrecoverablyReorged,
                     closing, depth, fetchNext, fetching>>

\* A block that does not: its depth is looked for.
BeginDetect(u) ==
  /\ pc[u] = "indexing"
  /\ queue[u] # << >>
  /\ ~Continues(u)
  /\ Goto(u, "detect")
  /\ depth' = [depth EXCEPT ![u] = 1]
  /\ UNCHANGED <<node, faults, database, transaction, unrecoverablyReorged,
                 height, uncommitted, closing, fetcher>>

\* Mutant: every reorg within the intervals counts, wherever the last savepoint is.
WholeIntervals(u) == MaxSavepoints * Interval
MaxRecoverableDepth(u) ==
  (MaxSavepoints - 1) * Interval + (height[u] % Interval)

\* One pass of the loop over the depths, each with a call to the node.
AgreesAtDepth(u) == IndexBlock(height[u], depth[u]) = NodeBlock(height[u], depth[u])

DetectDeeper(u) ==
  /\ pc[u] = "detect"
  /\ depth[u] < MaxRecoverableDepth(u)
  /\ ~AgreesAtDepth(u)
  /\ depth' = [depth EXCEPT ![u] = @ + 1]
  /\ UNCHANGED <<node, faults, database, transaction, unrecoverablyReorged, pc,
                 height, uncommitted, closing, fetcher>>

\* Error::Recoverable: the write transaction is dropped.
DetectRecoverable(u) ==
  /\ pc[u] = "detect"
  /\ depth[u] < MaxRecoverableDepth(u)
  /\ AgreesAtDepth(u)
  /\ Goto(u, "rollback")
  /\ Drop(u)
  /\ writer' = NoUpdater
  /\ wtx' = << >>
  /\ UNCHANGED <<node, faults, database, unrecoverablyReorged>>

\* Error::Unrecoverable: update sets the flag and returns the error.
DetectUnrecoverable(u) ==
  /\ pc[u] = "detect"
  /\ depth[u] >= MaxRecoverableDepth(u)
  /\ Goto(u, "idle")
  /\ Drop(u)
  /\ writer' = NoUpdater
  /\ wtx' = << >>
  /\ unrecoverablyReorged' = TRUE
  /\ UNCHANGED <<node, faults, database>>

\* The queue is closed: the last batch is committed, if there is one.
Finish(u) ==
  /\ pc[u] = "indexing"
  /\ queue[u] = << >>
  /\ ~fetching[u]
  /\ IF uncommitted[u] > 0
     THEN /\ Goto(u, "commit")
          /\ closing' = [closing EXCEPT ![u] = TRUE]
          /\ UNCHANGED <<transaction, height, uncommitted, depth, fetcher>>
     ELSE /\ Goto(u, "idle")
          /\ Drop(u)
          /\ writer' = NoUpdater
          /\ wtx' = << >>
  /\ UNCHANGED <<node, faults, database, unrecoverablyReorged>>

Commit(u) ==
  /\ pc[u] = "commit"
  /\ Goto(u, "savepoint")
  /\ db' = wtx
  /\ writer' = NoUpdater
  /\ wtx' = << >>
  /\ UNCHANGED <<node, faults, savepoints, unrecoverablyReorged, locals, fetcher>>

\* Mutant: the height is not compared.
NobodyElse(u) == TRUE
\* begin_write after a commit.
SameHeight(u) == BlockCount(db) = height[u]

ResumeUpdate(u) ==
  /\ pc[u] = "resume"
  /\ writer = NoUpdater
  /\ SameHeight(u)
  /\ Goto(u, "indexing")
  /\ writer' = u
  /\ wtx' = db
  /\ UNCHANGED <<node, faults, database, unrecoverablyReorged, locals, fetcher>>

\* Another update has run in between.
YieldUpdate(u) ==
  /\ pc[u] = "resume"
  /\ writer = NoUpdater
  /\ ~SameHeight(u)
  /\ Goto(u, "idle")
  /\ Drop(u)
  /\ UNCHANGED <<node, faults, database, transaction, unrecoverablyReorged>>

-----------------------------------------------------------------------------
(* Reorg::update_savepoints and Reorg::handle_reorg.                       *)

\* headers of get_blockchain_info counts from 0, Updater.height from 1.
SavepointDue(u) ==
  /\ height[u] < Interval \/ height[u] % Interval = 0
  /\ (Len(chain) - 1) - height[u] <= TipDistance

AfterSavepoint(u) ==
  IF closing[u]
  THEN Goto(u, "idle") /\ Drop(u)
  ELSE Goto(u, "resume") /\ UNCHANGED <<locals, fetcher>>

SkipSavepoint(u) ==
  /\ pc[u] = "savepoint"
  /\ ~SavepointDue(u)
  /\ AfterSavepoint(u)
  /\ UNCHANGED <<node, faults, database, transaction, unrecoverablyReorged>>

BeginSavepoint(u) ==
  /\ pc[u] = "savepoint"
  /\ SavepointDue(u)
  /\ Goto(u, "delete")
  /\ UNCHANGED <<node, faults, database, transaction, unrecoverablyReorged,
                 locals, fetcher>>

\* Mutant: one savepoint too many is kept.
OneMoreSavepoint ==
  IF Len(savepoints) > MaxSavepoints THEN Tail(savepoints) ELSE savepoints
\* Two write transactions, each begun and committed.
KeptSavepoints ==
  IF Len(savepoints) >= MaxSavepoints THEN Tail(savepoints) ELSE savepoints

DeleteSavepoint(u) ==
  /\ pc[u] = "delete"
  /\ writer = NoUpdater
  /\ Goto(u, "create")
  /\ savepoints' = KeptSavepoints
  /\ UNCHANGED <<node, faults, db, transaction, unrecoverablyReorged, locals,
                 fetcher>>

CreateSavepoint(u) ==
  /\ pc[u] = "create"
  /\ writer = NoUpdater
  /\ savepoints' = Append(savepoints, db)
  /\ AfterSavepoint(u)
  /\ UNCHANGED <<node, faults, db, transaction, unrecoverablyReorged>>

\* Mutant: the newest savepoint is restored.
NewestSavepoint == Len(savepoints)
\* list_persistent_savepoints().min().
OldestSavepoint == 1
\* restore_savepoint deletes the savepoints that are newer (external).
RemainingSavepoints == SubSeq(savepoints, 1, OldestSavepoint)

\* handle_reorg, then the loop of update begins again.
Rollback(u) ==
  /\ pc[u] = "rollback"
  /\ writer = NoUpdater
  /\ savepoints # << >>
  /\ Goto(u, "idle")
  /\ db' = savepoints[OldestSavepoint]
  /\ savepoints' = RemainingSavepoints
  /\ UNCHANGED <<node, faults, transaction, unrecoverablyReorged, locals, fetcher>>

\* min().unwrap() of no savepoints.
RollbackPanics(u) ==
  /\ pc[u] = "rollback"
  /\ writer = NoUpdater
  /\ savepoints = << >>
  /\ Goto(u, "panicked")
  /\ UNCHANGED <<node, faults, database, transaction, unrecoverablyReorged,
                 locals, fetcher>>

-----------------------------------------------------------------------------
\* A call to the node fails in detect_reorg or update_savepoints: update returns
\* the error, and what was committed stays committed.
RpcError(u) ==
  /\ pc[u] \in {"detect", "savepoint"}
  /\ errors < MaxErrors
  /\ errors' = errors + 1
  /\ Goto(u, "idle")
  /\ Drop(u)
  /\ IF writer = u THEN writer' = NoUpdater /\ wtx' = << >>
                   ELSE UNCHANGED transaction
  /\ UNCHANGED <<node, crashes, database, unrecoverablyReorged>>

\* The process stops and starts again: the database is what was committed.
Crash ==
  /\ crashes < MaxCrashes
  /\ crashes' = crashes + 1
  /\ pc' = [u \in Updaters |-> "idle"]
  /\ writer' = NoUpdater
  /\ wtx' = << >>
  /\ unrecoverablyReorged' = FALSE
  /\ height' = [u \in Updaters |-> 0]
  /\ uncommitted' = [u \in Updaters |-> 0]
  /\ closing' = [u \in Updaters |-> FALSE]
  /\ depth' = [u \in Updaters |-> 0]
  /\ queue' = [u \in Updaters |-> << >>]
  /\ fetchNext' = [u \in Updaters |-> 0]
  /\ fetching' = [u \in Updaters |-> FALSE]
  /\ UNCHANGED <<node, errors, database>>

-----------------------------------------------------------------------------
Update(u) ==
  \/ BeginUpdate(u)
  \/ ApplyBlock(u)
  \/ BeginDetect(u)
  \/ DetectDeeper(u)
  \/ DetectRecoverable(u)
  \/ DetectUnrecoverable(u)
  \/ Finish(u)
  \/ Commit(u)
  \/ ResumeUpdate(u)
  \/ YieldUpdate(u)
  \/ SkipSavepoint(u)
  \/ BeginSavepoint(u)
  \/ DeleteSavepoint(u)
  \/ CreateSavepoint(u)
  \/ Rollback(u)
  \/ RollbackPanics(u)

FetchThread(u) == Fetch(u) \/ FetchEnd(u)

Next ==
  \/ Mine
  \/ \E d \in 1..MaxReorgDepth : Reorganize(d)
  \/ \E u \in Updaters : Update(u) \/ FetchThread(u) \/ FetchError(u) \/ RpcError(u)
  \/ Crash

Spec == Init /\ [][Next]_vars

\* The server's index thread calls update again and again, and neither it nor the
\* thread that fetches for it stops for good.
FairSpec ==
  /\ Spec
  /\ \A u \in Updaters : WF_vars(Update(u)) /\ WF_vars(FetchThread(u))

-----------------------------------------------------------------------------
Phases == {"idle", "indexing", "detect", "rollback", "commit", "savepoint",
           "delete", "create", "resume", "panicked"}

(***************************************************************************)
(* The types; there are never more than MAX_SAVEPOINTS savepoints.         *)
(***************************************************************************)
TypeOK ==
  /\ chain \in Seq(Block)
  /\ reorgs \in Nat /\ errors \in Nat /\ crashes \in Nat
  /\ db \in Seq(Block)
  /\ savepoints \in Seq(Seq(Block))
  /\ Len(savepoints) <= MaxSavepoints
  /\ writer \in Updaters \cup {NoUpdater}
  /\ wtx \in Seq(Block)
  /\ unrecoverablyReorged \in BOOLEAN
  /\ pc \in [Updaters -> Phases]
  /\ height \in [Updaters -> Nat]
  /\ uncommitted \in [Updaters -> Nat]
  /\ closing \in [Updaters -> BOOLEAN]
  /\ depth \in [Updaters -> Nat]
  /\ queue \in [Updaters -> Seq(Block)]
  /\ fetchNext \in [Updaters -> Nat]
  /\ fetching \in [Updaters -> BOOLEAN]

(***************************************************************************)
(* Every block is applied once, in the order of the heights, on top of its *)
(* parent, whatever the node reorganizes while blocks are in the queue and *)
(* whatever another update commits in between (detect_reorg, and the       *)
(* comparison of the heights after a commit).                              *)
(***************************************************************************)
Connected(s) ==
  \A i \in DOMAIN s :
    /\ s[i].height = i - 1
    /\ i > 1 => s[i].prev = s[i - 1].label
ConnectedIndex == Connected(db)

(***************************************************************************)
(* An index that agrees with the node is not rolled back: a fork of the    *)
(* chain, and not a stale block in the queue, is behind every roll back.   *)
(***************************************************************************)
RollbackOnlyOnFork ==
  [][\A u \in Updaters : Rollback(u) => ~IsPrefix(db, chain)]_vars

OldestOnChain == savepoints # << >> /\ IsPrefix(savepoints[1], chain)

(***************************************************************************)
(* A reorg that detect_reorg finds recoverable, the deepest one it accepts *)
(* (MAX_SAVEPOINTS - 1 intervals and the blocks since the last) included,  *)
(* has forked above the oldest savepoint: rolling back to it gets the index*)
(* on the node's chain again.  This holds of the first reorg, when nothing *)
(* has failed before it and the node is near enough to the index for a     *)
(* savepoint to have been taken at the lowest height the depth counts on,  *)
(* above the first MAX_SAVEPOINTS intervals: below them a savepoint is     *)
(* taken at every block (height < SAVEPOINT_INTERVAL), and the oldest one  *)
(* is newer than the depth counts on.                                      *)
(***************************************************************************)
LowestCounted(u) == (height[u] \div Interval - (MaxSavepoints - 1)) * Interval
Undisturbed(u) ==
  /\ reorgs = 1 /\ errors = 0 /\ crashes = 0
  /\ MaxSavepoints * Interval <= height[u]
  /\ (Len(chain) - 1) - LowestCounted(u) <= TipDistance
FirstReorgIsRecoverable ==
  [][\A u \in Updaters :
       DetectRecoverable(u) /\ Undisturbed(u) => OldestOnChain]_vars

(***************************************************************************)
(* The index ends up with the node's chain, as long as the oldest savepoint*)
(* remains on that chain and no reorg is found unrecoverable.              *)
(***************************************************************************)
IndexCatchesUp ==
  <>[](OldestOnChain /\ ~unrecoverablyReorged) => <>[](db = chain)

-----------------------------------------------------------------------------
(* What the repository says of reorgs, and the code does not do.           *)

(***************************************************************************)
(* "Show if a reorg has happened on /status" (CHANGELOG.md:1190): an index *)
(* that is not on the node's chain gets back on it, or the flag of /status *)
(* is set.                                                                 *)
(***************************************************************************)
ForkIsLeftOrShown ==
  ~IsPrefix(db, chain) ~> (IsPrefix(db, chain) \/ unrecoverablyReorged)
=============================================================================
