------------------------- MODULE IndexUpdaterProofs -------------------------
(***************************************************************************)
(* Proofs about IndexUpdater, for every chain, interval, reorganization,   *)
(* failure and restart.                                                    *)
(*                                                                         *)
(* What every number of updaters keeps (Basics) is proved first; then that *)
(* the index is connected when every block is committed (Links); then, of  *)
(* one updater, that savepoints have their room and that only a fork is    *)
(* rolled back (Ages: a reorganization replaces blocks by blocks of a later*)
(* branch, so what was read before it is at most as new as the chain is    *)
(* now); and last that the first reorg found recoverable is (Follows).     *)
(***************************************************************************)
EXTENDS IndexUpdater, SequenceTheorems, TLAPS

\* Where an updater holds the write transaction.
Holding == {"indexing", "detect", "commit"}
\* The blocks of s are those of the heights from 0 on.
Numbered(s) == \A i \in DOMAIN s : s[i].height = i - 1

\* TypeOK without its bound on the savepoints.
Typed ==
  /\ chain \in Seq(Block)
  /\ reorgs \in Nat /\ errors \in Nat /\ crashes \in Nat
  /\ db \in Seq(Block)
  /\ savepoints \in Seq(Seq(Block))
  /\ writer \in Updaters \cup {NoUpdater}
  /\ wtx \in Seq(Block)
  /\ unrecoverablyReorged \in BOOLEAN
  /\ pc \in [Updaters -> Phases]
  /\ height \in [Updaters -> Nat]
  /\ uncommitted \in [Updaters -> Nat]
  /\ closing \in [Updaters -> BOOLEAN]
  /\ depth \in [Updaters -> Nat]
  /\ queue \in [Updaters -> Seq(Block)]
  /\ fetchNext \in [Updaters -> Nat]
  /\ fetching \in [Updaters -> BOOLEAN]

\* The write transaction is held by the updater that is in it.
OneWriter == \A u \in Updaters : pc[u] \in Holding <=> writer = u

\* Every sequence of blocks is numbered, and the writer counts the blocks of wtx.
Heights ==
  /\ chain # << >>
  /\ Numbered(chain)
  /\ Numbered(db)
  /\ \A j \in DOMAIN savepoints : Numbered(savepoints[j])
  /\ Numbered(wtx)
  /\ \A u \in Updaters : writer = u => Len(wtx) = height[u]

\* The oldest savepoint is deleted before the next is created.
Room == \A u \in Updaters : pc[u] = "create" => Len(savepoints) < MaxSavepoints
AtMost == Len(savepoints) <= MaxSavepoints

\* Committed after every block, wtx is db when the next block is compared with db.
Links ==
  /\ Connected(db)
  /\ \A j \in DOMAIN savepoints : Connected(savepoints[j])
  /\ \A u \in Updaters :
       /\ uncommitted[u] = 0
       /\ pc[u] = "indexing" => wtx = db
       /\ pc[u] = "commit" => Connected(wtx)

\* Branches are younger the higher they are.
Aged(s) ==
  /\ \A i \in DOMAIN s : s[i].prev <= s[i].label
  /\ \A i, j \in DOMAIN s : i <= j => s[i].label <= s[j].label
\* Every block on the chain is the child of the one below it.
Parents ==
  /\ \A i \in DOMAIN chain : chain[i].label <= reorgs
  /\ \A i \in 2..Len(chain) : chain[i].prev = chain[i - 1].label
  /\ Aged(chain)

\* Nothing in s is from a later branch than what the node has at its height.
NoNewer(s, c) ==
  /\ Len(s) <= Len(c)
  /\ \A i \in DOMAIN s : s[i].label <= c[i].label
\* The queue q holds the blocks from the height h on, each from a branch no older
\* than its parent was when it was fetched, above the blocks s.
QueueFits(q, h, s, c) ==
  /\ \A i \in DOMAIN q :
       /\ q[i].height = h + i - 1
       /\ h + i <= Len(c)
       /\ q[i].label <= c[h + i].label
       /\ h + i > 1 => q[i].prev <= c[h + i - 1].label
  /\ \A i \in 2..Len(q) : q[i - 1].label <= q[i].prev
  /\ (q # << >> /\ h > 0) => s[h].label <= q[1].prev
\* The last block of s has been replaced on c by one of a later branch.
Forked(s, c) ==
  /\ s # << >>
  /\ Len(s) <= Len(c)
  /\ s[Len(s)].label < c[Len(s)].label

\* What the blocks in the queue of u will be applied to.
Below(u) == IF pc[u] \in Holding THEN wtx ELSE db
\* The queue holds what fetch_blocks_from read from the height of the updater on.
Fetched(u) ==
  /\ height[u] = Len(Below(u))
  /\ fetchNext[u] = height[u] + Len(queue[u])
  /\ QueueFits(queue[u], height[u], Below(u), chain)
InStep(u) ==
  /\ Receiving(u) => Fetched(u)
  /\ ~Receiving(u) /\ pc[u] # "detect" => queue[u] = << >>
  /\ pc[u] = "indexing" => /\ Len(db) <= Len(wtx)
                           /\ Len(wtx) = Len(db) => wtx = db
  /\ pc[u] \in {"detect", "rollback"} => Forked(db, chain)
\* Nothing that is applied, saved or queued is newer than the chain.
Ages ==
  /\ NoNewer(db, chain)
  /\ NoNewer(wtx, chain)
  /\ \A j \in DOMAIN savepoints : NoNewer(savepoints[j], chain)
  /\ \A u \in Updaters : InStep(u)

\* What the header table says of blocks that are numbered from 0: BlockCount is
\* their number, and the header at a height is the block of that height.
LEMMA NumberedCount ==
  ASSUME NEW s \in Seq(Block), Numbered(s)
  PROVE  /\ BlockCount(s) = Len(s)
         /\ LastHeader(s) = IF s = << >> THEN {} ELSE {s[Len(s)]}
         /\ \A h \in Nat : HeaderAt(s, h) = IF h < Len(s) THEN {s[h + 1]} ELSE {}
<1>1. Len(s) \in Nat /\ DOMAIN s = 1..Len(s)
  BY LenProperties
<1>2. BlockCount(s) = Len(s)
  <2>1. CASE s = << >>
    BY <2>1, EmptySeq DEF BlockCount
  <2>2. CASE s # << >>
    <3> DEFINE H == {s[i].height : i \in DOMAIN s}
    <3>1. Len(s) >= 1
      BY <2>2, <1>1, EmptySeq
    <3>2. H = 0..(Len(s) - 1)
      <4>1. ASSUME NEW k \in 0..(Len(s) - 1) PROVE k \in H
        <5>1. k + 1 \in DOMAIN s /\ (k + 1) - 1 = k
          BY <1>1
        <5> QED BY <5>1 DEF Numbered
      <4>2. ASSUME NEW i \in DOMAIN s PROVE s[i].height \in 0..(Len(s) - 1)
        BY <1>1 DEF Numbered
      <4> QED BY <4>1, <4>2
    <3>3. Max(H) = Len(s) - 1
      BY <3>2, <3>1, <1>1 DEF Max
    <3> QED BY <3>3, <2>2, <1>1 DEF BlockCount
  <2> QED BY <2>1, <2>2
<1>3. ASSUME NEW h \in Nat
      PROVE  HeaderAt(s, h) = IF h < Len(s) THEN {s[h + 1]} ELSE {}
  <2>1. AppliedAt(s, h) = IF h < Len(s) THEN {h + 1} ELSE {}
    BY <1>1 DEF AppliedAt, Numbered
  <2>2. Max({h + 1}) = h + 1
    BY DEF Max
  <2> QED BY <2>1, <2>2 DEF HeaderAt
<1>4. s # << >> => Len(s) - 1 \in Nat
  BY <1>1, EmptySeq
<1>5. s # << >> => HeaderAt(s, Len(s) - 1) = {s[Len(s)]}
  BY <1>3, <1>4, <1>1
<1> QED BY <1>2, <1>3, <1>5 DEF LastHeader

\* The types hold in the initial state.
LEMMA TypedInit == Init => Typed
<1> SUFFICES ASSUME Init PROVE Typed
  OBVIOUS
<1> USE UpdaterAssumption
<1>1. chain \in Seq(Block)
  <2>1. PICK n \in 1..MaxBlocks :
          chain = [i \in 1..n |-> [height |-> i - 1, label |-> 0, prev |-> 0]]
    BY DEF Init
  <2>2. chain \in [1..n -> Block]
    BY <2>1 DEF Block
  <2> QED BY <2>2, <2>1 
<1>2. << >> \in Seq(Block) /\ << >> \in Seq(Seq(Block))
  BY EmptySeq
<1> QED BY <1>1, <1>2 DEF Init, Typed, Phases

\* The types of what Drop resets.
DroppedLocals ==
  /\ height \in [Updaters -> Nat]
  /\ uncommitted \in [Updaters -> Nat]
  /\ closing \in [Updaters -> BOOLEAN]
  /\ depth \in [Updaters -> Nat]
  /\ queue \in [Updaters -> Seq(Block)]
  /\ fetchNext \in [Updaters -> Nat]
  /\ fetching \in [Updaters -> BOOLEAN]

\* What update_index drops leaves the locals of the updaters typed.
LEMMA DropTyped == ASSUME Typed, NEW u \in Updaters, Drop(u) PROVE DroppedLocals'
<1>1. << >> \in Seq(Block)
  BY EmptySeq
<1> QED BY <1>1 DEF Drop, Typed, DroppedLocals

\* Every step keeps the types.
LEMMA TypedStep == Typed /\ Heights /\ [Next]_vars => Typed'
<1> SUFFICES ASSUME Typed, Heights, [Next]_vars PROVE Typed'
  OBVIOUS
<1> USE UpdaterAssumption DEF Typed, node, faults, database, transaction, fetcher, locals, Phases
<1>a. << >> \in Seq(Block)
  BY EmptySeq
<1>b. \A s \in Seq(Block), b \in Block : Append(s, b) \in Seq(Block)
  BY AppendProperties
<1>c. \A i \in DOMAIN chain : chain[i] \in Block
  BY ElementOfSeq, LenProperties
<1>d. BlockCount(db) \in Nat
  BY NumberedCount, LenProperties DEF Heights
<1>e. \A n \in Nat : n + 1 \in Nat
  OBVIOUS
<1>f. savepoints # << >> => Tail(savepoints) \in Seq(Seq(Block))
  BY HeadTailProperties
<1>g. Append(savepoints, db) \in Seq(Seq(Block))
  BY AppendProperties
<1>h. savepoints # << >> => savepoints[1] \in Seq(Block) /\ Len(savepoints) >= 1
  <2>1. Len(savepoints) \in Nat /\ (savepoints # << >> => Len(savepoints) >= 1)
    BY EmptySeq, LenProperties
  <2>2. savepoints # << >> => 1 \in 1..Len(savepoints)
    BY <2>1
  <2> QED BY <2>1, <2>2, ElementOfSeq
<1>i. \A n, l \in Nat : n < l => n + 1 \in 1..l
  OBVIOUS
<1>0. CASE UNCHANGED vars
  BY <1>0 DEF vars
<1>1. CASE Mine
  <2>1. Tip \in Block
    BY <1>c, EmptySeq, LenProperties DEF Heights, Tip
  <2>2. [height |-> Len(chain), label |-> reorgs, prev |-> Tip.label] \in Block
    BY <2>1, LenProperties DEF Block
  <2> QED BY <1>1, <1>b, <2>2 DEF Mine
<1>2. ASSUME NEW d \in 1..MaxReorgDepth, Reorganize(d) PROVE Typed'
  <2> DEFINE kept == Len(chain) - d
             branch == [i \in 1..(d + 1) |->
                   [height |-> kept + i - 1, label |-> reorgs + 1,
                    prev |-> IF i = 1 THEN chain[kept].label ELSE reorgs + 1]]
  <2>1. kept \in 1..Len(chain)
    BY <1>2, LenProperties DEF Reorganize
  <2>2. chain[kept].label \in Nat
    BY <1>c, <2>1, LenProperties DEF Block
  <2>3. ASSUME NEW i \in 1..(d + 1)
        PROVE  [height |-> kept + i - 1, label |-> reorgs + 1,
                prev |-> IF i = 1 THEN chain[kept].label ELSE reorgs + 1] \in Block
    <3>1. kept + i - 1 \in Nat /\ reorgs + 1 \in Nat
      BY <2>1, LenProperties
    <3> HIDE DEF kept
    <3> QED BY <3>1, <2>2 DEF Block
  <2>4. d + 1 \in Nat
    OBVIOUS
  <2>5. branch \in [1..(d + 1) -> Block]
    BY <2>3
  <2>6. branch \in Seq(Block)
    <3>1. Seq(Block) = UNION {[1..n -> Block] : n \in Nat}
      BY SeqDef
    <3> HIDE DEF branch
    <3> QED BY <2>5, <2>4, <3>1, Zenon
  <2>7. \A i \in 1..kept : chain[i] \in Block
    <3>1. kept \in Int /\ kept <= Len(chain) /\ DOMAIN chain = 1..Len(chain) /\ Len(chain) \in Nat
      BY <2>1, LenProperties
    <3> HIDE DEF kept
    <3>2. \A i \in 1..kept : i \in DOMAIN chain
      BY <3>1
    <3> QED BY <1>c, <3>2
  <2>8. SubSeq(chain, 1, kept) \in Seq(Block)
    <3> HIDE DEF kept
    <3> QED BY <2>1, <2>7, SubSeqProperties
  <2>9. chain' \in Seq(Block)
    BY <1>2, <2>6, <2>8, ConcatProperties DEF Reorganize
  <2> QED BY <1>2, <1>e, <2>9 DEF Reorganize
<1>3. ASSUME NEW u \in Updaters, Update(u) PROVE Typed'
  <2>1. CASE BeginUpdate(u)
    BY <2>1, <1>d DEF BeginUpdate, Goto
  <2>2. CASE ApplyBlock(u)
    <3>1. Head(queue[u]) \in Block /\ Tail(queue[u]) \in Seq(Block)
      BY <2>2, HeadTailProperties DEF ApplyBlock
    <3>2. [Head(queue[u]) EXCEPT !.height = height[u]] \in Block
      BY <3>1 DEF Block
    <3> QED BY <2>2, <3>1, <3>2, <1>b, <1>e DEF ApplyBlock, Goto
  <2>3. CASE BeginDetect(u)
    BY <2>3 DEF BeginDetect, Goto
  <2>4. CASE DetectDeeper(u)
    BY <2>4, <1>e DEF DetectDeeper
  <2>5. CASE DetectRecoverable(u)
    BY <2>5, <1>a DEF DetectRecoverable, Goto, Drop
  <2>6. CASE DetectUnrecoverable(u)
    BY <2>6, <1>a DEF DetectUnrecoverable, Goto, Drop
  <2>7. CASE Finish(u)
    <3>1. CASE uncommitted[u] > 0
      BY <2>7, <3>1, <1>a DEF Finish, Goto, Drop
    <3>2. CASE ~(uncommitted[u] > 0)
      BY <2>7, <3>2, <1>a, DropTyped DEF Finish, Goto, DroppedLocals
    <3> QED BY <3>1, <3>2
  <2>8. CASE Commit(u)
    BY <2>8, <1>a DEF Commit, Goto
  <2>9. CASE ResumeUpdate(u)
    BY <2>9 DEF ResumeUpdate, Goto
  <2>10. CASE YieldUpdate(u)
    BY <2>10, <1>a DEF YieldUpdate, Goto, Drop
  <2>11. CASE SkipSavepoint(u)
    <3>1. CASE closing[u]
      BY <2>11, <3>1, DropTyped DEF SkipSavepoint, AfterSavepoint, Goto,
        DroppedLocals
    <3>2. CASE ~closing[u]
      BY <2>11, <3>2, <1>a DEF SkipSavepoint, AfterSavepoint, Goto, Drop
    <3> QED BY <3>1, <3>2
  <2>12. CASE BeginSavepoint(u)
    BY <2>12 DEF BeginSavepoint, Goto
  <2>13. CASE DeleteSavepoint(u)
    <3>1. KeptSavepoints \in Seq(Seq(Block))
      BY <1>f, EmptySeq DEF KeptSavepoints
    <3> QED BY <2>13, <3>1 DEF DeleteSavepoint, Goto
  <2>14. CASE CreateSavepoint(u)
    <3>1. CASE closing[u]
      BY <2>14, <3>1, <1>g, DropTyped DEF CreateSavepoint, AfterSavepoint, Goto,
        DroppedLocals
    <3>2. CASE ~closing[u]
      BY <2>14, <3>2, <1>a, <1>g DEF CreateSavepoint, AfterSavepoint, Goto, Drop
    <3> QED BY <3>1, <3>2
  <2>15. CASE Rollback(u)
    <3>1. savepoints[1] \in Seq(Block) /\ Len(savepoints) >= 1
      BY <2>15, <1>h DEF Rollback
    <3>2. RemainingSavepoints \in Seq(Seq(Block))
      BY <3>1, LenProperties, SubSeqProperties DEF RemainingSavepoints,
        OldestSavepoint
    <3> QED BY <2>15, <3>1, <3>2 DEF Rollback, Goto, OldestSavepoint
  <2>16. CASE RollbackPanics(u)
    BY <2>16 DEF RollbackPanics, Goto
  <2> QED BY <1>3, <2>1, <2>2, <2>3, <2>4, <2>5, <2>6, <2>7, <2>8, <2>9, <2>10,
       <2>11, <2>12, <2>13, <2>14, <2>15, <2>16 DEF Update
<1>4. ASSUME NEW u \in Updaters, Fetch(u) PROVE Typed'
  <2>1. chain[fetchNext[u] + 1] \in Block
    <3>0. fetchNext[u] \in Nat /\ fetchNext[u] < Len(chain) /\ Len(chain) \in Nat
      BY <1>4, LenProperties DEF Fetch
    <3>1. fetchNext[u] + 1 \in 1..Len(chain)
      BY <3>0, <1>i
    <3> QED BY <3>1, <1>c, LenProperties
  <2> QED BY <1>4, <2>1, <1>b, <1>e DEF Fetch
<1>5. ASSUME NEW u \in Updaters, FetchEnd(u) PROVE Typed'
  BY <1>5 DEF FetchEnd
<1>6. ASSUME NEW u \in Updaters, FetchError(u) PROVE Typed'
  BY <1>6, <1>e DEF FetchError
<1>7. ASSUME NEW u \in Updaters, RpcError(u) PROVE Typed'
  BY <1>7, <1>a, <1>e DEF RpcError, Goto, Drop
<1>8. CASE Crash
  BY <1>8, <1>a, <1>e DEF Crash
<1> QED BY <1>0, <1>1, <1>2, <1>3, <1>4, <1>5, <1>6, <1>7, <1>8 DEF Next, FetchThread

\* A block of the next height keeps a sequence numbered.
LEMMA AppendNumbered ==
  ASSUME NEW s \in Seq(Block), Numbered(s), NEW b \in Block, b.height = Len(s)
  PROVE  Numbered(Append(s, b))
<1> DEFINE t == Append(s, b)
<1>1. t \in Seq(Block) /\ Len(t) = Len(s) + 1 /\ t[Len(s) + 1] = b
      /\ \A i \in 1..Len(s) : t[i] = s[i]
  BY AppendProperties
<1>2. Len(s) \in Nat /\ DOMAIN s = 1..Len(s) /\ DOMAIN t = 1..(Len(s) + 1)
  BY <1>1, LenProperties
<1> HIDE DEF t
<1>3. ASSUME NEW i \in DOMAIN t PROVE t[i].height = i - 1
  <2>1. CASE i \in 1..Len(s)
    BY <2>1, <1>1, <1>2 DEF Numbered
  <2>2. CASE i = Len(s) + 1
    BY <2>2, <1>1, <1>2
  <2> QED BY <2>1, <2>2, <1>2
<1>4. Numbered(t)
  BY <1>3 DEF Numbered
<1> QED BY <1>4 DEF t

\* How a step moves the node's chain: heights stay, branches only get newer.
\* What a step of the node does to its chain.
ChainGrows ==
  /\ chain' # << >>
  /\ Numbered(chain')
  /\ Len(chain) <= Len(chain')
  /\ \A i \in 1..Len(chain) : chain[i].label <= chain'[i].label

\* A block that is mined continues the chain.
LEMMA MineGrows == Typed /\ Heights /\ Parents /\ Mine => ChainGrows /\ Parents'
<1> SUFFICES ASSUME Typed, Heights, Parents, Mine PROVE ChainGrows /\ Parents'
  OBVIOUS
<1> DEFINE b == [height |-> Len(chain), label |-> reorgs, prev |-> Tip.label]
           n == Len(chain)
<1>1. n \in Nat /\ n >= 1 /\ DOMAIN chain = 1..n
  BY LenProperties, EmptySeq DEF Typed, Heights
<1>2. \A i \in 1..n : chain[i] \in Block
  BY <1>1, ElementOfSeq DEF Typed
<1>3. Tip = chain[n] /\ Tip \in Block
  BY <1>1, <1>2 DEF Tip
<1>4. b \in Block /\ b.height = n /\ b.label = reorgs /\ b.prev = chain[n].label
  BY <1>1, <1>3 DEF Block, Typed
<1> HIDE DEF b
<1>5. chain' = Append(chain, b) /\ reorgs' = reorgs
  BY DEF Mine, b, node
<1>6. /\ chain' # << >> /\ chain' \in Seq(Block)
      /\ Len(chain') = n + 1
      /\ \A i \in 1..n : chain'[i] = chain[i]
      /\ chain'[n + 1] = b
  BY <1>4, <1>5, AppendProperties DEF Typed
<1>7. Numbered(chain')
  BY <1>4, <1>5, AppendNumbered DEF Typed, Heights
<1>8. ChainGrows
  <2>1. ASSUME NEW i \in 1..n PROVE chain[i].label <= chain'[i].label
    <3>1. chain[i].label \in Nat
      BY <1>2 DEF Block
    <3> QED BY <3>1, <1>6
  <2> QED BY <1>1, <1>6, <1>7, <2>1 DEF ChainGrows
<1>9. DOMAIN chain' = 1..(n + 1)
  BY <1>6, LenProperties
<1>10. ASSUME NEW i \in DOMAIN chain' PROVE chain'[i].label <= reorgs'
  <2>1. CASE i \in 1..n
    BY <2>1, <1>1, <1>5, <1>6 DEF Parents
  <2>2. CASE i = n + 1
    BY <2>2, <1>4, <1>5, <1>6 DEF Typed
  <2> QED BY <2>1, <2>2, <1>1, <1>9
<1>11. ASSUME NEW i \in 2..Len(chain') PROVE chain'[i].prev = chain'[i - 1].label
  <2>1. CASE i \in 2..n
    <3>1. i \in 1..n /\ i - 1 \in 1..n
      BY <2>1, <1>1
    <3> QED BY <2>1, <3>1, <1>6 DEF Parents
  <2>2. CASE i = n + 1
    <3>1. i - 1 = n /\ n \in 1..n
      BY <2>2, <1>1
    <3> QED BY <2>2, <3>1, <1>4, <1>6
  <2> QED BY <2>1, <2>2, <1>1, <1>6
<1>12. \A i \in DOMAIN chain' : i \in 1..n \/ i = n + 1
  BY <1>1, <1>9
<1>13. ASSUME NEW i \in DOMAIN chain' PROVE chain'[i].prev <= chain'[i].label
  <2>1. CASE i \in 1..n
    BY <2>1, <1>1, <1>6 DEF Parents, Aged
  <2>2. CASE i = n + 1
    <3>1. chain[n].label <= reorgs
      BY <1>1 DEF Parents
    <3> QED BY <2>2, <3>1, <1>4, <1>6
  <2> QED BY <2>1, <2>2, <1>12
<1>14. ASSUME NEW i \in DOMAIN chain', NEW j \in DOMAIN chain', i <= j
       PROVE  chain'[i].label <= chain'[j].label
  <2>1. CASE j \in 1..n
    <3>1. i \in 1..n
      BY <2>1, <1>1, <1>9, <1>14
    <3> QED BY <2>1, <3>1, <1>1, <1>6, <1>14 DEF Parents, Aged
  <2>2. CASE j = n + 1
    <3>1. chain'[j].label = reorgs /\ chain'[i].label <= reorgs
      BY <2>2, <1>4, <1>5, <1>6, <1>10
    <3> QED BY <3>1
  <2> QED BY <2>1, <2>2, <1>12
<1> QED BY <1>8, <1>10, <1>11, <1>13, <1>14 DEF Parents, Aged

\* A reorganization: the new blocks are of a later branch than those they replace,
\* and there are more of them.
LEMMA ReorganizeGrows ==
  ASSUME Typed, Heights, Parents, NEW d \in 1..MaxReorgDepth, Reorganize(d)
  PROVE  ChainGrows /\ Parents'
<1> DEFINE n == Len(chain)
           kept == n - d
           branch == [i \in 1..(d + 1) |->
                   [height |-> kept + i - 1, label |-> reorgs + 1,
                    prev |-> IF i = 1 THEN chain[kept].label ELSE reorgs + 1]]
<1>1. n \in Nat /\ DOMAIN chain = 1..n
  BY LenProperties DEF Typed
<1>2. d \in Nat /\ d >= 1 /\ reorgs \in Nat
  BY UpdaterAssumption DEF Typed
<1>3. kept \in Nat /\ kept >= 1 /\ kept + d = n
  BY <1>1, <1>2 DEF Reorganize
<1>4. chain' = SubSeq(chain, 1, kept) \o branch /\ reorgs' = reorgs + 1
  BY DEF Reorganize
<1>5. \A i \in 1..n : chain[i] \in Block
  BY <1>1, ElementOfSeq DEF Typed
<1>6. \A i \in 1..kept : i \in 1..n
  BY <1>1, <1>3, <1>2
<1>7. chain[kept].label \in Nat
  BY <1>3, <1>5, <1>6 DEF Block
<1> HIDE DEF kept
<1>8. \A i \in 1..(d + 1) :
         /\ branch[i].height = kept + i - 1 /\ branch[i].label = reorgs + 1
         /\ branch[i].prev = IF i = 1 THEN chain[kept].label ELSE reorgs + 1
  OBVIOUS
<1>9. \A i \in 1..(d + 1) : branch[i] \in Block
  <2>1. \A i \in 1..(d + 1) : kept + i - 1 \in Nat
    BY <1>3, <1>2
  <2> QED BY <2>1, <1>2, <1>7 DEF Block
<1>10. branch \in [1..(d + 1) -> Block] /\ d + 1 \in Nat
  BY <1>9, <1>2
<1> HIDE DEF branch
<1>11. branch \in Seq(Block) /\ Len(branch) = d + 1
  BY <1>10
<1>12. /\ SubSeq(chain, 1, kept) \in Seq(Block) /\ Len(SubSeq(chain, 1, kept)) = kept
       /\ \A i \in 1..kept : SubSeq(chain, 1, kept)[i] = chain[i]
  <2>1. \A i \in 1..kept : chain[i] \in Block
    BY <1>5, <1>6
  <2> QED BY <1>3, <2>1, SubSeqProperties
<1>13. /\ chain' \in Seq(Block)
       /\ Len(chain') = n + 1
       /\ \A i \in 1..kept : chain'[i] = chain[i]
       /\ \A i \in 1..(d + 1) : chain'[kept + i] = branch[i]
  <2>1. /\ chain' \in Seq(Block) /\ Len(chain') = kept + (d + 1)
        /\ \A i \in 1..(kept + (d + 1)) :
             chain'[i] = IF i <= kept THEN SubSeq(chain, 1, kept)[i] ELSE branch[i - kept]
    BY <1>4, <1>11, <1>12, ConcatProperties
  <2>2. \A i \in 1..kept : i \in 1..(kept + (d + 1)) /\ i <= kept
    BY <1>2, <1>3
  <2>3. \A i \in 1..(d + 1) :
          kept + i \in 1..(kept + (d + 1)) /\ ~(kept + i <= kept) /\ (kept + i) - kept = i
    BY <1>2, <1>3
  <2> QED BY <2>1, <2>2, <2>3, <1>12, <1>1, <1>2, <1>3
<1>14. DOMAIN chain' = 1..(n + 1)
  BY <1>13, LenProperties
<1>15. \A i \in 1..(n + 1) : i \in 1..kept \/ (i - kept \in 1..(d + 1) /\ kept + (i - kept) = i)
  BY <1>1, <1>2, <1>3
<1>16. ASSUME NEW i \in 1..(n + 1)
       PROVE  /\ i \in 1..kept => chain'[i] = chain[i]
              /\ i \notin 1..kept => /\ chain'[i].height = i - 1
                                     /\ chain'[i].label = reorgs + 1
                                     /\ chain'[i].prev = IF i = kept + 1 THEN chain[kept].label
                                                                         ELSE reorgs + 1
  <2>1. CASE i \in 1..kept
    BY <2>1, <1>13
  <2>2. CASE i \notin 1..kept
    <3>1. chain'[i] = branch[i - kept] /\ i - kept \in 1..(d + 1)
      BY <2>2, <1>15, <1>13
    <3>2. kept + (i - kept) - 1 = i - 1 /\ (i - kept = 1 <=> i = kept + 1)
      BY <1>3
    <3> QED BY <3>1, <3>2, <1>8, <2>2
  <2> QED BY <2>1, <2>2
<1>17. Numbered(chain')
  <2> SUFFICES ASSUME NEW i \in 1..(n + 1) PROVE chain'[i].height = i - 1
    BY <1>14 DEF Numbered
  <2> QED BY <1>16, <1>1, <1>6 DEF Heights, Numbered
<1>18. ASSUME NEW i \in 1..n PROVE chain[i].label <= chain'[i].label
  <2>1. chain[i].label \in Nat /\ chain[i].label <= reorgs /\ i \in 1..(n + 1)
    BY <1>5, <1>1 DEF Block, Parents
  <2>2. chain'[i].label = chain[i].label \/ chain'[i].label = reorgs + 1
    BY <1>16, <2>1
  <2> QED BY <2>1, <2>2, <1>2
<1>19. reorgs' = reorgs + 1
  BY <1>4
<1>20. ASSUME NEW i \in 1..(n + 1) PROVE chain'[i].label <= reorgs'
  <2>1. CASE i \in 1..kept
    <3>1. chain[i].label \in Nat /\ chain[i].label <= reorgs
      BY <2>1, <1>1, <1>5, <1>6 DEF Parents, Block
    <3>2. chain'[i] = chain[i]
      BY <2>1, <1>16
    <3> QED BY <3>1, <3>2, <1>19, <1>2
  <2>2. CASE i \notin 1..kept
    <3>1. chain'[i].label = reorgs + 1
      BY <2>2, <1>16
    <3> QED BY <3>1, <1>19, <1>2
  <2> QED BY <2>1, <2>2
<1>21. ASSUME NEW i \in 2..(n + 1) PROVE chain'[i].prev = chain'[i - 1].label
  <2>1. i \in 1..(n + 1) /\ i - 1 \in 1..(n + 1)
    BY <1>1
  <2>2. CASE i \in 1..kept
    <3>1. i - 1 \in 1..kept /\ i \in 2..Len(chain)
      BY <2>2, <1>3, <1>2
    <3> QED BY <2>1, <2>2, <3>1, <1>16 DEF Parents
  <2>3. CASE i = kept + 1
    <3>1. i - 1 = kept /\ kept \in 1..kept /\ i \notin 1..kept
      BY <2>3, <1>3
    <3> QED BY <2>1, <2>3, <3>1, <1>16
  <2>4. CASE i \notin 1..kept /\ i # kept + 1
    <3>1. i - 1 \notin 1..kept
      BY <2>4, <1>3, <1>1
    <3> QED BY <2>1, <2>4, <3>1, <1>16
  <2> QED BY <2>2, <2>3, <2>4
<1>22. chain' # << >>
  BY <1>13, <1>1, EmptySeq
<1>23. n <= n + 1
  BY <1>1
<1>24. \A i \in 1..n : chain[i].label \in Nat /\ chain[i].label <= reorgs
  BY <1>1, <1>5 DEF Parents, Block
<1>25. ASSUME NEW i \in 1..(n + 1) PROVE chain'[i].prev <= chain'[i].label
  <2>1. CASE i \in 1..kept
    BY <2>1, <1>1, <1>6, <1>16 DEF Parents, Aged
  <2>2. CASE i = kept + 1
    <3>1. kept \in 1..n /\ i \notin 1..kept
      BY <2>2, <1>3, <1>6
    <3>2. chain'[i].prev = chain[kept].label /\ chain'[i].label = reorgs + 1
      BY <3>1, <2>2, <1>16
    <3> QED BY <3>1, <3>2, <1>24, <1>2
  <2>3. CASE i \notin 1..kept /\ i # kept + 1
    <3>1. chain'[i].prev = reorgs + 1 /\ chain'[i].label = reorgs + 1
      BY <2>3, <1>16
    <3> QED BY <3>1, <1>2
  <2> QED BY <2>1, <2>2, <2>3
<1>26. ASSUME NEW i \in 1..(n + 1), NEW j \in 1..(n + 1), i <= j
       PROVE  chain'[i].label <= chain'[j].label
  <2>1. CASE j \in 1..kept
    <3>1. i \in 1..kept
      BY <2>1, <1>26, <1>3
    <3> QED BY <2>1, <3>1, <1>1, <1>6, <1>16, <1>26 DEF Parents, Aged
  <2>2. CASE j \notin 1..kept
    <3>1. chain'[j].label = reorgs + 1
      BY <2>2, <1>16
    <3>2. chain'[i].label <= reorgs + 1
      BY <1>20, <1>19
    <3> QED BY <3>1, <3>2
  <2> QED BY <2>1, <2>2
<1>27. Parents'
  BY <1>13, <1>14, <1>20, <1>21, <1>25, <1>26 DEF Parents, Aged
<1> QED BY <1>13, <1>14, <1>17, <1>18, <1>22, <1>23, <1>27 DEF ChainGrows

\* How a step moves the database and the write transaction.
DatabaseMoves ==
  /\ \/ db' = db
     \/ \E u \in Updaters : Commit(u)
     \/ savepoints # << >> /\ db' = savepoints[1]
  /\ \A j \in DOMAIN savepoints' :
       \/ savepoints'[j] = db
       \/ \E i \in DOMAIN savepoints : savepoints'[j] = savepoints[i]
  /\ \/ wtx' = wtx \/ wtx' = << >> \/ wtx' = db
     \/ \E u \in Updaters : ApplyBlock(u)

\* Savepoints are dropped, kept, or taken of what is committed.
LEMMA SavepointMoves ==
  ASSUME Typed,
         \/ UNCHANGED savepoints
         \/ savepoints' = KeptSavepoints
         \/ savepoints' = Append(savepoints, db)
         \/ savepoints # << >> /\ savepoints' = RemainingSavepoints
  PROVE  \A j \in DOMAIN savepoints' :
           \/ savepoints'[j] = db
           \/ \E i \in DOMAIN savepoints : savepoints'[j] = savepoints[i]
<1> DEFINE n == Len(savepoints)
<1>1. n \in Nat /\ DOMAIN savepoints = 1..n /\ (savepoints # << >> => n >= 1)
  BY LenProperties, EmptySeq DEF Typed
<1>2. CASE UNCHANGED savepoints
  BY <1>2
<1>3. ASSUME savepoints # << >>, savepoints' = Tail(savepoints),
             NEW j \in DOMAIN savepoints'
      PROVE  \E i \in DOMAIN savepoints : savepoints'[j] = savepoints[i]
  <2>1. /\ savepoints' \in Seq(Seq(Block)) /\ Len(savepoints') = n - 1
        /\ \A i \in 1..Len(savepoints') : savepoints'[i] = savepoints[i + 1]
    BY <1>3, HeadTailProperties DEF Typed
  <2>2. j \in 1..Len(savepoints')
    BY <1>3, <2>1, LenProperties
  <2>3. j + 1 \in DOMAIN savepoints
    BY <2>1, <2>2, <1>1
  <2> QED BY <2>1, <2>2, <2>3
<1>4. CASE savepoints' = KeptSavepoints
  <2>1. n >= MaxSavepoints => savepoints # << >>
    BY UpdaterAssumption, EmptySeq
  <2> QED BY <1>2, <1>3, <1>4, <2>1 DEF KeptSavepoints
<1>5. CASE savepoints' = Append(savepoints, db)
  <2>1. /\ savepoints' \in Seq(Seq(Block)) /\ Len(savepoints') = n + 1
        /\ \A i \in 1..n : savepoints'[i] = savepoints[i]
        /\ savepoints'[n + 1] = db
    BY <1>5, AppendProperties DEF Typed
  <2>2. DOMAIN savepoints' = 1..(n + 1)
    BY <2>1, LenProperties
  <2> QED BY <2>1, <2>2, <1>1
<1>6. CASE savepoints # << >> /\ savepoints' = RemainingSavepoints
  <2>1. savepoints' = SubSeq(savepoints, 1, 1)
    BY <1>6 DEF RemainingSavepoints, OldestSavepoint
  <2>2. \A i \in 1..1 : savepoints[i] \in Seq(Block)
    BY <1>1, <1>6, ElementOfSeq DEF Typed
  <2>3. /\ savepoints' \in Seq(Seq(Block)) /\ Len(savepoints') = 1
        /\ savepoints'[1] = savepoints[1]
    BY <2>1, <2>2, SubSeqProperties
  <2>4. DOMAIN savepoints' = 1..1 /\ 1 \in DOMAIN savepoints
    BY <2>3, <1>1, <1>6, LenProperties
  <2> QED BY <2>3, <2>4
<1> QED BY <1>2, <1>4, <1>5, <1>6

\* The two steps of the node.
NodeMoves ==
  /\ \/ Mine
     \/ \E d \in 1..MaxReorgDepth : Reorganize(d)
  /\ UNCHANGED <<faults, database, transaction, unrecoverablyReorged, pc, locals, fetcher>>

\* The chain and the branch count move with the node's steps only.
LEMMA StepKinds ==
  ASSUME [Next]_vars
  PROVE  NodeMoves \/ UNCHANGED <<chain, reorgs>>
<1> USE DEF node, faults, database, transaction, locals, fetcher
<1>1. ASSUME NEW u \in Updaters, Update(u) PROVE UNCHANGED <<chain, reorgs>>
  <2>1. CASE BeginUpdate(u)
    BY <2>1 DEF BeginUpdate
  <2>2. CASE ApplyBlock(u)
    BY <2>2 DEF ApplyBlock
  <2>3. CASE BeginDetect(u)
    BY <2>3 DEF BeginDetect
  <2>4. CASE DetectDeeper(u)
    BY <2>4 DEF DetectDeeper
  <2>5. CASE DetectRecoverable(u)
    BY <2>5 DEF DetectRecoverable
  <2>6. CASE DetectUnrecoverable(u)
    BY <2>6 DEF DetectUnrecoverable
  <2>7. CASE Finish(u)
    BY <2>7 DEF Finish
  <2>8. CASE Commit(u)
    BY <2>8 DEF Commit
  <2>9. CASE ResumeUpdate(u)
    BY <2>9 DEF ResumeUpdate
  <2>10. CASE YieldUpdate(u)
    BY <2>10 DEF YieldUpdate
  <2>11. CASE SkipSavepoint(u)
    BY <2>11 DEF SkipSavepoint
  <2>12. CASE BeginSavepoint(u)
    BY <2>12 DEF BeginSavepoint
  <2>13. CASE DeleteSavepoint(u)
    BY <2>13 DEF DeleteSavepoint
  <2>14. CASE CreateSavepoint(u)
    BY <2>14 DEF CreateSavepoint
  <2>15. CASE Rollback(u)
    BY <2>15 DEF Rollback
  <2>16. CASE RollbackPanics(u)
    BY <2>16 DEF RollbackPanics
  <2> QED BY <1>1, <2>1, <2>2, <2>3, <2>4, <2>5, <2>6, <2>7, <2>8, <2>9, <2>10,
       <2>11, <2>12, <2>13, <2>14, <2>15, <2>16 DEF Update
<1>2. ASSUME NEW u \in Updaters, FetchThread(u) \/ FetchError(u) \/ RpcError(u)
      PROVE  UNCHANGED <<chain, reorgs>>
  BY <1>2 DEF FetchThread, Fetch, FetchEnd, FetchError, RpcError
<1>3. CASE Mine
  BY <1>3 DEF Mine, NodeMoves
<1>4. ASSUME NEW d \in 1..MaxReorgDepth, Reorganize(d) PROVE NodeMoves
  BY <1>4 DEF Reorganize, NodeMoves
<1>5. CASE Crash
  BY <1>5 DEF Crash
<1> QED BY <1>1, <1>2, <1>3, <1>4, <1>5 DEF Next, vars

\* What a step leaves of the chain.
LEMMA NodeStep ==
  ASSUME Typed, Heights, Parents, [Next]_vars
  PROVE  Parents' /\ (UNCHANGED <<chain, reorgs>> \/ (NodeMoves /\ ChainGrows))
<1>1. CASE UNCHANGED <<chain, reorgs>>
  BY <1>1 DEF Parents
<1>2. CASE NodeMoves
  BY <1>2, MineGrows, ReorganizeGrows DEF NodeMoves
<1> QED BY <1>1, <1>2, StepKinds

\* What a step leaves of the database and of the write transaction.
LEMMA DatabaseStep == ASSUME Typed, [Next]_vars PROVE DatabaseMoves
<1> USE DEF faults, database, transaction, DatabaseMoves
<1>0. CASE UNCHANGED vars
  BY <1>0, SavepointMoves DEF vars
<1>1. ASSUME NEW u \in Updaters, Update(u) PROVE DatabaseMoves
  <2>1. CASE BeginUpdate(u)
    BY <2>1, SavepointMoves DEF BeginUpdate
  <2>2. CASE ApplyBlock(u)
    BY <2>2, SavepointMoves DEF ApplyBlock
  <2>3. CASE BeginDetect(u)
    BY <2>3, SavepointMoves DEF BeginDetect
  <2>4. CASE DetectDeeper(u)
    BY <2>4, SavepointMoves DEF DetectDeeper
  <2>5. CASE DetectRecoverable(u)
    BY <2>5, SavepointMoves DEF DetectRecoverable
  <2>6. CASE DetectUnrecoverable(u)
    BY <2>6, SavepointMoves DEF DetectUnrecoverable
  <2>7. CASE Finish(u)
    BY <2>7, SavepointMoves DEF Finish
  <2>8. CASE Commit(u)
    BY <2>8, SavepointMoves DEF Commit
  <2>9. CASE ResumeUpdate(u)
    BY <2>9, SavepointMoves DEF ResumeUpdate
  <2>10. CASE YieldUpdate(u)
    BY <2>10, SavepointMoves DEF YieldUpdate
  <2>11. CASE SkipSavepoint(u)
    BY <2>11, SavepointMoves DEF SkipSavepoint
  <2>12. CASE BeginSavepoint(u)
    BY <2>12, SavepointMoves DEF BeginSavepoint
  <2>13. CASE DeleteSavepoint(u)
    BY <2>13, SavepointMoves DEF DeleteSavepoint
  <2>14. CASE CreateSavepoint(u)
    BY <2>14, SavepointMoves DEF CreateSavepoint
  <2>15. CASE Rollback(u)
    BY <2>15, SavepointMoves DEF Rollback, Goto, OldestSavepoint
  <2>16. CASE RollbackPanics(u)
    BY <2>16, SavepointMoves DEF RollbackPanics
  <2> QED BY <1>1, <2>1, <2>2, <2>3, <2>4, <2>5, <2>6, <2>7, <2>8, <2>9, <2>10,
       <2>11, <2>12, <2>13, <2>14, <2>15, <2>16 DEF Update
<1>2. ASSUME NEW u \in Updaters, FetchThread(u) \/ FetchError(u) PROVE DatabaseMoves
  BY <1>2, SavepointMoves DEF FetchThread, Fetch, FetchEnd, FetchError
<1>3. ASSUME NEW u \in Updaters, RpcError(u) PROVE DatabaseMoves
  BY <1>3, SavepointMoves DEF RpcError
<1>4. CASE Mine
  BY <1>4, SavepointMoves DEF Mine
<1>5. ASSUME NEW d \in 1..MaxReorgDepth, Reorganize(d) PROVE DatabaseMoves
  BY <1>5, SavepointMoves DEF Reorganize
<1>6. CASE Crash
  BY <1>6, SavepointMoves DEF Crash
<1> QED BY <1>0, <1>1, <1>2, <1>3, <1>4, <1>5, <1>6 DEF Next

\* The write transaction has one holder at a time: the one that is in it.
LEMMA OneWriterStep == Typed /\ OneWriter /\ [Next]_vars => OneWriter'
<1> SUFFICES ASSUME Typed, OneWriter, [Next]_vars PROVE OneWriter'
  OBVIOUS
<1>a. pc \in [Updaters -> Phases] /\ NoUpdater \notin Updaters
  BY UpdaterAssumption DEF Typed
<1>b. \A u \in Updaters : writer = u => writer # NoUpdater
  BY <1>a
<1> USE DEF OneWriter, Holding, transaction
<1>0. CASE UNCHANGED <<pc, writer>>
  BY <1>0
<1>1. ASSUME NEW u \in Updaters, Update(u) PROVE OneWriter'
  <2>1. CASE BeginUpdate(u)
    BY <2>1, <1>a, <1>b DEF BeginUpdate, Goto
  <2>2. CASE ApplyBlock(u)
    BY <2>2, <1>a, <1>b DEF ApplyBlock, Goto
  <2>3. CASE BeginDetect(u)
    BY <2>3, <1>a, <1>b DEF BeginDetect, Goto
  <2>4. CASE DetectDeeper(u)
    BY <2>4, <1>a, <1>b DEF DetectDeeper
  <2>5. CASE DetectRecoverable(u)
    BY <2>5, <1>a, <1>b DEF DetectRecoverable, Goto
  <2>6. CASE DetectUnrecoverable(u)
    BY <2>6, <1>a, <1>b DEF DetectUnrecoverable, Goto
  <2>7. CASE Finish(u)
    BY <2>7, <1>a, <1>b DEF Finish, Goto
  <2>8. CASE Commit(u)
    BY <2>8, <1>a, <1>b DEF Commit, Goto
  <2>9. CASE ResumeUpdate(u)
    BY <2>9, <1>a, <1>b DEF ResumeUpdate, Goto
  <2>10. CASE YieldUpdate(u)
    BY <2>10, <1>a, <1>b DEF YieldUpdate, Goto
  <2>11. CASE SkipSavepoint(u)
    BY <2>11, <1>a, <1>b DEF SkipSavepoint, AfterSavepoint, Goto
  <2>12. CASE BeginSavepoint(u)
    BY <2>12, <1>a, <1>b DEF BeginSavepoint, Goto
  <2>13. CASE DeleteSavepoint(u)
    BY <2>13, <1>a, <1>b DEF DeleteSavepoint, Goto
  <2>14. CASE CreateSavepoint(u)
    BY <2>14, <1>a, <1>b DEF CreateSavepoint, AfterSavepoint, Goto
  <2>15. CASE Rollback(u)
    BY <2>15, <1>a, <1>b DEF Rollback, Goto
  <2>16. CASE RollbackPanics(u)
    BY <2>16, <1>a, <1>b DEF RollbackPanics, Goto
  <2> QED BY <1>1, <2>1, <2>2, <2>3, <2>4, <2>5, <2>6, <2>7, <2>8, <2>9, <2>10,
       <2>11, <2>12, <2>13, <2>14, <2>15, <2>16 DEF Update
<1>2. ASSUME NEW u \in Updaters, FetchThread(u) \/ FetchError(u) PROVE OneWriter'
  BY <1>2, <1>0 DEF FetchThread, Fetch, FetchEnd, FetchError
<1>3. ASSUME NEW u \in Updaters, RpcError(u) PROVE OneWriter'
  <2>1. CASE writer = u
    BY <1>3, <2>1, <1>a, <1>b DEF RpcError, Goto
  <2>2. CASE writer # u
    BY <1>3, <2>2, <1>a, <1>b DEF RpcError, Goto
  <2> QED BY <2>1, <2>2
<1>4. CASE Mine \/ (\E d \in 1..MaxReorgDepth : Reorganize(d))
  BY <1>4, <1>0 DEF Mine, Reorganize
<1>5. CASE Crash
  BY <1>5, <1>a DEF Crash
<1>6. CASE UNCHANGED vars
  BY <1>6, <1>0 DEF vars
<1> QED BY <1>1, <1>2, <1>3, <1>4, <1>5, <1>6 DEF Next

\* What ApplyBlock appends.
LEMMA ApplyAppends ==
  ASSUME Typed, Heights, OneWriter, NEW u \in Updaters, ApplyBlock(u)
  PROVE  LET b == [Head(queue[u]) EXCEPT !.height = height[u]] IN
         /\ writer = u /\ writer' = u
         /\ Len(wtx) = height[u]
         /\ queue[u] # << >>
         /\ b \in Block /\ b.height = height[u]
         /\ b.label = Head(queue[u]).label /\ b.prev = Head(queue[u]).prev
         /\ wtx' = Append(wtx, b)
         /\ wtx' \in Seq(Block) /\ Len(wtx') = Len(wtx) + 1
         /\ DOMAIN wtx' = 1..(Len(wtx) + 1)
         /\ \A i \in 1..Len(wtx) : wtx'[i] = wtx[i]
         /\ wtx'[Len(wtx) + 1] = b
<1> DEFINE b == [Head(queue[u]) EXCEPT !.height = height[u]]
<1>1. writer = u /\ writer' = u
  BY DEF ApplyBlock, OneWriter, Holding
<1>2. Len(wtx) = height[u]
  BY <1>1 DEF Heights
<1>3. Head(queue[u]) \in Block /\ queue[u] # << >>
  BY HeadTailProperties DEF ApplyBlock, Typed
<1>4. height[u] \in Nat
  BY DEF Typed
<1>5. /\ b \in Block /\ b.height = height[u]
      /\ b.label = Head(queue[u]).label /\ b.prev = Head(queue[u]).prev
  BY <1>3, <1>4 DEF Block
<1> HIDE DEF b
<1>6. wtx' = Append(wtx, b)
  BY DEF ApplyBlock, b
<1>7. /\ wtx' \in Seq(Block) /\ Len(wtx') = Len(wtx) + 1
      /\ \A i \in 1..Len(wtx) : wtx'[i] = wtx[i]
      /\ wtx'[Len(wtx) + 1] = b
  BY <1>5, <1>6, AppendProperties DEF Typed
<1>8. DOMAIN wtx' = 1..(Len(wtx) + 1)
  BY <1>7, LenProperties
<1> QED BY <1>1, <1>2, <1>3, <1>5, <1>6, <1>7, <1>8 DEF b

\* What the holder of the transaction has counted.
LEMMA WriterHeightStep ==
  ASSUME Typed, Heights, OneWriter, [Next]_vars,
         NEW v \in Updaters, writer' = v
  PROVE  Len(wtx') = height'[v]
<1>a. height \in [Updaters -> Nat] /\ NoUpdater # v
  BY UpdaterAssumption DEF Typed
<1>b. \A w \in Updaters : writer = w => Len(wtx) = height[w]
  BY DEF Heights
<1>0. CASE UNCHANGED <<writer, wtx, height>>
  BY <1>0, <1>b
<1> USE DEF locals, transaction
<1>1. ASSUME NEW u \in Updaters, Update(u) PROVE Len(wtx') = height'[v]
  <2>1. CASE BeginUpdate(u)
    <3>1. v = u /\ wtx' = db /\ height' = [height EXCEPT ![u] = BlockCount(db)]
      BY <2>1 DEF BeginUpdate
    <3>2. BlockCount(db) = Len(db)
      BY NumberedCount DEF Typed, Heights
    <3> QED BY <3>1, <3>2, <1>a
  <2>2. CASE ApplyBlock(u)
    <3>1. Len(wtx') = Len(wtx) + 1 /\ u = v /\ Len(wtx) = height[u]
      BY <2>2, ApplyAppends
    <3>2. height' = [height EXCEPT ![u] = height[u] + 1]
      BY <2>2 DEF ApplyBlock
    <3> QED BY <3>1, <3>2, <1>a
  <2>3. CASE BeginDetect(u)
    BY <2>3, <1>0 DEF BeginDetect
  <2>4. CASE DetectDeeper(u)
    BY <2>4, <1>0 DEF DetectDeeper
  <2>5. CASE DetectRecoverable(u)
    BY <2>5, <1>a DEF DetectRecoverable
  <2>6. CASE DetectUnrecoverable(u)
    BY <2>6, <1>a DEF DetectUnrecoverable
  <2>7. CASE Finish(u)
    BY <2>7, <1>a, <1>0 DEF Finish
  <2>8. CASE Commit(u)
    BY <2>8, <1>a DEF Commit
  <2>9. CASE ResumeUpdate(u)
    <3>1. v = u /\ wtx' = db /\ height' = height /\ BlockCount(db) = height[u]
      BY <2>9 DEF ResumeUpdate, SameHeight
    <3>2. BlockCount(db) = Len(db)
      BY NumberedCount DEF Typed, Heights
    <3> QED BY <3>1, <3>2
  <2>10. CASE YieldUpdate(u)
    <3>1. UNCHANGED <<writer, wtx>> /\ writer # u
      BY <2>10 DEF YieldUpdate, OneWriter, Holding
    <3>2. height' = height \/ height' = [height EXCEPT ![u] = 0]
      BY <2>10 DEF YieldUpdate, Drop
    <3> QED BY <3>1, <3>2, <1>a, <1>b
  <2>11. CASE SkipSavepoint(u)
    <3>1. UNCHANGED <<writer, wtx>> /\ writer # u
      BY <2>11 DEF SkipSavepoint, OneWriter, Holding
    <3>2. height' = height \/ height' = [height EXCEPT ![u] = 0]
      BY <2>11 DEF SkipSavepoint, AfterSavepoint, Drop
    <3> QED BY <3>1, <3>2, <1>a, <1>b
  <2>12. CASE BeginSavepoint(u)
    BY <2>12, <1>0 DEF BeginSavepoint
  <2>13. CASE DeleteSavepoint(u)
    BY <2>13, <1>0 DEF DeleteSavepoint
  <2>14. CASE CreateSavepoint(u)
    <3>1. UNCHANGED <<writer, wtx>> /\ writer # u
      BY <2>14 DEF CreateSavepoint, OneWriter, Holding
    <3>2. height' = height \/ height' = [height EXCEPT ![u] = 0]
      BY <2>14 DEF CreateSavepoint, AfterSavepoint, Drop
    <3> QED BY <3>1, <3>2, <1>a, <1>b
  <2>15. CASE Rollback(u)
    BY <2>15, <1>0 DEF Rollback
  <2>16. CASE RollbackPanics(u)
    BY <2>16, <1>0 DEF RollbackPanics
  <2> QED BY <1>1, <2>1, <2>2, <2>3, <2>4, <2>5, <2>6, <2>7, <2>8, <2>9, <2>10,
       <2>11, <2>12, <2>13, <2>14, <2>15, <2>16 DEF Update
<1>2. ASSUME NEW u \in Updaters, FetchThread(u) \/ FetchError(u) PROVE Len(wtx') = height'[v]
  BY <1>2, <1>0 DEF FetchThread, Fetch, FetchEnd, FetchError
<1>3. ASSUME NEW u \in Updaters, RpcError(u) PROVE Len(wtx') = height'[v]
  <2>1. CASE writer = u
    BY <1>3, <2>1, <1>a DEF RpcError
  <2>2. CASE writer # u
    <3>1. UNCHANGED <<writer, wtx>> /\ height' = [height EXCEPT ![u] = 0]
      BY <1>3, <2>2 DEF RpcError, Drop
    <3> QED BY <3>1, <2>2, <1>a, <1>b
  <2> QED BY <2>1, <2>2
<1>4. CASE Mine \/ (\E d \in 1..MaxReorgDepth : Reorganize(d))
  BY <1>4, <1>0 DEF Mine, Reorganize
<1>5. CASE Crash
  BY <1>5, <1>a DEF Crash
<1>6. CASE UNCHANGED vars
  BY <1>6, <1>0 DEF vars
<1> QED BY <1>1, <1>2, <1>3, <1>4, <1>5, <1>6 DEF Next

\* Every sequence of applied blocks stays numbered, and the holder of the write
\* transaction counts its blocks.
LEMMA HeightsStep ==
  ASSUME Typed, Heights, OneWriter, Parents, [Next]_vars
  PROVE  Heights'
<1>1. chain' # << >> /\ Numbered(chain')
  <2>1. CASE UNCHANGED <<chain, reorgs>>
    BY <2>1 DEF Heights, Numbered
  <2>2. CASE ChainGrows
    BY <2>2 DEF ChainGrows
  <2> QED BY <2>1, <2>2, NodeStep
<1>2. /\ Numbered(db) /\ Numbered(wtx)
      /\ \A j \in DOMAIN savepoints : Numbered(savepoints[j])
      /\ savepoints # << >> => 1 \in DOMAIN savepoints
  <2>1. Len(savepoints) \in Nat /\ DOMAIN savepoints = 1..Len(savepoints)
        /\ (savepoints # << >> => Len(savepoints) >= 1)
    BY LenProperties, EmptySeq DEF Typed
  <2> QED BY <2>1 DEF Heights
<1>3. \A u \in Updaters : Commit(u) => db' = wtx
  BY DEF Commit
<1>4. Numbered(db')
  BY <1>2, <1>3, DatabaseStep DEF DatabaseMoves
<1>5. \A j \in DOMAIN savepoints' : Numbered(savepoints'[j])
  BY <1>2, DatabaseStep DEF DatabaseMoves
<1>6. \A u \in Updaters : ApplyBlock(u) => Numbered(wtx')
  <2> SUFFICES ASSUME NEW u \in Updaters, ApplyBlock(u) PROVE Numbered(wtx')
    OBVIOUS
  <2> DEFINE b == [Head(queue[u]) EXCEPT !.height = height[u]]
  <2>1. b \in Block /\ b.height = Len(wtx) /\ wtx' = Append(wtx, b)
    BY ApplyAppends
  <2> HIDE DEF b
  <2> QED BY <1>2, <2>1, AppendNumbered DEF Typed
<1>7. Numbered(<< >>)
  BY DEF Numbered
<1>8. Numbered(wtx')
  BY <1>2, <1>6, <1>7, DatabaseStep DEF DatabaseMoves
<1> QED BY <1>1, <1>4, <1>5, <1>8, WriterHeightStep DEF Heights

-----------------------------------------------------------------------------
(* Whatever the number of updaters and the interval of the commits.        *)

\* What any number of updaters keeps, whatever they commit at once.
Basics == Typed /\ OneWriter /\ Heights /\ Parents

\* The basics hold in the initial state ...
LEMMA BasicsInit == Init => Basics
<1> SUFFICES ASSUME Init PROVE Basics
  OBVIOUS
<1>1. Typed
  BY TypedInit
<1>2. PICK n \in 1..MaxBlocks :
        chain = [i \in 1..n |-> [height |-> i - 1, label |-> 0, prev |-> 0]]
  BY DEF Init
<1>3. MaxBlocks \in Nat /\ n \in Nat /\ n >= 1
  BY UpdaterAssumption
<1>4. DOMAIN chain = 1..n
  BY <1>2
<1>5. \A i \in 1..n : chain[i].height = i - 1 /\ chain[i].label = 0 /\ chain[i].prev = 0
  BY <1>2
<1>6. Len(chain) = n
  BY <1>1, <1>3, <1>4, LenProperties DEF Typed
<1>7. chain # << >>
  BY <1>6, <1>3, EmptySeq
<1>8. Parents
  <2>1. \A i \in 2..n : i \in 1..n /\ i - 1 \in 1..n
    BY <1>3
  <2>2. reorgs = 0
    BY DEF Init
  <2> QED BY <2>1, <2>2, <1>4, <1>5, <1>6 DEF Parents, Aged
<1>9. db = << >> /\ savepoints = << >> /\ wtx = << >> /\ writer = NoUpdater
      /\ pc = [u \in Updaters |-> "idle"]
  BY DEF Init
<1>10. OneWriter
  BY <1>9, UpdaterAssumption DEF OneWriter, Holding
<1>11. Heights
  <2>1. Numbered(<< >>)
    BY DEF Numbered
  <2> QED BY <1>4, <1>5, <1>7, <1>9, <2>1, UpdaterAssumption DEF Heights, Numbered
<1> QED BY <1>1, <1>8, <1>10, <1>11 DEF Basics

\* ... and every step keeps them.
LEMMA BasicsStep == Basics /\ [Next]_vars => Basics'
BY TypedStep, OneWriterStep, HeightsStep, NodeStep DEF Basics

(***************************************************************************)
(* For any number of updaters, batches and failures: the types, one holder *)
(* of the write transaction, and blocks that are numbered by their heights.*)
(***************************************************************************)
THEOREM BasicsHold == Spec => []Basics
BY BasicsInit, BasicsStep, PTL DEF Spec

-----------------------------------------------------------------------------
(* A commit after every block: what a block is compared with is its parent. *)

\* The header a block is compared with, once something is committed below it.
LEMMA ComparedHeader ==
  ASSUME Basics, NEW u \in Updaters, pc[u] = "indexing"
  PROVE  /\ height[u] = Len(wtx)
         /\ (height[u] = Len(db) /\ db # << >>) => IndexBlock(height[u], 1) = {db[Len(db)]}
         /\ (height[u] = 0 /\ db = << >>) => IndexBlock(height[u], 1) = {}
         /\ height[u] > Len(db) => IndexBlock(height[u], 1) = {}
<1>1. writer = u /\ height[u] = Len(wtx)
  BY DEF Basics, OneWriter, Holding, Heights
<1>2. db \in Seq(Block) /\ Numbered(db) /\ height[u] \in Nat
  BY DEF Basics, Typed, Heights
<1>3. /\ LastHeader(db) = IF db = << >> THEN {} ELSE {db[Len(db)]}
      /\ \A h \in Nat : HeaderAt(db, h) = IF h < Len(db) THEN {db[h + 1]} ELSE {}
  BY <1>2, NumberedCount
<1>4. Len(db) \in Nat /\ (db # << >> => Len(db) >= 1)
  BY <1>2, LenProperties, EmptySeq
<1>5. ASSUME height[u] >= 1 PROVE IndexBlock(height[u], 1) = HeaderAt(db, height[u] - 1) /\ height[u] - 1 \in Nat
  BY <1>5, <1>2 DEF IndexBlock
<1>6. ASSUME height[u] = Len(db), db # << >> PROVE IndexBlock(height[u], 1) = {db[Len(db)]}
  <2>1. height[u] - 1 < Len(db) /\ (height[u] - 1) + 1 = Len(db) /\ height[u] >= 1
    BY <1>6, <1>4
  <2> QED BY <2>1, <1>3, <1>5
<1>7. ASSUME height[u] = 0, db = << >> PROVE IndexBlock(height[u], 1) = {}
  BY <1>7, <1>3 DEF IndexBlock
<1>8. ASSUME height[u] > Len(db) PROVE IndexBlock(height[u], 1) = {}
  <2>1. height[u] >= 1 /\ ~(height[u] - 1 < Len(db))
    BY <1>8, <1>4, <1>2
  <2> QED BY <2>1, <1>3, <1>5
<1> QED BY <1>1, <1>6, <1>7, <1>8

\* A block whose parent is the last one keeps a sequence connected.
LEMMA AppendConnected ==
  ASSUME NEW s \in Seq(Block), Connected(s), NEW b \in Block, b.height = Len(s),
         s # << >> => b.prev = s[Len(s)].label
  PROVE  Connected(Append(s, b))
<1> DEFINE t == Append(s, b)
<1>1. t \in Seq(Block) /\ Len(t) = Len(s) + 1 /\ t[Len(s) + 1] = b
      /\ \A i \in 1..Len(s) : t[i] = s[i]
  BY AppendProperties
<1>2. Len(s) \in Nat /\ DOMAIN s = 1..Len(s) /\ DOMAIN t = 1..(Len(s) + 1)
      /\ (Len(s) >= 1 => s # << >>)
  BY <1>1, LenProperties, EmptySeq
<1> HIDE DEF t
<1>3. ASSUME NEW i \in DOMAIN t
      PROVE  t[i].height = i - 1 /\ (i > 1 => t[i].prev = t[i - 1].label)
  <2>1. CASE i \in 1..Len(s)
    <3>1. i > 1 => i - 1 \in 1..Len(s)
      BY <2>1, <1>2
    <3> QED BY <2>1, <3>1, <1>1, <1>2 DEF Connected
  <2>2. CASE i = Len(s) + 1
    <3>1. i > 1 => i - 1 = Len(s) /\ Len(s) \in 1..Len(s)
      BY <2>2, <1>2
    <3> QED BY <2>2, <3>1, <1>1, <1>2
  <2> QED BY <2>1, <2>2, <1>2
<1>4. Connected(t)
  BY <1>3 DEF Connected
<1> QED BY <1>4 DEF t

\* With a commit after every block, what is applied continues what is committed.
LEMMA ApplyContinues ==
  ASSUME Basics, Links, NEW u \in Updaters, ApplyBlock(u)
  PROVE  /\ wtx = db /\ Len(db) = height[u]
         /\ db # << >> => Head(queue[u]).prev = db[Len(db)].label
<1>1. Len(wtx) = height[u]
  BY ApplyAppends DEF Basics
<1>2. pc[u] = "indexing" /\ Continues(u)
  BY DEF ApplyBlock
<1>3. wtx = db
  BY <1>2 DEF Links
<1>4. db # << >> => \A x \in {db[Len(db)]} : x.label = Head(queue[u]).prev
  BY <1>1, <1>2, <1>3, ComparedHeader DEF Continues
<1> QED BY <1>1, <1>3, <1>4

\* What a step that applies a block leaves is connected.
LEMMA ApplyConnects ==
  ASSUME Basics, Links, NEW u \in Updaters, ApplyBlock(u)
  PROVE  Connected(wtx')
<1> DEFINE b == [Head(queue[u]) EXCEPT !.height = height[u]]
<1>1. /\ b \in Block /\ b.height = Len(wtx) /\ b.prev = Head(queue[u]).prev
      /\ wtx' = Append(wtx, b)
  BY ApplyAppends DEF Basics
<1> HIDE DEF b
<1> QED BY <1>1, ApplyContinues, AppendConnected DEF Links, Basics, Typed

\* The part of Links about the updater v.
Linked(v) ==
  /\ uncommitted[v] = 0
  /\ pc[v] = "indexing" => wtx = db
  /\ pc[v] = "commit" => Connected(wtx)

\* The index and its savepoints stay connected.
LEMMA LinkedStep ==
  ASSUME CommitInterval = 1, Basics, Links, [Next]_vars, NEW v \in Updaters
  PROVE  Linked(v)'
<1>a. /\ pc \in [Updaters -> Phases] /\ uncommitted \in [Updaters -> Nat]
      /\ NoUpdater \notin Updaters
  BY UpdaterAssumption DEF Basics, Typed
<1>b. Linked(v)
  BY DEF Links, Linked
<1>c. \A u \in Updaters : pc[u] \in Holding <=> writer = u
  BY DEF Basics, OneWriter
<1>0. CASE UNCHANGED <<db, wtx, pc, uncommitted>>
  BY <1>0, <1>b DEF Linked, Connected
<1> USE DEF locals, transaction, database, Linked, Holding
<1>1. ASSUME NEW u \in Updaters, Update(u) PROVE Linked(v)'
  <2>1. CASE BeginUpdate(u)
    BY <2>1, <1>a, <1>b, <1>c DEF BeginUpdate, Goto
  <2>2. CASE ApplyBlock(u)
    <3>1. Connected(wtx') /\ uncommitted[u] = 0
      BY <2>2, ApplyConnects DEF Links
    <3>2. pc' = [pc EXCEPT ![u] = "commit"] /\ uncommitted' = [uncommitted EXCEPT ![u] = 0]
      BY <2>2, <3>1 DEF ApplyBlock, Goto
    <3>3. v # u => pc[v] \notin Holding
      BY <2>2, <1>c DEF ApplyBlock
    <3>4. (Connected(wtx))'
      BY <3>1 DEF Connected
    <3> QED BY <3>1, <3>2, <3>3, <3>4, <1>a, <1>b
  <2>3. CASE BeginDetect(u)
    BY <2>3, <1>a, <1>b, <1>c DEF BeginDetect, Goto, Connected
  <2>4. CASE DetectDeeper(u)
    BY <2>4, <1>a, <1>b, <1>c DEF DetectDeeper, Connected
  <2>5. CASE DetectRecoverable(u)
    BY <2>5, <1>a, <1>b, <1>c DEF DetectRecoverable, Goto, Drop
  <2>6. CASE DetectUnrecoverable(u)
    BY <2>6, <1>a, <1>b, <1>c DEF DetectUnrecoverable, Goto, Drop
  <2>7. CASE Finish(u)
    BY <2>7, <1>a, <1>b, <1>c DEF Finish, Goto, Drop
  <2>8. CASE Commit(u)
    BY <2>8, <1>a, <1>b, <1>c DEF Commit, Goto
  <2>9. CASE ResumeUpdate(u)
    BY <2>9, <1>a, <1>b, <1>c DEF ResumeUpdate, Goto
  <2>10. CASE YieldUpdate(u)
    BY <2>10, <1>a, <1>b, <1>c DEF YieldUpdate, Goto, Drop, Connected
  <2>11. CASE SkipSavepoint(u)
    BY <2>11, <1>a, <1>b, <1>c DEF SkipSavepoint, AfterSavepoint, Goto, Drop,
      Connected
  <2>12. CASE BeginSavepoint(u)
    BY <2>12, <1>a, <1>b, <1>c DEF BeginSavepoint, Goto, Connected
  <2>13. CASE DeleteSavepoint(u)
    BY <2>13, <1>a, <1>b, <1>c DEF DeleteSavepoint, Goto, Connected
  <2>14. CASE CreateSavepoint(u)
    BY <2>14, <1>a, <1>b, <1>c DEF CreateSavepoint, AfterSavepoint, Goto, Drop,
      Connected
  <2>15. CASE Rollback(u)
    BY <2>15, <1>a, <1>b, <1>c DEF Rollback, Goto
  <2>16. CASE RollbackPanics(u)
    BY <2>16, <1>a, <1>b, <1>c DEF RollbackPanics, Goto, Connected
  <2> QED BY <1>1, <2>1, <2>2, <2>3, <2>4, <2>5, <2>6, <2>7, <2>8, <2>9, <2>10,
       <2>11, <2>12, <2>13, <2>14, <2>15, <2>16 DEF Update
<1>2. ASSUME NEW u \in Updaters, FetchThread(u) \/ FetchError(u) PROVE Linked(v)'
  BY <1>2, <1>0 DEF FetchThread, Fetch, FetchEnd, FetchError
<1>3. ASSUME NEW u \in Updaters, RpcError(u) PROVE Linked(v)'
  <2>1. CASE writer = u
    BY <1>3, <2>1, <1>a, <1>b, <1>c DEF RpcError, Goto, Drop
  <2>2. CASE writer # u
    BY <1>3, <2>2, <1>a, <1>b, <1>c DEF RpcError, Goto, Drop, Connected
  <2> QED BY <2>1, <2>2
<1>4. CASE Mine \/ (\E d \in 1..MaxReorgDepth : Reorganize(d))
  BY <1>4, <1>0 DEF Mine, Reorganize
<1>5. CASE Crash
  BY <1>5, <1>a DEF Crash
<1>6. CASE UNCHANGED vars
  BY <1>6, <1>0 DEF vars
<1> QED BY <1>1, <1>2, <1>3, <1>4, <1>5, <1>6 DEF Next

\* Every step keeps the links.
LEMMA LinksStep ==
  ASSUME CommitInterval = 1, Basics, Links, [Next]_vars
  PROVE  Links'
<1>1. /\ Connected(db) /\ \A j \in DOMAIN savepoints : Connected(savepoints[j])
      /\ savepoints # << >> => 1 \in DOMAIN savepoints
  <2>1. Len(savepoints) \in Nat /\ DOMAIN savepoints = 1..Len(savepoints)
        /\ (savepoints # << >> => Len(savepoints) >= 1)
    BY LenProperties, EmptySeq DEF Basics, Typed
  <2> QED BY <2>1 DEF Links
<1>2. \A u \in Updaters : Commit(u) => db' = wtx /\ Connected(wtx)
  BY DEF Commit, Links
<1>3. Connected(db') /\ \A j \in DOMAIN savepoints' : Connected(savepoints'[j])
  BY <1>1, <1>2, DatabaseStep DEF DatabaseMoves, Basics
<1> QED BY <1>3, LinkedStep DEF Links, Linked, Connected

\* With a commit after every block, the blocks that the index has applied form a
\* chain: each is the child of the one below it, whatever the node reorganizes
\* while blocks are in the queue and whatever another updater commits or rolls
\* back in between.
THEOREM IndexIsConnected ==
  ASSUME CommitInterval = 1
  PROVE  Spec => []ConnectedIndex
<1>1. Init => Basics /\ Links
  <2> SUFFICES ASSUME Init PROVE Links
    BY BasicsInit
  <2> QED BY DEF Init, Links, Connected
<1>2. Basics /\ Links /\ [Next]_vars => Basics' /\ Links'
  BY BasicsStep, LinksStep
<1>3. Links => ConnectedIndex
  BY DEF Links, ConnectedIndex
<1> QED BY <1>1, <1>2, <1>3, PTL DEF Spec

-----------------------------------------------------------------------------
(* One updater, as in the server. *)

\* At most one call of Index::update at a time.
Alone == \A u, v \in Updaters : u = v

\* There is room for a savepoint when one is created: alone, an updater deletes the
\* oldest before it creates the next.
LEMMA RoomStep ==
  ASSUME Alone, Basics, Room, AtMost, [Next]_vars
  PROVE  Room' /\ AtMost'
<1>a. /\ pc \in [Updaters -> Phases]
      /\ savepoints \in Seq(Seq(Block)) /\ db \in Seq(Block)
      /\ MaxSavepoints \in Nat /\ MaxSavepoints >= 1
      /\ Len(savepoints) \in Nat /\ Len(savepoints) <= MaxSavepoints
  <2>1. Typed
    BY DEF Basics
  <2>2. MaxSavepoints \in Nat /\ MaxSavepoints >= 1
    BY UpdaterAssumption
  <2>3. Len(savepoints) \in Nat
    BY <2>1, LenProperties DEF Typed
  <2> QED BY <2>1, <2>2, <2>3 DEF Typed, AtMost
<1>0. ASSUME UNCHANGED savepoints, \A v \in Updaters : pc'[v] = pc[v] \/ pc'[v] # "create"
      PROVE  Room' /\ AtMost'
  BY <1>0 DEF Room, AtMost
<1> USE DEF locals, transaction, database
<1>1. ASSUME NEW u \in Updaters, Update(u) PROVE Room' /\ AtMost'
  <2>1. CASE BeginUpdate(u)
    BY <2>1, <1>0, <1>a DEF BeginUpdate, Goto
  <2>2. CASE ApplyBlock(u)
    BY <2>2, <1>0, <1>a DEF ApplyBlock, Goto
  <2>3. CASE BeginDetect(u)
    BY <2>3, <1>0, <1>a DEF BeginDetect, Goto
  <2>4. CASE DetectDeeper(u)
    BY <2>4, <1>0, <1>a DEF DetectDeeper
  <2>5. CASE DetectRecoverable(u)
    BY <2>5, <1>0, <1>a DEF DetectRecoverable, Goto
  <2>6. CASE DetectUnrecoverable(u)
    BY <2>6, <1>0, <1>a DEF DetectUnrecoverable, Goto
  <2>7. CASE Finish(u)
    BY <2>7, <1>0, <1>a DEF Finish, Goto
  <2>8. CASE Commit(u)
    BY <2>8, <1>0, <1>a DEF Commit, Goto
  <2>9. CASE ResumeUpdate(u)
    BY <2>9, <1>0, <1>a DEF ResumeUpdate, Goto
  <2>10. CASE YieldUpdate(u)
    BY <2>10, <1>0, <1>a DEF YieldUpdate, Goto
  <2>11. CASE SkipSavepoint(u)
    BY <2>11, <1>0, <1>a DEF SkipSavepoint, AfterSavepoint, Goto
  <2>12. CASE BeginSavepoint(u)
    BY <2>12, <1>0, <1>a DEF BeginSavepoint, Goto
  <2>13. CASE DeleteSavepoint(u)
    <3>1. savepoints' = KeptSavepoints
      BY <2>13 DEF DeleteSavepoint
    <3>2. CASE Len(savepoints) >= MaxSavepoints
      <4>1. savepoints' = Tail(savepoints) /\ savepoints # << >>
        BY <3>1, <3>2, <1>a, EmptySeq DEF KeptSavepoints
      <4>2. Len(savepoints') = Len(savepoints) - 1
        BY <4>1, <1>a, HeadTailProperties
      <4> QED BY <4>2, <1>a DEF Room, AtMost
    <3>3. CASE ~(Len(savepoints) >= MaxSavepoints)
      BY <3>1, <3>3, <1>a DEF KeptSavepoints, Room, AtMost
    <3> QED BY <3>2, <3>3
  <2>14. CASE CreateSavepoint(u)
    <3>1. Len(savepoints) < MaxSavepoints /\ savepoints' = Append(savepoints, db)
      BY <2>14 DEF CreateSavepoint, Room
    <3>2. Len(savepoints') = Len(savepoints) + 1
      BY <3>1, <1>a, AppendProperties
    <3>3. \A v \in Updaters : pc'[v] # "create"
      BY <2>14, <1>a DEF CreateSavepoint, AfterSavepoint, Goto, Alone
    <3> QED BY <3>1, <3>2, <3>3, <1>a DEF Room, AtMost
  <2>15. CASE Rollback(u)
    <3>1. savepoints' = SubSeq(savepoints, 1, 1) /\ savepoints # << >>
      BY <2>15 DEF Rollback, RemainingSavepoints, OldestSavepoint
    <3>2. \A i \in 1..1 : savepoints[i] \in Seq(Block)
      <4>1. 1 \in 1..Len(savepoints)
        BY <3>1, <1>a, EmptySeq
      <4> QED BY <4>1, <1>a, ElementOfSeq
    <3>3. Len(savepoints') = 1
      BY <3>1, <3>2, SubSeqProperties
    <3>4. \A v \in Updaters : pc'[v] # "create"
      BY <2>15, <1>a DEF Rollback, Goto, Alone
    <3> QED BY <3>3, <3>4, <1>a DEF Room, AtMost
  <2>16. CASE RollbackPanics(u)
    BY <2>16, <1>0, <1>a DEF RollbackPanics, Goto
  <2> QED BY <1>1, <2>1, <2>2, <2>3, <2>4, <2>5, <2>6, <2>7, <2>8, <2>9, <2>10,
       <2>11, <2>12, <2>13, <2>14, <2>15, <2>16 DEF Update
<1>2. ASSUME NEW u \in Updaters, FetchThread(u) \/ FetchError(u) \/ RpcError(u)
      PROVE  Room' /\ AtMost'
  BY <1>2, <1>0, <1>a DEF FetchThread, Fetch, FetchEnd, FetchError, RpcError, Goto
<1>3. CASE Mine \/ (\E d \in 1..MaxReorgDepth : Reorganize(d))
  BY <1>3, <1>0 DEF Mine, Reorganize
<1>4. CASE Crash
  BY <1>4, <1>0 DEF Crash
<1>5. CASE UNCHANGED vars
  BY <1>5, <1>0 DEF vars
<1> QED BY <1>1, <1>2, <1>3, <1>4, <1>5 DEF Next

\* With one updater every variable has its type and there are never more than
\* MAX_SAVEPOINTS savepoints, although each is made in a transaction of its own,
\* after the one that deletes the oldest.
THEOREM IndexTypes ==
  ASSUME Alone
  PROVE  Spec => []TypeOK
<1>1. Init => Basics /\ Room /\ AtMost
  <2> SUFFICES ASSUME Init PROVE Room /\ AtMost
    BY BasicsInit
  <2>1. savepoints = << >> /\ Len(savepoints) = 0 /\ \A u \in Updaters : pc[u] = "idle"
    BY EmptySeq DEF Init
  <2> QED BY <2>1, UpdaterAssumption DEF Room, AtMost
<1>2. Basics /\ Room /\ AtMost /\ [Next]_vars => Basics' /\ Room' /\ AtMost'
  BY BasicsStep, RoomStep
<1>3. Basics /\ AtMost => TypeOK
  BY DEF Basics, Typed, AtMost, TypeOK
<1> QED BY <1>1, <1>2, <1>3, PTL DEF Spec

\* Lengths and labels are numbers.
LEMMA SeqFacts ==
  ASSUME NEW s \in Seq(Block)
  PROVE  /\ Len(s) \in Nat /\ DOMAIN s = 1..Len(s)
         /\ s = << >> <=> Len(s) = 0
         /\ \A i \in 1..Len(s) : /\ s[i] \in Block /\ s[i].height \in Nat
                                 /\ s[i].label \in Nat /\ s[i].prev \in Nat
<1>1. Len(s) \in Nat /\ DOMAIN s = 1..Len(s) /\ (s = << >> <=> Len(s) = 0)
  BY LenProperties, EmptySeq
<1>2. \A i \in 1..Len(s) : s[i] \in Block
  BY ElementOfSeq
<1> QED BY <1>1, <1>2 DEF Block

\* The chain of the node only gets longer and its branches newer.
LEMMA ChainNewer ==
  ASSUME Basics, [Next]_vars
  PROVE  /\ chain' \in Seq(Block)
         /\ Len(chain) <= Len(chain')
         /\ \A i \in 1..Len(chain) : chain[i].label <= chain'[i].label
<1>1. Basics'
  BY BasicsStep
<1>2. chain \in Seq(Block) /\ chain' \in Seq(Block)
  BY <1>1 DEF Basics, Typed
<1>3. CASE UNCHANGED <<chain, reorgs>>
  BY <1>2, <1>3, SeqFacts
<1>4. CASE ChainGrows
  BY <1>2, <1>4 DEF ChainGrows
<1> QED BY <1>3, <1>4, NodeStep DEF Basics

\* What is no newer than the chain remains so.
LEMMA NoNewerStays ==
  ASSUME Basics, [Next]_vars, NEW s \in Seq(Block), NoNewer(s, chain)
  PROVE  NoNewer(s, chain')
<1>1. chain \in Seq(Block)
  BY DEF Basics, Typed
<1>2. Len(s) \in Nat /\ Len(chain) \in Nat /\ Len(chain') \in Nat
  BY <1>1, SeqFacts, ChainNewer
<1>3. Len(s) <= Len(chain')
  BY <1>2, ChainNewer DEF NoNewer
<1>4. ASSUME NEW i \in DOMAIN s PROVE s[i].label <= chain'[i].label
  <2>1. i \in 1..Len(chain) /\ i \in 1..Len(chain') /\ i \in 1..Len(s)
    BY <1>2, <1>3, SeqFacts DEF NoNewer
  <2>2. s[i].label \in Nat /\ chain[i].label \in Nat /\ chain'[i].label \in Nat
    BY <2>1, <1>1, SeqFacts, ChainNewer
  <2>3. s[i].label <= chain[i].label /\ chain[i].label <= chain'[i].label
    BY <2>1, ChainNewer DEF NoNewer
  <2> QED BY <2>2, <2>3
<1> QED BY <1>3, <1>4 DEF NoNewer

\* The index does not get back on the chain by what the node does.
LEMMA ForkedStays ==
  ASSUME Basics, [Next]_vars, NEW s \in Seq(Block), Forked(s, chain)
  PROVE  Forked(s, chain')
<1>1. chain \in Seq(Block)
  BY DEF Basics, Typed
<1>2. Len(s) \in Nat /\ Len(s) >= 1 /\ Len(chain) \in Nat /\ Len(chain') \in Nat
  BY <1>1, SeqFacts, ChainNewer DEF Forked
<1>3. Len(s) <= Len(chain') /\ Len(s) \in 1..Len(chain) /\ Len(s) \in 1..Len(chain') /\ Len(s) \in 1..Len(s)
  BY <1>2, ChainNewer DEF Forked
<1>4. s[Len(s)].label \in Nat /\ chain[Len(s)].label \in Nat /\ chain'[Len(s)].label \in Nat
  BY <1>1, <1>3, SeqFacts, ChainNewer
<1>5. s[Len(s)].label < chain[Len(s)].label /\ chain[Len(s)].label <= chain'[Len(s)].label
  BY <1>3, ChainNewer DEF Forked
<1> QED BY <1>3, <1>4, <1>5 DEF Forked

\* A queue that fits the chain still does after a step of the node.
LEMMA QueueFitsStays ==
  ASSUME Basics, [Next]_vars, NEW q \in Seq(Block), NEW h \in Nat, NEW s,
         QueueFits(q, h, s, chain)
  PROVE  QueueFits(q, h, s, chain')
<1>1. chain \in Seq(Block) /\ chain' \in Seq(Block)
  BY ChainNewer DEF Basics, Typed
<1>2. Len(q) \in Nat /\ Len(chain) \in Nat /\ Len(chain') \in Nat
  BY <1>1, SeqFacts
<1>3. ASSUME NEW i \in DOMAIN q
      PROVE  /\ h + i <= Len(chain')
             /\ q[i].label <= chain'[h + i].label
             /\ h + i > 1 => q[i].prev <= chain'[h + i - 1].label
  <2>1. /\ i \in 1..Len(q) /\ h + i \in 1..Len(chain) /\ h + i \in 1..Len(chain')
        /\ h + i > 1 => h + i - 1 \in 1..Len(chain) /\ h + i - 1 \in 1..Len(chain')
    <3>1. i \in 1..Len(q) /\ h + i <= Len(chain)
      BY SeqFacts DEF QueueFits
    <3>2. Len(chain) <= Len(chain')
      BY ChainNewer
    <3> QED BY <3>1, <3>2, <1>2
  <2>2. /\ q[i].label \in Nat /\ q[i].prev \in Nat
        /\ \A k \in 1..Len(chain) : chain[k].label \in Nat
        /\ \A k \in 1..Len(chain') : chain'[k].label \in Nat
    BY <2>1, <1>1, SeqFacts
  <2>3. q[i].label <= chain[h + i].label /\ (h + i > 1 => q[i].prev <= chain[h + i - 1].label)
    BY DEF QueueFits
  <2>4. /\ chain[h + i].label <= chain'[h + i].label
        /\ h + i > 1 => chain[h + i - 1].label <= chain'[h + i - 1].label
    BY <2>1, ChainNewer
  <2>5. q[i].label <= chain'[h + i].label
    BY <2>1, <2>2, <2>3, <2>4
  <2>6. ASSUME h + i > 1 PROVE q[i].prev <= chain'[h + i - 1].label
    <3>1. h + i - 1 \in 1..Len(chain) /\ h + i - 1 \in 1..Len(chain')
      BY <2>1, <2>6
    <3>2. /\ q[i].prev \in Nat /\ chain[h + i - 1].label \in Nat
          /\ chain'[h + i - 1].label \in Nat
      BY <3>1, <2>2
    <3>3. q[i].prev <= chain[h + i - 1].label /\ chain[h + i - 1].label <= chain'[h + i - 1].label
      BY <2>3, <2>4, <2>6
    <3> QED BY <3>2, <3>3
  <2>7. h + i <= Len(chain')
    BY <2>1, <1>2
  <2> QED BY <2>5, <2>6, <2>7
<1> QED BY <1>3 DEF QueueFits

\* A block that is fetched fits above what is in the queue.
LEMMA FetchFits ==
  ASSUME Basics, NEW q \in Seq(Block), NEW s \in Seq(Block), NoNewer(s, chain),
         QueueFits(q, Len(s), s, chain), Len(s) + Len(q) < Len(chain)
  PROVE  QueueFits(Append(q, chain[Len(s) + Len(q) + 1]), Len(s), s, chain)
<1> DEFINE h == Len(s)
           m == Len(q)
           b == chain[h + m + 1]
           r == Append(q, b)
<1>1. chain \in Seq(Block) /\ h \in Nat /\ m \in Nat /\ Len(chain) \in Nat
      /\ DOMAIN q = 1..m
  BY SeqFacts DEF Basics, Typed
<1>2. h + m + 1 \in 1..Len(chain) /\ h + m < Len(chain)
  BY <1>1
<1>3. /\ b \in Block /\ b.height = h + m /\ b.label \in Nat /\ b.prev \in Nat
      /\ b.label = chain[h + m + 1].label
  <2>1. b \in Block /\ b.label \in Nat /\ b.prev \in Nat
    BY <1>1, <1>2, SeqFacts
  <2>2. b.height = (h + m + 1) - 1
    BY <1>1, <1>2, SeqFacts DEF Basics, Heights, Numbered
  <2>3. (h + m + 1) - 1 = h + m
    BY <1>1
  <2> QED BY <2>1, <2>2, <2>3
<1>4. h + m > 0 => b.prev = chain[h + m].label
  <2>1. h + m > 0 => h + m + 1 \in 2..Len(chain) /\ (h + m + 1) - 1 = h + m
    BY <1>1, <1>2
  <2> QED BY <2>1 DEF Basics, Parents
<1> HIDE DEF b, h, m
<1>5. /\ r \in Seq(Block) /\ Len(r) = m + 1 /\ r # << >>
      /\ \A i \in 1..m : r[i] = q[i]
      /\ r[m + 1] = b
  BY <1>3, AppendProperties DEF m
<1>6. DOMAIN r = 1..(m + 1)
  BY <1>5, SeqFacts
<1> HIDE DEF r
<1>7. ASSUME NEW i \in DOMAIN r
      PROVE  /\ r[i].height = h + i - 1
             /\ h + i <= Len(chain)
             /\ r[i].label <= chain[h + i].label
             /\ h + i > 1 => r[i].prev <= chain[h + i - 1].label
  <2>1. CASE i \in 1..m
    BY <2>1, <1>1, <1>5 DEF QueueFits, h
  <2>2. CASE i = m + 1
    <3>1. h + i = h + m + 1 /\ h + i - 1 = h + m /\ (h + i > 1 => h + m > 0) /\ r[i] = b
      BY <2>2, <1>1, <1>5
    <3>2. b.label <= chain[h + i].label
      BY <3>1, <1>3
    <3>3. h + i > 1 => b.prev <= chain[h + i - 1].label
      BY <3>1, <1>3, <1>4
    <3> QED BY <3>1, <3>2, <3>3, <1>2, <1>3, <1>1
  <2> QED BY <2>1, <2>2, <1>6, <1>1
<1>8. ASSUME NEW i \in 2..Len(r) PROVE r[i - 1].label <= r[i].prev
  <2>1. i \in 2..(m + 1) /\ i - 1 \in 1..m
    BY <1>1, <1>5
  <2>2. CASE i \in 1..m
    <3>1. i \in 2..m /\ r[i] = q[i] /\ r[i - 1] = q[i - 1]
      BY <2>1, <2>2, <1>5
    <3> QED BY <3>1 DEF QueueFits, m
  <2>3. CASE i = m + 1
    <3>1. m \in 1..m /\ i - 1 = m /\ h + m > 0
      BY <2>1, <2>3, <1>1
    <3>2. r[i - 1] = q[m] /\ r[i] = b
      BY <2>3, <3>1, <1>5
    <3>3. q[m].label <= chain[h + m].label
      BY <3>1, <1>1 DEF QueueFits, h
    <3> QED BY <3>1, <3>2, <3>3, <1>4
  <2> QED BY <2>1, <2>2, <2>3, <1>1
<1>9. ASSUME h > 0 PROVE s[h].label <= r[1].prev
  <2>1. CASE m = 0
    <3>1. r[1] = b /\ b.prev = chain[h].label
      BY <1>9, <2>1, <1>1, <1>4, <1>5
    <3>2. h \in DOMAIN s
      BY <1>9, <1>1, SeqFacts DEF h
    <3> QED BY <3>1, <3>2 DEF NoNewer
  <2>2. CASE m # 0
    <3>1. q # << >> /\ 1 \in 1..m
      BY <2>2, <1>1, SeqFacts DEF m
    <3> QED BY <3>1, <1>5, <1>9 DEF QueueFits, h
  <2> QED BY <2>1, <2>2
<1>10. QueueFits(r, h, s, chain)
  BY <1>7, <1>8, <1>9 DEF QueueFits
<1> QED BY <1>10 DEF r, b, h, m

\* An index in the tail of a queue.
LEMMA Shift ==
  \A a, b \in Nat : /\ a + (b + 1) = (a + 1) + b
                    /\ a + ((b + 1) - 1) = ((a + 1) + b) - 1
                    /\ ((a + 1) + b) - 1 = (a + 1) + (b - 1)
OBVIOUS

\* The rest of a queue fits above the block that is applied.
LEMMA TailFits ==
  ASSUME NEW q \in Seq(Block), q # << >>, NEW h \in Nat, NEW s, NEW t, NEW c \in Seq(Block),
         QueueFits(q, h, s, c), t[h + 1].label = Head(q).label
  PROVE  QueueFits(Tail(q), h + 1, t, c)
<1> DEFINE r == Tail(q)
           m == Len(q)
<1>1. /\ r \in Seq(Block) /\ Len(r) = m - 1
      /\ \A i \in 1..Len(r) : r[i] = q[i + 1]
  BY HeadTailProperties
<1>2. m \in Nat /\ m >= 1 /\ DOMAIN q = 1..m /\ DOMAIN r = 1..(m - 1)
  BY <1>1, SeqFacts
<1>3. Head(q) = q[1]
  OBVIOUS
<1> HIDE DEF r
<1>4. ASSUME NEW i \in DOMAIN r
      PROVE  /\ r[i].height = (h + 1) + i - 1
             /\ (h + 1) + i <= Len(c)
             /\ r[i].label <= c[(h + 1) + i].label
             /\ (h + 1) + i > 1 => r[i].prev <= c[(h + 1) + i - 1].label
  <2>1. i + 1 \in DOMAIN q /\ r[i] = q[i + 1]
    BY <1>1, <1>2
  <2>2. i \in Nat
    BY <1>2
  <2> DEFINE k == (h + 1) + i
  <2>3. h + (i + 1) = k /\ h + (i + 1) - 1 = k - 1
    BY <2>2, Shift
  <2>4. /\ q[i + 1].height = h + (i + 1) - 1
        /\ h + (i + 1) <= Len(c)
        /\ q[i + 1].label <= c[h + (i + 1)].label
        /\ h + (i + 1) > 1 => q[i + 1].prev <= c[h + (i + 1) - 1].label
    BY <2>1 DEF QueueFits
  <2> HIDE DEF k
  <2>5. /\ r[i].height = k - 1 /\ k <= Len(c)
        /\ r[i].label <= c[k].label
        /\ k > 1 => r[i].prev <= c[k - 1].label
    BY <2>1, <2>4, <2>3
  <2>6. k = (h + 1) + i /\ k - 1 = (h + 1) + i - 1
    BY <2>2, Shift DEF k
  <2> QED BY <2>5, <2>6
<1>5. ASSUME NEW i \in 2..Len(r) PROVE r[i - 1].label <= r[i].prev
  <2>1. /\ i + 1 \in 2..m /\ (i + 1) - 1 = i /\ i \in 1..Len(r)
        /\ i - 1 \in 1..Len(r) /\ (i - 1) + 1 = i
    BY <1>1, <1>2
  <2>2. r[i] = q[i + 1] /\ r[i - 1] = q[i]
    BY <2>1, <1>1
  <2> QED BY <2>1, <2>2 DEF QueueFits, m
<1>6. ASSUME r # << >> PROVE t[h + 1].label <= r[1].prev
  <2>1. Len(r) >= 1
    BY <1>1, <1>2, <1>6, SeqFacts
  <2>2. 1 \in 1..Len(r) /\ 2 \in 2..m /\ 2 - 1 = 1 /\ 1 + 1 = 2
    BY <2>1, <1>1, <1>2
  <2>3. r[1] = q[2] /\ q[1].label <= q[2].prev
    BY <2>2, <1>1 DEF QueueFits, m
  <2> QED BY <2>3, <1>3
<1>7. QueueFits(r, h + 1, t, c)
  BY <1>4, <1>5, <1>6 DEF QueueFits
<1> QED BY <1>7 DEF r

\* An empty queue fits anything.
LEMMA EmptyFits ==
  ASSUME NEW h, NEW s, NEW c
  PROVE  QueueFits(<< >>, h, s, c)
BY EmptySeq DEF QueueFits

\* What ApplyBlock appends is from no later branch than the node's block there.
LEMMA ApplyNoNewer ==
  ASSUME Basics, Ages, NEW u \in Updaters, ApplyBlock(u)
  PROVE  NoNewer(wtx', chain)
<1> DEFINE b == [Head(queue[u]) EXCEPT !.height = height[u]]
           n == Len(wtx)
<1>1. /\ n = height[u] /\ queue[u] # << >> /\ b.label = Head(queue[u]).label
      /\ wtx' \in Seq(Block) /\ Len(wtx') = n + 1 /\ DOMAIN wtx' = 1..(n + 1)
      /\ \A i \in 1..n : wtx'[i] = wtx[i]
      /\ wtx'[n + 1] = b
  BY ApplyAppends DEF Basics
<1>2. pc[u] = "indexing"
  BY DEF ApplyBlock
<1>3. QueueFits(queue[u], height[u], wtx, chain)
  BY <1>2 DEF Ages, InStep, Receiving, Fetched, Below, Holding
<1>4. n \in Nat /\ DOMAIN wtx = 1..n /\ queue[u] \in Seq(Block)
  BY SeqFacts DEF Basics, Typed
<1>5. 1 \in DOMAIN queue[u] /\ Head(queue[u]) = queue[u][1]
  <2>1. Len(queue[u]) \in Nat /\ Len(queue[u]) # 0 /\ DOMAIN queue[u] = 1..Len(queue[u])
    BY <1>1, <1>4, SeqFacts
  <2> QED BY <2>1
<1>6. n + 1 <= Len(chain) /\ b.label <= chain[n + 1].label
  BY <1>1, <1>3, <1>5 DEF QueueFits
<1> HIDE DEF b, n
<1>7. ASSUME NEW i \in DOMAIN wtx' PROVE wtx'[i].label <= chain[i].label
  <2>1. CASE i \in 1..n
    BY <2>1, <1>1, <1>4 DEF Ages, NoNewer
  <2>2. CASE i = n + 1
    BY <2>2, <1>1, <1>6
  <2> QED BY <2>1, <2>2, <1>1, <1>4
<1> QED BY <1>1, <1>6, <1>7 DEF NoNewer

\* A block that does not continue the index comes from a branch on which the node
\* has replaced the last block of the index.
LEMMA DetectForks ==
  ASSUME Basics, Ages, NEW u \in Updaters, BeginDetect(u)
  PROVE  Forked(db, chain)
<1> DEFINE h == height[u]
           q == queue[u]
<1>1. pc[u] = "indexing" /\ q # << >> /\ ~Continues(u)
  BY DEF BeginDetect
<1>2. QueueFits(q, h, wtx, chain) /\ h = Len(wtx)
      /\ Len(db) <= Len(wtx) /\ (Len(wtx) = Len(db) => wtx = db)
  BY <1>1 DEF Ages, InStep, Receiving, Fetched, Below, Holding
<1>3. /\ h \in Nat /\ Len(db) \in Nat /\ (db = << >> <=> Len(db) = 0)
      /\ db \in Seq(Block) /\ q \in Seq(Block) /\ chain \in Seq(Block)
  BY SeqFacts DEF Basics, Typed
<1>4. h = Len(db) /\ db # << >> /\ IndexBlock(h, 1) = {db[Len(db)]} /\ wtx = db
  <2>1. IndexBlock(h, 1) # {}
    BY <1>1 DEF Continues
  <2>2. /\ (h = Len(db) /\ db # << >>) => IndexBlock(h, 1) = {db[Len(db)]}
        /\ (h = 0 /\ db = << >>) => IndexBlock(h, 1) = {}
        /\ h > Len(db) => IndexBlock(h, 1) = {}
    BY <1>1, ComparedHeader
  <2> HIDE DEF h
  <2>3. h = Len(db)
    BY <2>1, <2>2, <1>2, <1>3
  <2>4. db # << >>
    BY <2>1, <2>2, <2>3, <1>3
  <2> QED BY <2>2, <2>3, <2>4, <1>2
<1>5. db[h].label # Head(q).prev
  BY <1>1, <1>4 DEF Continues
<1>6. 1 \in DOMAIN q /\ 1 \in 1..Len(q) /\ Head(q) = q[1]
  <2>1. Len(q) \in Nat /\ Len(q) # 0 /\ DOMAIN q = 1..Len(q)
    BY <1>1, <1>3, SeqFacts
  <2> QED BY <2>1
<1>7. h > 0 /\ h + 1 > 1 /\ h + (1 - 1) = h
  BY <1>3, <1>4
<1>8. q[1].prev <= chain[h].label /\ h + 1 <= Len(chain)
  BY <1>2, <1>6, <1>7 DEF QueueFits
<1>9. db[h].label <= q[1].prev
  BY <1>1, <1>2, <1>4, <1>7 DEF QueueFits
<1>10. h \in 1..Len(db) /\ h \in 1..Len(chain) /\ Len(db) <= Len(chain)
  <2>1. Len(chain) \in Nat
    BY <1>3, SeqFacts
  <2> QED BY <2>1, <1>3, <1>4, <1>7, <1>8
<1>11. db[h].label \in Nat /\ q[1].prev \in Nat /\ chain[h].label \in Nat
  BY <1>3, <1>6, <1>10, SeqFacts
<1>12. db[h].label < chain[h].label
  <2> HIDE DEF h, q
  <2> QED BY <1>5, <1>6, <1>8, <1>9, <1>11
<1> QED BY <1>4, <1>10, <1>12 DEF Forked

\* update_index returns.
LEMMA Leaves ==
  ASSUME Typed, NEW v \in Updaters, queue'[v] = << >>,
         pc'[v] \in {"idle", "panicked"} \/ (pc'[v] = "rollback" /\ Forked(db', chain'))
  PROVE  InStep(v)'
BY DEF InStep, Receiving

\* Neither the queue of v nor what is below it moves.
LEMMA Stays ==
  ASSUME Basics, Ages, [Next]_vars, NEW v \in Updaters,
         UNCHANGED <<height, fetchNext, queue>>,
         Receiving(v), Below(v)' = Below(v),
         pc'[v] # "indexing", Receiving(v)'
  PROVE  InStep(v)'
<1>1. Fetched(v)
  BY DEF Ages, InStep
<1>2. QueueFits(queue[v], height[v], Below(v), chain')
  BY <1>1, QueueFitsStays DEF Fetched, Basics, Typed
<1>3. Fetched(v)'
  BY <1>1, <1>2 DEF Fetched
<1>4. pc'[v] \notin {"detect", "rollback"}
  BY DEF Receiving
<1> QED BY <1>3, <1>4 DEF InStep

\* Every step keeps an updater in step with its queue and with the database.
LEMMA InStepStep ==
  ASSUME Alone, Basics, Ages, [Next]_vars, NEW v \in Updaters
  PROVE  InStep(v)'
<1>a. /\ pc \in [Updaters -> Phases] /\ height \in [Updaters -> Nat]
      /\ fetchNext \in [Updaters -> Nat] /\ queue \in [Updaters -> Seq(Block)]
      /\ chain \in Seq(Block) /\ db \in Seq(Block) /\ wtx \in Seq(Block)
  BY DEF Basics, Typed
<1>b. InStep(v)
  BY DEF Ages
<1>0. CASE UNCHANGED <<db, wtx, pc, height, queue, fetchNext>>
  <2>1. Receiving(v) => QueueFits(queue[v], height[v], Below(v), chain')
    BY <1>a, <1>b, QueueFitsStays DEF InStep, Fetched
  <2>2. pc[v] \in {"detect", "rollback"} => Forked(db, chain')
    BY <1>a, <1>b, ForkedStays DEF InStep
  <2>3. Below(v)' = Below(v)
    BY <1>0 DEF Below
  <2> QED BY <1>0, <1>b, <2>1, <2>2, <2>3 DEF InStep, Fetched, Receiving
<1> USE DEF locals, transaction, database, fetcher, node, faults
<1>1. ASSUME NEW u \in Updaters, Update(u) PROVE InStep(v)'
  <2>0. u = v
    BY DEF Alone
  <2>1. CASE BeginUpdate(v)
    <3>1. queue[v] = << >>
      BY <2>1, <1>b DEF BeginUpdate, InStep, Receiving
    <3>2. BlockCount(db) = Len(db)
      BY NumberedCount DEF Basics, Typed, Heights
    <3>3. /\ pc'[v] = "indexing" /\ wtx' = db /\ db' = db /\ queue'[v] = << >>
          /\ height'[v] = Len(db) /\ fetchNext'[v] = Len(db)
      BY <2>1, <3>1, <3>2, <1>a DEF BeginUpdate, Goto
    <3>4. Len(db) \in Nat /\ Len(<< >>) = 0
      BY <1>a, SeqFacts, EmptySeq
    <3>5. Below(v)' = db
      BY <3>3 DEF Below, Holding
    <3>6. Len(db) = Len(db) + 0
      BY <3>4
    <3>7. Fetched(v)'
      BY <3>3, <3>4, <3>5, <3>6, EmptyFits DEF Fetched
    <3>8. Len(db') <= Len(wtx')
      BY <3>3, <3>4
    <3> QED BY <3>3, <3>7, <3>8 DEF InStep, Receiving
  <2>2. CASE ApplyBlock(v)
    <3> DEFINE b == [Head(queue[v]) EXCEPT !.height = height[v]]
               h == height[v]
               q == queue[v]
    <3>1. /\ Len(wtx) = h /\ q # << >> /\ b.label = Head(q).label
          /\ Len(wtx') = h + 1 /\ wtx'[h + 1] = b
      BY <2>2, ApplyAppends DEF Basics
    <3>2. /\ pc'[v] \in {"indexing", "commit"} /\ db' = db /\ chain' = chain
          /\ height'[v] = h + 1 /\ fetchNext' = fetchNext /\ queue'[v] = Tail(q)
      BY <2>2, <1>a DEF ApplyBlock, Goto
    <3>3. pc[v] = "indexing"
      BY <2>2 DEF ApplyBlock
    <3>4. Below(v)' = wtx'
      BY <3>2 DEF Below, Holding
    <3>5. /\ fetchNext[v] = h + Len(q) /\ QueueFits(q, h, wtx, chain)
          /\ Len(db) <= Len(wtx)
      BY <3>3, <1>b DEF InStep, Fetched, Receiving, Below, Holding
    <3>6. QueueFits(Tail(q), h + 1, wtx', chain)
      BY <3>1, <3>5, <1>a, TailFits
    <3>7. h \in Nat /\ Len(q) \in Nat /\ Len(Tail(q)) = Len(q) - 1
          /\ Len(db) \in Nat
      BY <1>a, <3>1, SeqFacts, HeadTailProperties
    <3>8. h + Len(q) = (h + 1) + (Len(q) - 1)
      BY <3>7
    <3>9. Len(db) <= Len(wtx') /\ Len(wtx') # Len(db)
      BY <3>1, <3>5, <3>7
    <3> HIDE DEF b, h, q
    <3>10. Fetched(v)'
      BY <3>1, <3>2, <3>4, <3>5, <3>6, <3>7, <3>8 DEF Fetched
    <3> QED BY <3>2, <3>9, <3>10 DEF InStep, Receiving
  <2>3. CASE BeginDetect(v)
    <3>1. pc'[v] = "detect" /\ db' = db /\ chain' = chain
      BY <2>3, <1>a DEF BeginDetect, Goto
    <3>2. Forked(db', chain')
      BY <2>3, <3>1, DetectForks
    <3> QED BY <3>1, <3>2 DEF InStep, Receiving
  <2>4. CASE DetectDeeper(v)
    BY <2>4, <1>0 DEF DetectDeeper
  <2>5. CASE DetectRecoverable(v)
    <3>1. pc[v] = "detect" /\ pc'[v] = "rollback" /\ queue'[v] = << >>
          /\ db' = db /\ chain' = chain
      BY <2>5, <1>a DEF DetectRecoverable, Goto, Drop
    <3> QED BY <3>1, <1>b, Leaves DEF InStep, Basics
  <2>6. CASE DetectUnrecoverable(v)
    <3>1. pc'[v] = "idle" /\ queue'[v] = << >>
      BY <2>6, <1>a DEF DetectUnrecoverable, Goto, Drop
    <3> QED BY <3>1, Leaves DEF Basics
  <2>7. CASE Finish(v)
    <3>1. CASE uncommitted[v] > 0
      <4>1. /\ pc[v] = "indexing" /\ pc'[v] = "commit" /\ wtx' = wtx
            /\ UNCHANGED <<height, fetchNext, queue>>
        BY <2>7, <3>1, <1>a DEF Finish, Goto
      <4>2. Below(v)' = Below(v) /\ Receiving(v) /\ Receiving(v)'
        BY <4>1 DEF Below, Holding, Receiving
      <4> QED BY <4>1, <4>2, Stays
    <3>2. CASE ~(uncommitted[v] > 0)
      <4>1. pc'[v] = "idle" /\ queue'[v] = << >>
        BY <2>7, <3>2, <1>a DEF Finish, Goto, Drop
      <4> QED BY <4>1, Leaves DEF Basics
    <3> QED BY <3>1, <3>2
  <2>8. CASE Commit(v)
    <3>1. /\ pc[v] = "commit" /\ pc'[v] = "savepoint" /\ db' = wtx
          /\ UNCHANGED <<height, fetchNext, queue>>
      BY <2>8, <1>a DEF Commit, Goto
    <3>2. Below(v)' = Below(v) /\ Receiving(v) /\ Receiving(v)'
      BY <3>1 DEF Below, Holding, Receiving
    <3> QED BY <3>1, <3>2, Stays
  <2>9. CASE ResumeUpdate(v)
    <3>1. /\ pc[v] = "resume" /\ pc'[v] = "indexing" /\ wtx' = db /\ db' = db
          /\ UNCHANGED <<height, fetchNext, queue, chain>>
      BY <2>9, <1>a DEF ResumeUpdate, Goto
    <3>2. Below(v) = db /\ Below(v)' = db /\ Receiving(v)
      BY <3>1 DEF Below, Holding, Receiving
    <3>3. Fetched(v)
      BY <3>2, <1>b DEF InStep
    <3>4. Fetched(v)'
      BY <3>1, <3>2, <3>3 DEF Fetched
    <3>5. Len(db') <= Len(wtx')
      BY <3>1, <1>a, SeqFacts
    <3> QED BY <3>1, <3>4, <3>5 DEF InStep, Receiving
  <2>10. CASE YieldUpdate(v)
    <3>1. pc'[v] = "idle" /\ queue'[v] = << >>
      BY <2>10, <1>a DEF YieldUpdate, Goto, Drop
    <3> QED BY <3>1, Leaves DEF Basics
  <2>11. CASE SkipSavepoint(v)
    <3>1. CASE closing[v]
      <4>1. pc'[v] = "idle" /\ queue'[v] = << >>
        BY <2>11, <3>1, <1>a DEF SkipSavepoint, AfterSavepoint, Goto, Drop
      <4> QED BY <4>1, Leaves DEF Basics
    <3>2. CASE ~closing[v]
      <4>1. /\ pc[v] = "savepoint" /\ pc'[v] = "resume" /\ db' = db
            /\ UNCHANGED <<height, fetchNext, queue>>
        BY <2>11, <3>2, <1>a DEF SkipSavepoint, AfterSavepoint, Goto
      <4>2. Below(v)' = Below(v) /\ Receiving(v) /\ Receiving(v)'
        BY <4>1 DEF Below, Holding, Receiving
      <4> QED BY <4>1, <4>2, Stays
    <3> QED BY <3>1, <3>2
  <2>12. CASE BeginSavepoint(v)
    <3>1. /\ pc[v] = "savepoint" /\ pc'[v] = "delete" /\ db' = db
          /\ UNCHANGED <<height, fetchNext, queue>>
      BY <2>12, <1>a DEF BeginSavepoint, Goto
    <3>2. Below(v)' = Below(v) /\ Receiving(v) /\ Receiving(v)'
      BY <3>1 DEF Below, Holding, Receiving
    <3> QED BY <3>1, <3>2, Stays
  <2>13. CASE DeleteSavepoint(v)
    <3>1. /\ pc[v] = "delete" /\ pc'[v] = "create" /\ db' = db
          /\ UNCHANGED <<height, fetchNext, queue>>
      BY <2>13, <1>a DEF DeleteSavepoint, Goto
    <3>2. Below(v)' = Below(v) /\ Receiving(v) /\ Receiving(v)'
      BY <3>1 DEF Below, Holding, Receiving
    <3> QED BY <3>1, <3>2, Stays
  <2>14. CASE CreateSavepoint(v)
    <3>1. CASE closing[v]
      <4>1. pc'[v] = "idle" /\ queue'[v] = << >>
        BY <2>14, <3>1, <1>a DEF CreateSavepoint, AfterSavepoint, Goto, Drop
      <4> QED BY <4>1, Leaves DEF Basics
    <3>2. CASE ~closing[v]
      <4>1. /\ pc[v] = "create" /\ pc'[v] = "resume" /\ db' = db
            /\ UNCHANGED <<height, fetchNext, queue>>
        BY <2>14, <3>2, <1>a DEF CreateSavepoint, AfterSavepoint, Goto
      <4>2. Below(v)' = Below(v) /\ Receiving(v) /\ Receiving(v)'
        BY <4>1 DEF Below, Holding, Receiving
      <4> QED BY <4>1, <4>2, Stays
    <3> QED BY <3>1, <3>2
  <2>15. CASE Rollback(v)
    <3>1. pc[v] = "rollback" /\ pc'[v] = "idle" /\ queue' = queue
      BY <2>15, <1>a DEF Rollback, Goto
    <3>2. queue[v] = << >>
      BY <3>1, <1>b DEF InStep, Receiving
    <3> QED BY <3>1, <3>2, Leaves DEF Basics
  <2>16. CASE RollbackPanics(v)
    <3>1. pc[v] = "rollback" /\ pc'[v] = "panicked" /\ queue' = queue
      BY <2>16, <1>a DEF RollbackPanics, Goto
    <3>2. queue[v] = << >>
      BY <3>1, <1>b DEF InStep, Receiving
    <3> QED BY <3>1, <3>2, Leaves DEF Basics
  <2> QED BY <2>0, <1>1, <2>1, <2>2, <2>3, <2>4, <2>5, <2>6, <2>7, <2>8, <2>9,
       <2>10, <2>11, <2>12, <2>13, <2>14, <2>15, <2>16 DEF Update
<1>2. ASSUME NEW u \in Updaters, Fetch(u) PROVE InStep(v)'
  <2> DEFINE h == height[v]
             q == queue[v]
             s == Below(v)
  <2>0. u = v
    BY DEF Alone
  <2>1. /\ Receiving(v) /\ fetchNext[v] < Len(chain)
        /\ queue'[v] = Append(q, chain[fetchNext[v] + 1])
        /\ fetchNext'[v] = fetchNext[v] + 1
        /\ UNCHANGED <<db, wtx, pc, height, chain>>
    BY <2>0, <1>2, <1>a DEF Fetch
  <2>2. h = Len(s) /\ fetchNext[v] = h + Len(q) /\ QueueFits(q, h, s, chain)
    BY <2>1, <1>b DEF InStep, Fetched
  <2>3. s \in Seq(Block) /\ NoNewer(s, chain) /\ q \in Seq(Block)
    BY <1>a DEF Below, Ages
  <2>4. h \in Nat /\ Len(q) \in Nat /\ chain[h + Len(q) + 1] \in Block
    <3>1. h \in Nat /\ Len(q) \in Nat /\ Len(chain) \in Nat
      BY <1>a, SeqFacts
    <3>2. h + Len(q) + 1 \in 1..Len(chain)
      BY <3>1, <2>1, <2>2
    <3> QED BY <3>1, <3>2, <1>a, SeqFacts
  <2>5. Len(queue'[v]) = Len(q) + 1
    BY <2>1, <2>2, <2>3, <2>4, AppendProperties
  <2>6. QueueFits(queue'[v], h, s, chain)
    BY <2>1, <2>2, <2>3, FetchFits
  <2>7. Below(v)' = s
    BY <2>1 DEF Below
  <2>8. h + Len(q) + 1 = h + (Len(q) + 1)
    BY <2>4
  <2>9. Fetched(v)'
    <3> HIDE DEF h, q, s
    <3>1. height'[v] = h
      BY <2>1 DEF h
    <3> QED BY <3>1, <2>1, <2>2, <2>5, <2>6, <2>7, <2>8 DEF Fetched
  <2> QED BY <2>1, <2>9, <1>b DEF InStep, Receiving
<1>3. ASSUME NEW u \in Updaters, FetchEnd(u) \/ FetchError(u) PROVE InStep(v)'
  BY <1>3, <1>0 DEF FetchEnd, FetchError
<1>4. ASSUME NEW u \in Updaters, RpcError(u) PROVE InStep(v)'
  <2>1. pc'[v] = "idle" /\ queue'[v] = << >>
    BY <1>4, <1>a DEF RpcError, Goto, Drop, Alone
  <2> QED BY <2>1, Leaves DEF Basics
<1>5. CASE Mine \/ (\E d \in 1..MaxReorgDepth : Reorganize(d))
  BY <1>5, <1>0 DEF Mine, Reorganize
<1>6. CASE Crash
  <2>1. pc'[v] = "idle" /\ queue'[v] = << >>
    BY <1>6 DEF Crash
  <2> QED BY <2>1, Leaves DEF Basics
<1>7. CASE UNCHANGED vars
  BY <1>7, <1>0 DEF vars
<1> QED BY <1>1, <1>2, <1>3, <1>4, <1>5, <1>6, <1>7 DEF Next, FetchThread

\* Every step keeps the ages.
LEMMA AgesStep ==
  ASSUME Alone, Basics, Ages, [Next]_vars
  PROVE  Ages'
<1>1. db \in Seq(Block) /\ wtx \in Seq(Block)
      /\ \A j \in DOMAIN savepoints : savepoints[j] \in Seq(Block)
      /\ (savepoints # << >> => 1 \in DOMAIN savepoints)
  <2>1. Len(savepoints) \in Nat /\ DOMAIN savepoints = 1..Len(savepoints)
        /\ (savepoints # << >> => Len(savepoints) >= 1)
    BY LenProperties, EmptySeq DEF Basics, Typed
  <2>2. \A j \in DOMAIN savepoints : savepoints[j] \in Seq(Block)
    BY <2>1, ElementOfSeq DEF Basics, Typed
  <2> QED BY <2>1, <2>2 DEF Basics, Typed
<1>2. /\ NoNewer(db, chain') /\ NoNewer(wtx, chain')
      /\ \A j \in DOMAIN savepoints : NoNewer(savepoints[j], chain')
  BY <1>1, NoNewerStays DEF Ages
<1>3. \A u \in Updaters : Commit(u) => db' = wtx
  BY DEF Commit
<1>4. NoNewer(db', chain')
  <2>1. \/ db' = db \/ db' = wtx
        \/ savepoints # << >> /\ db' = savepoints[1]
    BY <1>3, DatabaseStep DEF DatabaseMoves, Basics
  <2>2. CASE db' = db \/ db' = wtx
    BY <1>2, <2>2
  <2>3. CASE savepoints # << >> /\ db' = savepoints[1]
    <3>1. NoNewer(savepoints[1], chain')
      BY <1>1, <1>2, <2>3
    <3> QED BY <2>3, <3>1
  <2> QED BY <2>1, <2>2, <2>3
<1>5. \A j \in DOMAIN savepoints' : NoNewer(savepoints'[j], chain')
  BY <1>2, DatabaseStep DEF DatabaseMoves, Basics
<1>6. NoNewer(<< >>, chain')
  BY EmptySeq, ChainNewer, SeqFacts DEF NoNewer
<1>7. \A u \in Updaters : ApplyBlock(u) => NoNewer(wtx', chain')
  BY ApplyNoNewer DEF ApplyBlock, node
<1>8. NoNewer(wtx', chain')
  BY <1>2, <1>6, <1>7, DatabaseStep DEF DatabaseMoves, Basics
<1> QED BY <1>4, <1>8, <1>5, InStepStep DEF Ages

\* A forked index is not a part of the chain.
LEMMA ForkedIsNoPrefix ==
  ASSUME NEW s \in Seq(Block), NEW c \in Seq(Block), Forked(s, c)
  PROVE  ~IsPrefix(s, c)
<1> DEFINE n == Len(s)
<1>1. n \in Nat /\ n >= 1 /\ n <= Len(c) /\ Len(c) \in Nat
  BY SeqFacts DEF Forked
<1>2. s[n].label \in Nat /\ c[n].label \in Nat /\ s[n].label < c[n].label
  <2>1. n \in 1..Len(s) /\ n \in 1..Len(c)
    BY <1>1
  <2> QED BY <2>1, SeqFacts DEF Forked
<1>3. (\A i \in 1..n : s[i] \in Block /\ c[i] \in Block) /\ n \in 1..n
  <2>1. \A i \in 1..n : i \in 1..Len(c)
    BY <1>1
  <2> QED BY <2>1, <1>1, SeqFacts
<1> HIDE DEF n
<1>4. SubSeq(s, 1, n)[1 + (n - 1)] = s[n] /\ SubSeq(c, 1, n)[1 + (n - 1)] = c[n]
  <2>1. \A i \in 1..n : (n - 1) + 1 \in 1..n
    BY <1>1
  <2>2. \A i \in 1..(n - 1 + 1) : SubSeq(s, 1, n)[i] = s[1 + i - 1]
    BY <1>1, <1>3, SubSeqProperties
  <2>3. \A i \in 1..(n - 1 + 1) : SubSeq(c, 1, n)[i] = c[1 + i - 1]
    BY <1>1, <1>3, SubSeqProperties
  <2>4. n \in 1..(n - 1 + 1) /\ 1 + (n - 1) = n
    BY <1>1
  <2> QED BY <2>2, <2>3, <2>4
<1>5. ASSUME IsPrefix(s, c) PROVE FALSE
  <2>1. SubSeq(s, 1, n) = SubSeq(c, 1, n)
    BY <1>5 DEF IsPrefix, n
  <2>2. s[n] = c[n]
    BY <2>1, <1>4
  <2> QED BY <2>2, <1>2
<1> QED BY <1>5

\* With one updater, the index is only rolled back when the node has replaced a
\* block that the index has applied: a block that was fetched before a reorg and is
\* applied after it, or that was fetched from the new branch while the index is on
\* the old one, is told apart from a fork.
THEOREM RollbackIsJustified ==
  ASSUME Alone
  PROVE  Spec => RollbackOnlyOnFork
<1>1. Init => Basics /\ Ages
  <2> SUFFICES ASSUME Init PROVE Ages
    BY BasicsInit
  <2>1. /\ db = << >> /\ wtx = << >> /\ savepoints = << >>
        /\ \A u \in Updaters : pc[u] = "idle" /\ queue[u] = << >>
    BY DEF Init
  <2>2. NoNewer(<< >>, chain)
    BY BasicsInit, SeqFacts, EmptySeq DEF NoNewer, Basics, Typed
  <2> QED BY <2>1, <2>2 DEF Ages, InStep, Receiving
<1>2. Basics /\ Ages /\ [Next]_vars => Basics' /\ Ages'
  BY BasicsStep, AgesStep
<1>3. Basics /\ Ages => \A u \in Updaters : Rollback(u) => ~IsPrefix(db, chain)
  <2> SUFFICES ASSUME Basics, Ages, NEW u \in Updaters, Rollback(u)
               PROVE  ~IsPrefix(db, chain)
    OBVIOUS
  <2>1. pc[u] = "rollback"
    BY DEF Rollback
  <2>2. Forked(db, chain)
    BY <2>1 DEF Ages, InStep
  <2> QED BY <2>2, ForkedIsNoPrefix DEF Basics, Typed
<1> QED BY <1>1, <1>2, <1>3, PTL DEF Spec, RollbackOnlyOnFork

-----------------------------------------------------------------------------
(* The first reorg: with one updater and a commit after every block. *)

\* A block is no older than its parent, wherever it is kept.
BranchesAge ==
  /\ Aged(db) /\ Aged(wtx)
  /\ \A j \in DOMAIN savepoints : Aged(savepoints[j])
  /\ \A u \in Updaters : \A i \in DOMAIN queue[u] : queue[u][i].prev <= queue[u][i].label

\* How a step moves a queue.
QueueMoves(u) ==
  \/ queue'[u] = queue[u] \/ queue'[u] = << >>
  \/ Fetch(u) /\ queue'[u] = Append(queue[u], chain[fetchNext[u] + 1])
  \/ ApplyBlock(u) /\ queue'[u] = Tail(queue[u])

\* Those are all the moves of a queue.
LEMMA QueueStep ==
  ASSUME Typed, [Next]_vars, NEW v \in Updaters
  PROVE  QueueMoves(v)
<1>a. queue \in [Updaters -> Seq(Block)]
  BY DEF Typed
<1>0. CASE queue' = queue
  BY <1>0 DEF QueueMoves
<1>b. ASSUME NEW u \in Updaters, queue' = queue \/ queue' = [queue EXCEPT ![u] = << >>]
      PROVE  QueueMoves(v)
  BY <1>a, <1>b DEF QueueMoves
<1> USE DEF fetcher
<1>1. ASSUME NEW u \in Updaters, Update(u) PROVE QueueMoves(v)
  <2>1. CASE ApplyBlock(u)
    <3>1. queue' = [queue EXCEPT ![u] = Tail(queue[u])]
      BY <2>1 DEF ApplyBlock
    <3> QED BY <2>1, <3>1, <1>a DEF QueueMoves
  <2>2. CASE BeginUpdate(u) \/ BeginDetect(u) \/ DetectDeeper(u) \/ Commit(u)
             \/ ResumeUpdate(u) \/ BeginSavepoint(u) \/ DeleteSavepoint(u)
             \/ Rollback(u) \/ RollbackPanics(u)
    BY <2>2, <1>0 DEF BeginUpdate, BeginDetect, DetectDeeper, Commit, ResumeUpdate,
                      BeginSavepoint, DeleteSavepoint, Rollback, RollbackPanics
  <2>3. CASE DetectRecoverable(u) \/ DetectUnrecoverable(u) \/ YieldUpdate(u)
    BY <2>3, <1>b DEF DetectRecoverable, DetectUnrecoverable, YieldUpdate, Drop
  <2>4. CASE Finish(u) \/ SkipSavepoint(u) \/ CreateSavepoint(u)
    BY <2>4, <1>b DEF Finish, SkipSavepoint, CreateSavepoint, AfterSavepoint, Drop
  <2> QED BY <1>1, <2>1, <2>2, <2>3, <2>4 DEF Update
<1>2. ASSUME NEW u \in Updaters, Fetch(u) PROVE QueueMoves(v)
  <2>1. queue' = [queue EXCEPT ![u] = Append(queue[u], chain[fetchNext[u] + 1])]
    BY <1>2 DEF Fetch
  <2> QED BY <1>2, <2>1, <1>a DEF QueueMoves
<1>3. ASSUME NEW u \in Updaters, FetchEnd(u) \/ FetchError(u) \/ RpcError(u)
      PROVE  QueueMoves(v)
  BY <1>3, <1>0, <1>b DEF FetchEnd, FetchError, RpcError, Drop
<1>4. CASE Mine \/ (\E d \in 1..MaxReorgDepth : Reorganize(d))
  BY <1>4, <1>0 DEF Mine, Reorganize
<1>5. CASE Crash
  BY <1>5 DEF Crash, QueueMoves
<1>6. CASE UNCHANGED vars
  BY <1>6, <1>0 DEF vars
<1> QED BY <1>1, <1>2, <1>3, <1>4, <1>5, <1>6 DEF Next, FetchThread

\* A block no older than the last one, nor than its own parent, keeps a sequence aged.
LEMMA AppendAged ==
  ASSUME NEW s \in Seq(Block), Aged(s), NEW b \in Block, b.prev <= b.label,
         s # << >> => s[Len(s)].label <= b.prev
  PROVE  Aged(Append(s, b))
<1> DEFINE t == Append(s, b)
           n == Len(s)
<1>1. t \in Seq(Block) /\ Len(t) = n + 1 /\ t[n + 1] = b
      /\ \A i \in 1..n : t[i] = s[i]
  BY AppendProperties
<1>2. n \in Nat /\ DOMAIN s = 1..n /\ DOMAIN t = 1..(n + 1)
      /\ (n >= 1 => s # << >>)
  BY <1>1, SeqFacts
<1>3. b.label \in Nat /\ b.prev \in Nat /\ \A i \in 1..n : s[i].label \in Nat
  BY SeqFacts DEF Block
<1> HIDE DEF t
<1>4. \A i \in DOMAIN t : i \in 1..n \/ i = n + 1
  BY <1>2
<1>5. ASSUME NEW i \in DOMAIN t PROVE t[i].prev <= t[i].label
  BY <1>1, <1>2, <1>4 DEF Aged
<1>6. ASSUME NEW i \in 1..n PROVE s[i].label <= b.label
  <2>1. n \in 1..n /\ i <= n /\ s # << >>
    BY <1>2
  <2>2. s[i].label <= s[n].label /\ s[n].label <= b.prev
    BY <2>1, <1>2 DEF Aged
  <2> QED BY <2>1, <2>2, <1>3
<1>7. ASSUME NEW i \in DOMAIN t, NEW j \in DOMAIN t, i <= j
      PROVE  t[i].label <= t[j].label
  <2>1. CASE j \in 1..n
    <3>1. i \in 1..n
      BY <2>1, <1>2, <1>7
    <3> QED BY <2>1, <3>1, <1>1, <1>2, <1>7 DEF Aged
  <2>2. CASE j = n + 1 /\ i \in 1..n
    BY <2>2, <1>1, <1>6
  <2>3. CASE j = n + 1 /\ i = n + 1
    BY <2>3, <1>1, <1>3
  <2> QED BY <2>1, <2>2, <2>3, <1>4
<1>8. Aged(t)
  BY <1>5, <1>7 DEF Aged
<1> QED BY <1>8 DEF t

\* Every step keeps the branches aged.
LEMMA BranchesAgeStep ==
  ASSUME Basics, Links, BranchesAge, [Next]_vars
  PROVE  BranchesAge'
<1>1. Typed /\ Parents
  BY DEF Basics
<1>2. /\ Aged(db) /\ Aged(wtx)
      /\ \A j \in DOMAIN savepoints : Aged(savepoints[j])
      /\ savepoints # << >> => 1 \in DOMAIN savepoints
  <2>1. Len(savepoints) \in Nat /\ DOMAIN savepoints = 1..Len(savepoints)
        /\ (savepoints # << >> => Len(savepoints) >= 1)
    BY <1>1, LenProperties, EmptySeq DEF Typed
  <2> QED BY <2>1 DEF BranchesAge
<1>3. \A u \in Updaters : Commit(u) => db' = wtx
  BY DEF Commit
<1>4. Aged(db')
  <2>1. db' = db \/ db' = wtx \/ (savepoints # << >> /\ db' = savepoints[1])
    BY <1>1, <1>3, DatabaseStep DEF DatabaseMoves
  <2> QED BY <2>1, <1>2
<1>5. \A j \in DOMAIN savepoints' : Aged(savepoints'[j])
  BY <1>1, <1>2, DatabaseStep DEF DatabaseMoves
<1>6. ASSUME NEW u \in Updaters, ApplyBlock(u) PROVE Aged(wtx')
  <2> DEFINE b == [Head(queue[u]) EXCEPT !.height = height[u]]
  <2>1. /\ b \in Block /\ b.prev = Head(queue[u]).prev /\ b.label = Head(queue[u]).label
        /\ wtx' = Append(wtx, b) /\ queue[u] # << >>
    BY <1>6, ApplyAppends DEF Basics
  <2>2. 1 \in DOMAIN queue[u] /\ Head(queue[u]) = queue[u][1]
    <3>1. queue[u] \in Seq(Block)
      BY <1>1 DEF Typed
    <3>2. Len(queue[u]) \in Nat /\ Len(queue[u]) # 0 /\ DOMAIN queue[u] = 1..Len(queue[u])
      BY <2>1, <3>1, SeqFacts
    <3> QED BY <3>2
  <2>3. b.prev <= b.label
    BY <2>1, <2>2 DEF BranchesAge
  <2>4. wtx = db /\ (db # << >> => db[Len(db)].label = b.prev)
    BY <1>6, <2>1, ApplyContinues
  <2>5. db \in Seq(Block) /\ b.prev \in Nat
    BY <2>1, <1>1 DEF Typed, Block
  <2> HIDE DEF b
  <2>6. db # << >> => db[Len(db)].label <= b.prev
    BY <2>4, <2>5
  <2> QED BY <2>1, <2>3, <2>4, <2>5, <2>6, <1>2, AppendAged
<1>7. Aged(<< >>)
  BY DEF Aged
<1>8. Aged(wtx')
  BY <1>1, <1>2, <1>6, <1>7, DatabaseStep DEF DatabaseMoves
<1>9. ASSUME NEW u \in Updaters, NEW i \in DOMAIN queue'[u]
      PROVE  queue'[u][i].prev <= queue'[u][i].label
  <2> DEFINE q == queue[u]
  <2>1. q \in Seq(Block) /\ \A k \in DOMAIN q : q[k].prev <= q[k].label
    BY <1>1 DEF Typed, BranchesAge
  <2>2. CASE queue'[u] = q \/ queue'[u] = << >>
    BY <2>1, <2>2, <1>9
  <2>3. CASE Fetch(u) /\ queue'[u] = Append(q, chain[fetchNext[u] + 1])
    <3> DEFINE b == chain[fetchNext[u] + 1]
    <3>1. fetchNext[u] + 1 \in 1..Len(chain) /\ DOMAIN chain = 1..Len(chain)
      <4>1. fetchNext[u] \in Nat /\ fetchNext[u] < Len(chain) /\ Len(chain) \in Nat
            /\ DOMAIN chain = 1..Len(chain)
        BY <2>3, <1>1, SeqFacts DEF Fetch, Typed
      <4> QED BY <4>1
    <3>2. b \in Block /\ b.prev <= b.label
      BY <3>1, <1>1, SeqFacts DEF Typed, Parents, Aged
    <3> HIDE DEF b
    <3>3. queue'[u] = Append(q, b)
      BY <2>3 DEF b
    <3>4. Append(q, b) \in Seq(Block) /\ Len(Append(q, b)) = Len(q) + 1
          /\ (\A k \in 1..Len(q) : Append(q, b)[k] = q[k])
          /\ Append(q, b)[Len(q) + 1] = b
      BY <2>1, <3>2, AppendProperties
    <3>5. i \in 1..Len(q) \/ i = Len(q) + 1
      BY <1>9, <2>1, <3>3, <3>4, SeqFacts
    <3>6. \A k \in 1..Len(q) : k \in DOMAIN q
      BY <2>1, SeqFacts
    <3> QED BY <2>1, <3>2, <3>3, <3>4, <3>5, <3>6
  <2>4. CASE ApplyBlock(u) /\ queue'[u] = Tail(q)
    <3>1. q # << >>
      BY <2>4 DEF ApplyBlock
    <3>2. /\ Tail(q) \in Seq(Block) /\ Len(Tail(q)) = Len(q) - 1
          /\ \A k \in 1..Len(Tail(q)) : Tail(q)[k] = q[k + 1]
      BY <2>1, <3>1, HeadTailProperties
    <3>3. i \in 1..Len(Tail(q)) /\ i + 1 \in DOMAIN q
      BY <1>9, <2>1, <2>4, <3>2, SeqFacts
    <3> QED BY <2>1, <2>4, <3>2, <3>3
  <2> QED BY <2>2, <2>3, <2>4, <1>1, QueueStep DEF QueueMoves
<1> QED BY <1>4, <1>5, <1>8, <1>9 DEF BranchesAge

\* s begins with t.
Extends(s, t) == Len(t) <= Len(s) /\ \A i \in DOMAIN t : t[i] = s[i]
\* The oldest savepoint is on the chain c (OldestOnChain).
OldestOn(c) == savepoints # << >> /\ Extends(c, savepoints[1])

\* At most one reorg so far, and no failure.
Quiet == reorgs <= 1 /\ errors = 0 /\ crashes = 0

\* At this height the tip is near enough for a savepoint; it has been since the height
\* was indexed, for the chain only becomes longer.
Near(h) == (Len(chain) - 1) - h <= TipDistance
Longer == Len(chain) \in Nat /\ Len(chain') \in Nat /\ Len(chain) <= Len(chain')

\* Between a commit and its savepoint the savepoints are those of one block before.
Saving == {"savepoint", "delete", "create"}
Counted(u) == IF pc[u] \in Saving THEN Len(db) - 1 ELSE Len(db)
Rungs(u) == IF pc[u] = "create" THEN MaxSavepoints - 1 ELSE MaxSavepoints
\* q whole intervals are indexed, and the newest savepoints are at their ends, as far
\* down as the tip is near.
Rung(u, q) ==
  /\ q * Interval <= Counted(u)
  /\ Counted(u) < (q + 1) * Interval
  /\ \A i \in Nat : i < q /\ i < Rungs(u) /\ Near((q - i) * Interval) =>
       /\ i < Len(savepoints)
       /\ Len(savepoints[Len(savepoints) - i]) = (q - i) * Interval
\* Below MAX_SAVEPOINTS intervals, where every block of the first has a savepoint, or
\* too far from the tip for one at the lowest height that is counted on.
Low ==
  \/ Len(db) < MaxSavepoints * Interval
  \/ ~Near((Len(db) \div Interval - (MaxSavepoints - 1)) * Interval)

\* Nothing has been rolled back.
Standing(u) ==
  /\ \A j \in DOMAIN savepoints : Extends(db, savepoints[j])
  /\ pc[u] = "commit" => Len(wtx) = Len(db) + 1 /\ Extends(wtx, db)
  /\ pc[u] \in {"delete", "create"} => Len(db) < Interval \/ Len(db) % Interval = 0
  /\ \E q \in Nat : Rung(u, q)
  /\ pc[u] = "rollback" => OldestOn(chain) \/ Low
\* The queue holds what the node has now.
Fresh(u) ==
  Receiving(u) => \A i \in DOMAIN queue[u] : queue[u][i] = chain[height[u] + i]
\* The index is on the new branch.
Recovered(u) ==
  /\ reorgs = 1
  /\ Fresh(u)
  /\ Extends(chain, db)
  /\ pc[u] = "commit" => Extends(chain, wtx)
\* The index is rolled back again and again to a savepoint of the old branch.
Stuck(u) ==
  /\ reorgs = 1
  /\ Fresh(u)
  /\ Forked(db, chain)
  /\ Low
  /\ Len(savepoints) = 1 /\ savepoints[1] = db
  /\ pc[u] \in {"idle", "indexing", "detect", "rollback"}
\* What detect_reorg starts from.
Detecting(u) == pc[u] = "detect" => depth[u] >= 1 /\ height[u] = Len(db)

\* The invariant of one updater that commits every block.
Followed == Basics /\ Links /\ Room /\ AtMost /\ Ages /\ BranchesAge

\* Every step keeps the invariant that follows one updater.
LEMMA FollowedStep ==
  ASSUME Alone, CommitInterval = 1, Followed, [Next]_vars
  PROVE  Followed'
BY BasicsStep, LinksStep, RoomStep, AgesStep, BranchesAgeStep DEF Followed

\* It holds in the initial state.
LEMMA FollowedInit == Init => Followed
<1> SUFFICES ASSUME Init PROVE Followed
  OBVIOUS
<1>1. /\ db = << >> /\ wtx = << >> /\ savepoints = << >> /\ Len(savepoints) = 0
      /\ \A u \in Updaters : pc[u] = "idle" /\ queue[u] = << >>
  BY EmptySeq DEF Init
<1>2. NoNewer(<< >>, chain)
  BY BasicsInit, SeqFacts, EmptySeq DEF NoNewer, Basics, Typed
<1>3. Ages
  BY <1>1, <1>2 DEF Ages, InStep, Receiving
<1>4. Links
  BY DEF Init, Links, Connected
<1>5. Room /\ AtMost
  BY <1>1, UpdaterAssumption DEF Room, AtMost
<1>6. BranchesAge
  BY <1>1 DEF BranchesAge, Aged
<1> QED BY <1>3, <1>4, <1>5, <1>6, BasicsInit DEF Followed

\* What a step that leaves a quiet behaviour can be.
LEMMA QuietStep ==
  ASSUME Typed, [Next]_vars, Quiet'
  PROVE  /\ Quiet
         /\ \/ UNCHANGED vars
            \/ Mine
            \/ reorgs = 0 /\ \E d \in 1..MaxReorgDepth : Reorganize(d)
            \/ \E u \in Updaters : Update(u) \/ Fetch(u) \/ FetchEnd(u)
<1>a. reorgs \in Nat /\ errors \in Nat /\ crashes \in Nat
  BY DEF Typed
<1>b. \A n \in Nat : n + 1 # 0
  OBVIOUS
<1> USE DEF faults, node
<1>1. ASSUME NEW u \in Updaters, Update(u) PROVE UNCHANGED <<reorgs, errors, crashes>>
  BY <1>1 DEF Update, BeginUpdate, ApplyBlock, BeginDetect, DetectDeeper,
       DetectRecoverable, DetectUnrecoverable, Finish, Commit, ResumeUpdate,
       YieldUpdate, SkipSavepoint, BeginSavepoint, DeleteSavepoint, CreateSavepoint,
       Rollback, RollbackPanics
<1>2. ASSUME NEW u \in Updaters, Fetch(u) \/ FetchEnd(u)
      PROVE  UNCHANGED <<reorgs, errors, crashes>>
  BY <1>2 DEF Fetch, FetchEnd
<1>3. ASSUME NEW u \in Updaters, FetchError(u) \/ RpcError(u) PROVE FALSE
  BY <1>3, <1>a, <1>b DEF FetchError, RpcError, Quiet
<1>4. CASE Crash
  BY <1>4, <1>a, <1>b DEF Crash, Quiet
<1>5. CASE Mine
  BY <1>5 DEF Mine, Quiet
<1>6. ASSUME NEW d \in 1..MaxReorgDepth, Reorganize(d)
      PROVE  reorgs = 0 /\ errors' = errors /\ crashes' = crashes
  <2>1. reorgs' = reorgs + 1 /\ errors' = errors /\ crashes' = crashes
    BY <1>6 DEF Reorganize
  <2> QED BY <2>1, <1>a DEF Quiet
<1>7. CASE UNCHANGED vars
  BY <1>7 DEF vars, Quiet
<1>8. CASE \E u \in Updaters : Update(u) \/ Fetch(u) \/ FetchEnd(u)
  BY <1>8, <1>1, <1>2 DEF Quiet
<1>9. CASE \E d \in 1..MaxReorgDepth : Reorganize(d)
  BY <1>9, <1>6 DEF Quiet
<1> QED BY <1>3, <1>4, <1>5, <1>7, <1>8, <1>9 DEF Next, FetchThread

\* A chain does not extend an index that has forked from it.
LEMMA ForkedNotExtended ==
  ASSUME NEW s \in Seq(Block), NEW c \in Seq(Block), Forked(s, c)
  PROVE  ~Extends(c, s)
<1>1. Len(s) \in Nat /\ Len(s) # 0 /\ DOMAIN s = 1..Len(s)
  BY SeqFacts DEF Forked
<1>2. Len(s) \in DOMAIN s
  BY <1>1
<1>3. s[Len(s)].label \in Nat
  BY <1>1, <1>2, SeqFacts
<1>4. s[Len(s)] # c[Len(s)]
  <2> SUFFICES ASSUME s[Len(s)] = c[Len(s)] PROVE FALSE
    OBVIOUS
  <2>1. s[Len(s)].label < s[Len(s)].label
    BY DEF Forked
  <2> QED BY <2>1, <1>3
<1> QED BY <1>2, <1>4 DEF Extends

\* To extend is to have as a prefix.
LEMMA ExtendsIsPrefix ==
  ASSUME NEW s \in Seq(Block), NEW c \in Seq(Block), Extends(c, s)
  PROVE  IsPrefix(s, c)
<1> DEFINE n == Len(s)
<1>1. n \in Nat /\ n <= Len(c) /\ Len(c) \in Nat /\ DOMAIN s = 1..n
  BY SeqFacts DEF Extends
<1>2. \A i \in 1..n : s[i] \in Block /\ c[i] \in Block /\ s[i] = c[i]
  <2>1. \A i \in 1..n : i \in 1..Len(c)
    BY <1>1
  <2> QED BY <2>1, <1>1, SeqFacts DEF Extends
<1> HIDE DEF n
<1>3. /\ SubSeq(s, 1, n) \in Seq(Block) /\ Len(SubSeq(s, 1, n)) = n
      /\ \A i \in 1..n : SubSeq(s, 1, n)[i] = s[i]
  BY <1>1, <1>2, SubSeqProperties
<1>4. /\ SubSeq(c, 1, n) \in Seq(Block) /\ Len(SubSeq(c, 1, n)) = n
      /\ \A i \in 1..n : SubSeq(c, 1, n)[i] = c[i]
  BY <1>1, <1>2, SubSeqProperties
<1>5. SubSeq(s, 1, n) = SubSeq(c, 1, n)
  BY <1>2, <1>3, <1>4, SeqEqual
<1> QED BY <1>1, <1>5 DEF IsPrefix, n

\* A block is its three fields.
LEMMA SameBlock ==
  ASSUME NEW a \in Block, NEW b \in Block,
         a.height = b.height, a.label = b.label, a.prev = b.prev
  PROVE  a = b
BY DEF Block

\* There is one block of the first branch at a height.
LEMMA FirstBranch ==
  ASSUME NEW s \in Seq(Block), NEW c \in Seq(Block), Numbered(s), Numbered(c),
         Aged(s), Aged(c), NEW i \in DOMAIN s, i \in DOMAIN c,
         s[i].label = 0, c[i].label = 0
  PROVE  s[i] = c[i]
<1>1. i \in 1..Len(s) /\ i \in 1..Len(c)
  BY SeqFacts
<1>2. s[i] \in Block /\ c[i] \in Block /\ s[i].prev \in Nat /\ c[i].prev \in Nat
  BY <1>1, SeqFacts
<1>3. s[i].prev = 0 /\ c[i].prev = 0
  <2>1. s[i].prev <= 0 /\ c[i].prev <= 0
    BY DEF Aged
  <2> QED BY <2>1, <1>2
<1>4. s[i].height = c[i].height
  BY DEF Numbered
<1> QED BY <1>2, <1>3, <1>4, SameBlock

-----------------------------------------------------------------------------
(* Where the savepoints are. *)

\* Arithmetic of the intervals.
LEMMA DivMod ==
  ASSUME NEW h \in Nat, NEW d \in Nat \ {0}
  PROVE  /\ h % d \in 0..(d - 1) /\ h \div d \in Nat
         /\ h = d * (h \div d) + (h % d)
OBVIOUS

\* A sum of intervals.
LEMMA Distribute ==
  \A a, b, d \in Int : (a + b) * d = a * d + b * d /\ 1 * d = d /\ 0 * d = 0 /\ a * d \in Int
OBVIOUS

\* More intervals are longer.
LEMMA TimesMono == \A a, b, d \in Nat : a <= b => a * d <= b * d
OBVIOUS

\* Intervals are natural numbers long.
LEMMA TimesNat == \A a, b \in Nat : a * b \in Nat
<1> SUFFICES ASSUME NEW a \in Nat, NEW b \in Nat PROVE a * b \in Nat
  OBVIOUS
<1>1. a * b \in Int /\ 0 * b <= a * b /\ 0 * b = 0
  BY Distribute, TimesMono
<1> QED BY <1>1

\* The remainder is what is above the last whole interval.
LEMMA Remainder ==
  ASSUME NEW h \in Nat, NEW d \in Nat \ {0}, NEW q \in Nat,
         q * d <= h, h < (q + 1) * d
  PROVE  h % d = h - q * d /\ h \div d = q
<1> DEFINE k == h \div d
           r == h % d
<1>1. k \in Nat /\ r \in Nat /\ r < d /\ h = k * d + r
  BY DivMod
<1>2. (q + 1) * d = q * d + d /\ (k + 1) * d = k * d + d /\ q * d \in Nat /\ k * d \in Nat
  BY <1>1, Distribute
<1> HIDE DEF k, r
<1>3. ~(q + 1 <= k)
  <2>1. q + 1 <= k => (q + 1) * d <= k * d
    BY <1>1, TimesMono
  <2> QED BY <2>1, <1>1, <1>2
<1>4. ~(k + 1 <= q)
  <2>1. k + 1 <= q => (k + 1) * d <= q * d
    BY <1>1, TimesMono
  <2> QED BY <2>1, <1>1, <1>2
<1>5. k = q
  BY <1>1, <1>3, <1>4
<1>6. r = h - q * d
  BY <1>1, <1>2, <1>5
<1> QED BY <1>5, <1>6 DEF r, k

\* What is longer has more intervals.
LEMMA TimesBack == \A a, b \in Nat, d \in Nat \ {0} : a * d < b * d => a < b
BY TimesMono

\* One block more: either the interval goes on, or a whole one more is indexed.
LEMMA NextRung ==
  ASSUME NEW h \in Nat, h >= 1, NEW d \in Nat \ {0}, NEW q \in Nat,
         q * d <= h - 1, h - 1 < (q + 1) * d
  PROVE  /\ h % d # 0 => h < (q + 1) * d
         /\ h % d = 0 => h = (q + 1) * d
         /\ h < d => q = 0
         /\ h < (q + 1 + 1) * d
<1>1. (q + 1) * d = q * d + d /\ (q + 1 + 1) * d = (q + 1) * d + d
      /\ q * d \in Nat /\ (q + 1) * d \in Nat
  BY Distribute
<1>2. h <= (q + 1) * d /\ q * d <= h /\ q * d # h
  BY <1>1
<1>3. h < (q + 1) * d => h % d = h - q * d
  BY <1>2, Remainder
<1>4. h = (q + 1) * d => h % d = h - (q + 1) * d
  <2>1. ASSUME h = (q + 1) * d PROVE (q + 1) * d <= h /\ h < (q + 1 + 1) * d
    BY <2>1, <1>1
  <2> QED BY <2>1, Remainder
<1>5. h - q * d # 0
  BY <1>1, <1>2
<1>6. h = (q + 1) * d => h - (q + 1) * d = 0
  BY <1>1
<1>7. h < d => q = 0
  <2>1. q >= 1 => 1 * d <= q * d
    BY TimesMono
  <2> QED BY <2>1, <1>1, <1>2, Distribute
<1>8. h < (q + 1 + 1) * d
  BY <1>1, <1>2
<1>9. h = (q + 1) * d \/ h < (q + 1) * d
  BY <1>1, <1>2
<1> QED BY <1>3, <1>4, <1>5, <1>6, <1>7, <1>8, <1>9

\* Where the tip is near it has been.
LEMMA NearStays ==
  ASSUME Longer, NEW h \in Int, Near(h)'
  PROVE  Near(h)
BY UpdaterAssumption DEF Longer, Near

\* The heights that are counted on.
LEMMA CountedOn ==
  ASSUME NEW h \in Nat
  PROVE  (h \div Interval - (MaxSavepoints - 1)) * Interval \in Int
<1>1. Interval \in Nat \ {0} /\ MaxSavepoints \in Nat
  BY UpdaterAssumption
<1>2. h \div Interval \in Nat
  BY <1>1, DivMod
<1>3. h \div Interval - (MaxSavepoints - 1) \in Int
  BY <1>1, <1>2
<1> QED BY <1>1, <1>3, Distribute

\* A low index remains low.
LEMMA LowStays ==
  ASSUME Longer, Low, UNCHANGED db, Len(db) \in Nat
  PROVE  Low'
<1> DEFINE c == (Len(db) \div Interval - (MaxSavepoints - 1)) * Interval
<1>1. CASE Len(db) < MaxSavepoints * Interval
  BY <1>1 DEF Low
<1>2. CASE ~Near(c)
  <2>1. PICK h \in Int : h = c
    BY CountedOn
  <2> HIDE DEF c
  <2>2. ~Near(h)'
    BY <1>2, <2>1, NearStays
  <2>3. c' = c
    BY DEF c
  <2>4. ~Near(c)'
    BY <2>1, <2>2, <2>3 DEF Near
  <2> QED BY <2>4 DEF Low, c
<1> QED BY <1>1, <1>2 DEF Low

\* The queue after a step without a reorg.
LEMMA FreshFetch ==
  ASSUME Followed, NEW v \in Updaters, Fresh(v), Fetch(v)
  PROVE  Fresh(v)'
<1> DEFINE q == queue[v]
           h == height[v]
           b == chain[fetchNext[v] + 1]
<1>1. queue \in [Updaters -> Seq(Block)] /\ height \in [Updaters -> Nat] /\ chain \in Seq(Block)
  BY DEF Followed, Basics, Typed
<1>2. /\ Receiving(v) /\ fetchNext[v] < Len(chain) /\ queue'[v] = Append(q, b)
      /\ UNCHANGED <<height, chain>>
  BY <1>1 DEF Fetch, locals, node
<1>3. Fetched(v)
  BY <1>2 DEF Followed, Ages, InStep
<1>4. fetchNext[v] = h + Len(q) /\ h \in Nat /\ Len(q) \in Nat /\ Len(chain) \in Nat
      /\ DOMAIN q = 1..Len(q)
  BY <1>1, <1>3, SeqFacts DEF Fetched
<1>5. b \in Block
  <2>1. fetchNext[v] + 1 \in 1..Len(chain)
    BY <1>2, <1>4
  <2> QED BY <2>1, <1>1, SeqFacts
<1>6. b = chain[h + (Len(q) + 1)]
  <2>1. fetchNext[v] + 1 = h + (Len(q) + 1)
    BY <1>4
  <2> QED BY <2>1
<1> HIDE DEF b, h
<1>7. /\ Append(q, b) \in Seq(Block) /\ Len(Append(q, b)) = Len(q) + 1
      /\ \A i \in 1..Len(q) : Append(q, b)[i] = q[i]
      /\ Append(q, b)[Len(q) + 1] = b
  BY <1>1, <1>5, AppendProperties
<1>8. ASSUME NEW i \in DOMAIN queue'[v] PROVE queue'[v][i] = chain'[height'[v] + i]
  <2>1. i \in 1..(Len(q) + 1)
    BY <1>8, <1>2, <1>7, SeqFacts
  <2>2. CASE i \in 1..Len(q)
    <3>1. q[i] = chain[h + i]
      BY <2>2, <1>2, <1>4 DEF Fresh, h
    <3> QED BY <3>1, <2>2, <1>2, <1>7 DEF h
  <2>3. CASE i = Len(q) + 1
    BY <2>3, <1>2, <1>6, <1>7 DEF h
  <2> QED BY <2>1, <2>2, <2>3, <1>4
<1> QED BY <1>8 DEF Fresh

\* A block that is applied leaves the rest of the queue fresh.
LEMMA FreshApply ==
  ASSUME Followed, NEW v \in Updaters, Fresh(v), ApplyBlock(v)
  PROVE  Fresh(v)'
<1> DEFINE q == queue[v]
           h == height[v]
<1>1. queue \in [Updaters -> Seq(Block)] /\ height \in [Updaters -> Nat]
  BY DEF Followed, Basics, Typed
<1>2. /\ Receiving(v) /\ queue'[v] = Tail(q) /\ q # << >> /\ height'[v] = h + 1
      /\ chain' = chain
  BY <1>1 DEF ApplyBlock, node, Receiving
<1>3. /\ Tail(q) \in Seq(Block) /\ Len(Tail(q)) = Len(q) - 1
      /\ \A i \in 1..Len(Tail(q)) : Tail(q)[i] = q[i + 1]
  BY <1>1, <1>2, HeadTailProperties
<1>4. h \in Nat /\ Len(q) \in Nat /\ DOMAIN q = 1..Len(q)
  BY <1>1, SeqFacts
<1>5. ASSUME NEW i \in DOMAIN queue'[v] PROVE queue'[v][i] = chain'[height'[v] + i]
  <2>1. i \in 1..Len(Tail(q)) /\ i + 1 \in DOMAIN q /\ i \in Nat
    BY <1>5, <1>2, <1>3, <1>4, SeqFacts
  <2>2. q[i + 1] = chain[h + (i + 1)]
    BY <2>1, <1>2 DEF Fresh
  <2>3. h + (i + 1) = (h + 1) + i
    BY <2>1, <1>4, Shift
  <2> QED BY <2>1, <2>2, <2>3, <1>2, <1>3
<1> QED BY <1>5 DEF Fresh

\* A block that is mined leaves those below it.
LEMMA MineKeeps ==
  ASSUME Typed, Heights, Mine
  PROVE  /\ \A i \in 1..Len(chain) : chain'[i] = chain[i]
         /\ Len(chain') = Len(chain) + 1
<1> DEFINE b == [height |-> Len(chain), label |-> reorgs, prev |-> Tip.label]
<1>1. Len(chain) \in Nat /\ Len(chain) # 0 /\ chain \in Seq(Block) /\ reorgs \in Nat
  BY SeqFacts DEF Typed, Heights
<1>2. Len(chain) \in 1..Len(chain)
  BY <1>1
<1>3. Tip.label \in Nat
  BY <1>1, <1>2, SeqFacts DEF Tip
<1>4. b \in Block
  BY <1>1, <1>3 DEF Block
<1> HIDE DEF b
<1>5. chain' = Append(chain, b)
  BY DEF Mine, b
<1> QED BY <1>1, <1>4, <1>5, AppendProperties

\* It leaves the queue fresh.
LEMMA FreshMine ==
  ASSUME Followed, NEW v \in Updaters, Fresh(v), Mine
  PROVE  Fresh(v)'
<1>1. /\ queue \in [Updaters -> Seq(Block)] /\ height \in [Updaters -> Nat]
      /\ chain \in Seq(Block) /\ Len(chain) \in Nat
  BY SeqFacts DEF Followed, Basics, Typed
<1>2. UNCHANGED <<queue, height, pc>>
  BY DEF Mine, fetcher, locals
<1>3. ASSUME Receiving(v), NEW i \in DOMAIN queue[v]
      PROVE  queue[v][i] = chain'[height[v] + i]
  <2>1. i \in 1..Len(queue[v]) /\ height[v] \in Nat /\ Len(queue[v]) \in Nat
    BY <1>1, SeqFacts
  <2>2. height[v] + i <= Len(chain)
    BY <1>3 DEF Followed, Ages, InStep, Fetched, QueueFits
  <2>3. height[v] + i \in 1..Len(chain)
    BY <2>1, <2>2, <1>1
  <2> QED BY <2>3, <1>3, MineKeeps DEF Fresh, Followed, Basics
<1> QED BY <1>2, <1>3 DEF Fresh, Receiving

\* As long as the node does not reorganize, the queue stays fresh.
LEMMA FreshStep ==
  ASSUME Alone, Followed, NEW v \in Updaters, Fresh(v),
         \/ UNCHANGED vars
         \/ Mine
         \/ \E u \in Updaters : Update(u) \/ Fetch(u) \/ FetchEnd(u)
  PROVE  Fresh(v)'
<1>a. /\ queue \in [Updaters -> Seq(Block)] /\ height \in [Updaters -> Nat]
      /\ pc \in [Updaters -> Phases]
  BY DEF Followed, Basics, Typed
<1>0. ASSUME UNCHANGED <<queue, height, chain>>, Receiving(v)' => Receiving(v)
      PROVE  Fresh(v)'
  BY <1>0 DEF Fresh
<1>b. ASSUME queue'[v] = << >> PROVE Fresh(v)'
  BY <1>b DEF Fresh
<1> USE DEF fetcher, locals, node
<1>1. ASSUME Update(v) PROVE Fresh(v)'
  <2>1. CASE BeginUpdate(v)
    <3>1. queue[v] = << >> /\ queue' = queue
      BY <2>1 DEF BeginUpdate, Followed, Ages, InStep, Receiving
    <3> QED BY <3>1, <1>b
  <2>2. CASE BeginDetect(v) \/ DetectDeeper(v) \/ Rollback(v) \/ RollbackPanics(v)
    <3>1. UNCHANGED <<queue, height, chain>> /\ pc'[v] \in {"detect", "idle", "panicked"}
      BY <2>2, <1>a DEF BeginDetect, DetectDeeper, Rollback, RollbackPanics, Goto
    <3> QED BY <3>1, <1>0 DEF Receiving
  <2>3. CASE Commit(v) \/ ResumeUpdate(v) \/ BeginSavepoint(v) \/ DeleteSavepoint(v)
    <3>1. UNCHANGED <<queue, height, chain>> /\ Receiving(v)
      BY <2>3 DEF Commit, ResumeUpdate, BeginSavepoint, DeleteSavepoint, Receiving
    <3> QED BY <3>1, <1>0
  <2>4. CASE DetectRecoverable(v) \/ DetectUnrecoverable(v) \/ YieldUpdate(v)
    BY <2>4, <1>a, <1>b DEF DetectRecoverable, DetectUnrecoverable, YieldUpdate, Drop
  <2>5. CASE Finish(v) \/ SkipSavepoint(v) \/ CreateSavepoint(v)
    <3>1. Receiving(v)
      BY <2>5 DEF Finish, SkipSavepoint, CreateSavepoint, Receiving
    <3>2. UNCHANGED <<queue, height, chain>> \/ queue'[v] = << >>
      BY <2>5, <1>a DEF Finish, SkipSavepoint, CreateSavepoint, AfterSavepoint, Drop
    <3> QED BY <3>1, <3>2, <1>0, <1>b
  <2> QED BY <1>1, <2>1, <2>2, <2>3, <2>4, <2>5, FreshApply DEF Update
<1>2. ASSUME FetchEnd(v) PROVE Fresh(v)'
  BY <1>2, <1>0 DEF FetchEnd, Receiving
<1>3. CASE UNCHANGED vars
  BY <1>3, <1>0 DEF vars, Receiving
<1> QED BY <1>1, <1>2, <1>3, FreshFetch, FreshMine DEF Alone

\* The first block of a fresh queue is the node's, and the child of the node's block
\* below it.
LEMMA FreshHead ==
  ASSUME Followed, NEW v \in Updaters, Fresh(v), pc[v] = "indexing", queue[v] # << >>
  PROVE  /\ wtx = db /\ height[v] = Len(db) /\ Len(db) \in Nat
         /\ Len(db) + 1 \in 1..Len(chain)
         /\ Head(queue[v]) = chain[Len(db) + 1]
         /\ Head(queue[v]).height = Len(db)
         /\ db # << >> => Head(queue[v]).prev = chain[Len(db)].label
<1>1. /\ queue[v] \in Seq(Block) /\ chain \in Seq(Block) /\ db \in Seq(Block)
  BY DEF Followed, Basics, Typed
<1>2. wtx = db /\ writer = v /\ height[v] = Len(db)
  BY DEF Followed, Links, Basics, OneWriter, Holding, Heights
<1>3. Len(db) \in Nat /\ Len(chain) \in Nat /\ Len(queue[v]) \in Nat /\ Len(queue[v]) # 0
      /\ DOMAIN queue[v] = 1..Len(queue[v]) /\ (db # << >> => Len(db) >= 1)
  BY <1>1, SeqFacts
<1>4. 1 \in DOMAIN queue[v] /\ Head(queue[v]) = queue[v][1]
  BY <1>3
<1>5. Receiving(v)
  BY DEF Receiving
<1>6. queue[v][1] = chain[Len(db) + 1]
  BY <1>2, <1>4, <1>5 DEF Fresh
<1>7. queue[v][1].height = Len(db) + (1 - 1) /\ Len(db) + 1 <= Len(chain)
  BY <1>2, <1>4, <1>5 DEF Followed, Ages, InStep, Fetched, QueueFits
<1>8. Len(db) + 1 \in 1..Len(chain)
  BY <1>3, <1>7
<1>9. db # << >> => chain[Len(db) + 1].prev = chain[Len(db)].label
  <2>1. db # << >> => Len(db) + 1 \in 2..Len(chain) /\ (Len(db) + 1) - 1 = Len(db)
    BY <1>3, <1>8
  <2> QED BY <2>1 DEF Followed, Basics, Parents
<1>10. Len(db) + (1 - 1) = Len(db)
  BY <1>3
<1> QED BY <1>2, <1>3, <1>4, <1>6, <1>7, <1>8, <1>9, <1>10

\* A queue that is fresh does not continue an index that is stuck.
LEMMA StuckStops ==
  ASSUME Followed, NEW v \in Updaters, Stuck(v), ApplyBlock(v)
  PROVE  FALSE
<1>1. pc[v] = "indexing" /\ queue[v] # << >>
  BY DEF ApplyBlock
<1>2. /\ db # << >> /\ Len(db) <= Len(chain) /\ db[Len(db)].label < chain[Len(db)].label
  BY DEF Stuck, Forked
<1>3. Head(queue[v]).prev = db[Len(db)].label
  BY <1>2, ApplyContinues DEF Followed
<1>4. Head(queue[v]).prev = chain[Len(db)].label
  BY <1>1, <1>2, FreshHead DEF Stuck
<1>5. db[Len(db)].label \in Nat
  <2>1. db \in Seq(Block)
    BY DEF Followed, Basics, Typed
  <2>2. Len(db) \in Nat /\ Len(db) # 0
    BY <2>1, <1>2, SeqFacts
  <2>3. Len(db) \in 1..Len(db)
    BY <2>2
  <2> QED BY <2>1, <2>3, SeqFacts
<1> QED BY <1>2, <1>3, <1>4, <1>5

\* A stuck index stays so: it is rolled back to the same savepoint again.
LEMMA StuckStep ==
  ASSUME Alone, Followed, Followed', [Next]_vars, Quiet', NEW v \in Updaters, Stuck(v),
         \/ UNCHANGED vars
         \/ Mine
         \/ \E u \in Updaters : Update(u) \/ Fetch(u) \/ FetchEnd(u)
  PROVE  Stuck(v)'
<1>a. pc \in [Updaters -> Phases] /\ db \in Seq(Block) /\ uncommitted[v] = 0
  BY DEF Followed, Basics, Typed, Links
<1>b. Fresh(v)' /\ Forked(db, chain')
  BY <1>a, FreshStep, ForkedStays DEF Stuck, Followed
<1>d. UNCHANGED db => Low'
  <2>1. Longer
    BY ChainNewer, SeqFacts DEF Followed, Basics, Typed, Longer
  <2>2. Len(db) \in Nat
    BY <1>a, SeqFacts
  <2> QED BY <2>1, <2>2, LowStays DEF Stuck
<1>c. reorgs = 1 /\ Low /\ Len(savepoints) = 1 /\ savepoints[1] = db
      /\ pc[v] \in {"idle", "indexing", "detect", "rollback"}
  BY DEF Stuck
<1>0. ASSUME UNCHANGED <<reorgs, db, savepoints>>,
             pc'[v] \in {"idle", "indexing", "detect", "rollback"}
      PROVE  Stuck(v)'
  BY <1>0, <1>b, <1>c, <1>d DEF Stuck
<1> USE DEF node, database
<1>1. ASSUME Update(v) PROVE Stuck(v)'
  <2>1. CASE BeginUpdate(v) \/ BeginDetect(v) \/ DetectDeeper(v) \/ DetectRecoverable(v)
             \/ DetectUnrecoverable(v)
    BY <2>1, <1>0, <1>a DEF BeginUpdate, BeginDetect, DetectDeeper,
      DetectRecoverable,
                            DetectUnrecoverable, Goto
  <2>2. CASE Finish(v)
    BY <2>2, <1>0, <1>a DEF Finish, Goto
  <2>3. CASE Rollback(v)
    <3>1. savepoints' = SubSeq(savepoints, 1, 1) /\ db' = db /\ reorgs' = reorgs /\ pc'[v] = "idle"
      BY <2>3, <1>a, <1>c DEF Rollback, RemainingSavepoints, OldestSavepoint, Goto
    <3>2. \A i \in 1..1 : savepoints[i] \in Seq(Block)
      BY <1>a, <1>c
    <3>3. Len(savepoints') = 1 /\ savepoints'[1] = savepoints[1]
      BY <3>1, <3>2, SubSeqProperties
    <3> QED BY <3>1, <3>3, <1>b, <1>c, <1>d DEF Stuck
  <2>4. CASE ApplyBlock(v)
    BY <2>4, StuckStops
  <2> QED BY <1>1, <1>c, <2>1, <2>2, <2>3, <2>4 DEF Update, Commit, ResumeUpdate,
       YieldUpdate, SkipSavepoint, BeginSavepoint, DeleteSavepoint, CreateSavepoint,
       RollbackPanics
<1>2. ASSUME Fetch(v) \/ FetchEnd(v) PROVE Stuck(v)'
  BY <1>2, <1>0, <1>c DEF Fetch, FetchEnd
<1>3. CASE Mine
  BY <1>3, <1>0, <1>c DEF Mine
<1>4. CASE UNCHANGED vars
  BY <1>4, <1>0, <1>c DEF vars
<1> QED BY <1>1, <1>2, <1>3, <1>4 DEF Alone

\* An index on the new branch stays on it.
LEMMA RecoveredStep ==
  ASSUME Alone, Followed, Followed', [Next]_vars, Quiet', NEW v \in Updaters, Recovered(v),
         \/ UNCHANGED vars
         \/ Mine
         \/ \E u \in Updaters : Update(u) \/ Fetch(u) \/ FetchEnd(u)
  PROVE  Recovered(v)'
<1>a. /\ pc \in [Updaters -> Phases] /\ db \in Seq(Block) /\ chain \in Seq(Block)
      /\ chain' \in Seq(Block) /\ wtx \in Seq(Block)
      /\ uncommitted[v] = 0
  BY DEF Followed, Basics, Typed, Links
<1>b. Fresh(v)'
  BY FreshStep DEF Recovered
<1>c. reorgs = 1 /\ Extends(chain, db) /\ (pc[v] = "commit" => Extends(chain, wtx))
  BY DEF Recovered
<1>d. pc[v] \notin {"detect", "rollback"}
  BY <1>a, <1>c, ForkedNotExtended DEF Followed, Ages, InStep
<1>0. ASSUME UNCHANGED <<reorgs, chain, db>>,
             pc'[v] = "commit" => pc[v] = "commit" /\ wtx' = wtx
      PROVE  Recovered(v)'
  BY <1>0, <1>b, <1>c DEF Recovered
<1> USE DEF node, database, transaction
<1>1. ASSUME Update(v) PROVE Recovered(v)'
  <2>1. CASE BeginUpdate(v) \/ ResumeUpdate(v) \/ BeginSavepoint(v) \/ DeleteSavepoint(v)
             \/ YieldUpdate(v) \/ SkipSavepoint(v) \/ CreateSavepoint(v)
    <3>1. UNCHANGED <<reorgs, chain, db>> /\ pc'[v] # "commit"
      BY <2>1, <1>a DEF BeginUpdate, ResumeUpdate, BeginSavepoint, DeleteSavepoint,
           YieldUpdate, SkipSavepoint, CreateSavepoint, AfterSavepoint, Goto
    <3> QED BY <3>1, <1>0
  <2>2. CASE Finish(v)
    BY <2>2, <1>0, <1>a DEF Finish, Goto
  <2>3. CASE BeginDetect(v)
    BY <2>3, <1>a, <1>c, DetectForks, ForkedNotExtended DEF Followed
  <2>4. CASE Commit(v)
    <3>1. db' = wtx /\ pc[v] = "commit" /\ pc'[v] = "savepoint" /\ UNCHANGED <<reorgs, chain>>
      BY <2>4, <1>a DEF Commit, Goto
    <3> QED BY <3>1, <1>b, <1>c DEF Recovered
  <2>5. CASE ApplyBlock(v)
    <3> DEFINE b == [Head(queue[v]) EXCEPT !.height = height[v]]
               n == Len(wtx)
    <3>1. /\ queue[v] # << >> /\ n = height[v]
          /\ wtx' \in Seq(Block) /\ Len(wtx') = n + 1 /\ DOMAIN wtx' = 1..(n + 1)
          /\ \A i \in 1..n : wtx'[i] = wtx[i]
          /\ wtx'[n + 1] = b
          /\ b \in Block /\ b.height = height[v]
          /\ b.label = Head(queue[v]).label /\ b.prev = Head(queue[v]).prev
      BY <2>5, ApplyAppends DEF Followed, Basics
    <3>2. /\ wtx = db /\ height[v] = Len(db) /\ Len(db) \in Nat
          /\ Len(db) + 1 \in 1..Len(chain)
          /\ Head(queue[v]) = chain[Len(db) + 1] /\ Head(queue[v]).height = Len(db)
      BY <2>5, <3>1, FreshHead DEF ApplyBlock, Recovered
    <3>3. b = chain[n + 1]
      <4>1. chain[Len(db) + 1] \in Block
        BY <3>2, <1>a, SeqFacts
      <4> HIDE DEF b
      <4> QED BY <3>1, <3>2, <4>1, SameBlock
    <3> HIDE DEF b
    <3>4. UNCHANGED <<reorgs, chain, db>>
      BY <2>5 DEF ApplyBlock
    <3>5. DOMAIN wtx = 1..n /\ Len(chain) \in Nat
      BY <1>a, SeqFacts
    <3> HIDE DEF n
    <3>6. ASSUME NEW i \in DOMAIN wtx' PROVE wtx'[i] = chain[i]
      <4>1. CASE i \in 1..n
        BY <4>1, <1>c, <3>1, <3>2, <3>5 DEF Extends
      <4>2. CASE i = n + 1
        BY <4>2, <3>1, <3>3
      <4> QED BY <4>1, <4>2, <3>1, <3>2 DEF n
    <3>7. Len(wtx') <= Len(chain)
      BY <3>1, <3>2, <3>5 DEF n
    <3>8. Extends(chain, wtx')
      BY <3>6, <3>7 DEF Extends
    <3> QED BY <3>4, <3>8, <1>b, <1>c DEF Recovered
  <2> QED BY <1>1, <1>d, <2>1, <2>2, <2>3, <2>4, <2>5 DEF Update, DetectDeeper,
       DetectRecoverable, DetectUnrecoverable, Rollback, RollbackPanics
<1>2. ASSUME Fetch(v) \/ FetchEnd(v) PROVE Recovered(v)'
  BY <1>2, <1>0 DEF Fetch, FetchEnd
<1>3. CASE Mine
  <2>1. \A i \in 1..Len(chain) : chain'[i] = chain[i]
    BY <1>3, MineKeeps DEF Followed, Basics
  <2>2. Len(chain') = Len(chain) + 1 /\ Len(chain) \in Nat
    BY <1>3, <1>a, MineKeeps, SeqFacts DEF Followed, Basics
  <2>3. ASSUME NEW s \in Seq(Block), Extends(chain, s) PROVE Extends(chain', s)
    <3>1. Len(s) \in Nat /\ DOMAIN s = 1..Len(s) /\ Len(s) <= Len(chain)
      BY <2>3, SeqFacts DEF Extends
    <3>2. Len(s) <= Len(chain') /\ \A i \in DOMAIN s : i \in 1..Len(chain)
      BY <2>2, <3>1
    <3> QED BY <2>1, <2>3, <3>2 DEF Extends
  <2>4. UNCHANGED <<reorgs, db, wtx, pc>>
    BY <1>3 DEF Mine
  <2> QED BY <2>3, <2>4, <1>a, <1>b, <1>c DEF Recovered
<1>4. CASE UNCHANGED vars
  BY <1>4, <1>0 DEF vars
<1> QED BY <1>1, <1>2, <1>3, <1>4 DEF Alone

\* The depth that detect_reorg finds is above the oldest savepoint.
LEMMA Recoverable ==
  ASSUME Followed, Quiet, NEW v \in Updaters, Standing(v), Detecting(v), ~Low,
         DetectRecoverable(v)
  PROVE  OldestOn(chain)
<1> DEFINE h == Len(db)
           K == MaxSavepoints
           d == depth[v]
           p == (h - d) + 1
<1>1. pc[v] = "detect" /\ d < MaxRecoverableDepth(v) /\ AgreesAtDepth(v)
  BY DEF DetectRecoverable
<1>2. d >= 1 /\ height[v] = h
  BY <1>1 DEF Detecting
<1>3. /\ db \in Seq(Block) /\ chain \in Seq(Block) /\ h \in Nat /\ d \in Nat
      /\ DOMAIN db = 1..h /\ Len(chain) \in Nat /\ DOMAIN chain = 1..Len(chain)
      /\ Len(savepoints) \in Nat
      /\ Numbered(db) /\ Numbered(chain) /\ Aged(db) /\ Aged(chain)
  BY SeqFacts, LenProperties DEF Followed, Basics, Typed, Heights, Parents,
    BranchesAge
<1>4. Forked(db, chain) /\ reorgs <= 1
  BY <1>1 DEF Followed, Ages, InStep, Quiet
<1>5. PICK q \in Nat : Rung(v, q)
  BY DEF Standing
<1>6. Counted(v) = h /\ Rungs(v) = K
  BY <1>1 DEF Counted, Rungs, Saving
<1>7. /\ Interval \in Nat \ {0} /\ K \in Nat \ {0} /\ MaxSavepoints \in Nat \ {0}
  BY UpdaterAssumption
<1>8. q * Interval <= h /\ h < (q + 1) * Interval
  BY <1>5, <1>6 DEF Rung
<1>9. q >= K
  <2>1. K * Interval <= h /\ K * Interval \in Nat /\ (q + 1) * Interval \in Nat
    <3>1. ~(h < K * Interval)
      BY DEF Low
    <3>2. K * Interval \in Nat /\ (q + 1) * Interval \in Nat
      BY <1>7, TimesNat
    <3> HIDE DEF h, K
    <3> QED BY <3>1, <3>2, <1>3
  <2>2. K * Interval < (q + 1) * Interval
    BY <1>8, <1>3, <2>1
  <2>3. K < q + 1
    BY <2>2, <1>7, TimesBack
  <2> QED BY <2>3, <1>7
<1>10. h % Interval = h - q * Interval /\ q * Interval \in Nat /\ h \div Interval = q
  <2>1. h \in Nat /\ Interval \in Nat \ {0} /\ Interval \in Nat
    BY <1>3, <1>7
  <2> HIDE DEF h
  <2>2. h % Interval = h - q * Interval /\ h \div Interval = q
    BY <1>8, <2>1, Remainder
  <2> QED BY <2>1, <2>2, TimesNat
<1>11. /\ Len(savepoints) = K /\ savepoints # << >>
       /\ Len(savepoints[1]) = (q - (K - 1)) * Interval
  <2>1. K - 1 \in Nat /\ K - 1 < q /\ K - 1 < K
    BY <1>7, <1>9
  <2>a. Near((q - (K - 1)) * Interval)
    BY <1>10 DEF Low
  <2>2. /\ K - 1 < Len(savepoints)
        /\ Len(savepoints[Len(savepoints) - (K - 1)]) = (q - (K - 1)) * Interval
    BY <1>5, <1>6, <2>1, <2>a DEF Rung
  <2>3. Len(savepoints) <= K
    BY DEF Followed, AtMost
  <2>4. Len(savepoints) = K /\ Len(savepoints) - (K - 1) = 1
    BY <2>2, <2>3, <1>3, <1>7
  <2>5. savepoints # << >>
    BY <2>4, <1>7, EmptySeq
  <2> QED BY <2>2, <2>4, <2>5
<1> HIDE DEF h, K, d
<1>12. (q - (K - 1)) * Interval = q * Interval - (K - 1) * Interval /\ (K - 1) * Interval \in Int
  <2>1. q - (K - 1) \in Int /\ K - 1 \in Int /\ (q - (K - 1)) + (K - 1) = q
    BY <1>7
  <2>2. ((q - (K - 1)) + (K - 1)) * Interval
           = (q - (K - 1)) * Interval + (K - 1) * Interval
        /\ (q - (K - 1)) * Interval \in Int /\ (K - 1) * Interval \in Int
    BY <2>1, <1>7, Distribute
  <2> QED BY <2>1, <2>2, <1>10
<1>13. d < (K - 1) * Interval + (h - q * Interval)
  BY <1>1, <1>2, <1>10 DEF MaxRecoverableDepth, h, K, d
<1>14. Len(savepoints[1]) < h - d
  BY <1>10, <1>11, <1>12, <1>13, <1>3
<1>15. Len(savepoints[1]) \in Nat
  <2>1. 1 \in 1..Len(savepoints)
    BY <1>11, <1>7
  <2>2. savepoints[1] \in Seq(Block)
    BY <2>1, ElementOfSeq DEF Followed, Basics, Typed
  <2> QED BY <2>2, SeqFacts
<1>16. /\ h - d \in Nat /\ h - d < h /\ d <= h
       /\ p \in 1..h
  BY <1>2, <1>3, <1>14, <1>15 DEF d
<1>17. db[p] = chain[p] /\ p \in 1..Len(chain)
  <2>1. IndexBlock(h, d) = HeaderAt(db, h - d)
    BY <1>16 DEF IndexBlock
  <2>2. HeaderAt(db, h - d) = {db[p]}
    BY <1>3, <1>16, NumberedCount DEF h
  <2>3. NodeBlock(h, d) = IF h - d < Len(chain) THEN {chain[p]} ELSE {}
    BY <1>16 DEF NodeBlock
  <2>4. IndexBlock(h, d) = NodeBlock(h, d)
    BY <1>1, <1>2 DEF AgreesAtDepth, h, d
  <2>5. {db[p]} = IF h - d < Len(chain) THEN {chain[p]} ELSE {}
    BY <2>1, <2>2, <2>3, <2>4
  <2>6. h - d < Len(chain) /\ db[p] = chain[p]
    BY <2>5
  <2>7. p \in 1..Len(chain)
    BY <2>6, <1>16, <1>3
  <2> QED BY <2>6, <2>7
<1> HIDE DEF p
<1>18. \A i \in 1..h : db[i].label = 0
  <2>1. h \in 1..h /\ h \in 1..Len(chain) /\ db[h].label < chain[h].label
    BY <1>3, <1>4, <1>16, SeqFacts DEF Forked, h
  <2>2. db[h].label \in Nat /\ chain[h].label \in Nat /\ chain[h].label <= reorgs /\ reorgs \in Nat
    BY <2>1, <1>3, SeqFacts DEF h, Followed, Basics, Typed, Parents
  <2>3. db[h].label = 0
    BY <2>1, <2>2, <1>4
  <2>4. ASSUME NEW i \in 1..h PROVE db[i].label = 0
    <3>1. db[i].label \in Nat /\ i <= h
      BY <1>3, SeqFacts DEF h
    <3>2. db[i].label <= db[h].label
      BY <2>1, <3>1, <1>3 DEF Aged
    <3> QED BY <3>1, <3>2, <2>3
  <2> QED BY <2>4
<1>19. ASSUME NEW i \in 1..p PROVE db[i] = chain[i]
  <2>1. i \in 1..h /\ i \in 1..Len(chain) /\ i <= p
    BY <1>16, <1>17, <1>3
  <2>2. chain[i].label <= chain[p].label /\ chain[p].label = 0
    BY <2>1, <1>3, <1>16, <1>17, <1>18 DEF Aged
  <2>3. chain[i].label \in Nat
    BY <2>1, <1>3, SeqFacts
  <2>4. chain[i].label = 0 /\ db[i].label = 0
    BY <2>1, <2>2, <2>3, <1>18
  <2> QED BY <2>1, <2>4, <1>3, FirstBranch
<1>20. Extends(chain, savepoints[1])
  <2>1. 1 \in DOMAIN savepoints
    BY <1>11, <1>7, LenProperties DEF Followed, Basics, Typed
  <2>2. savepoints[1] \in Seq(Block)
    BY <2>1, ElementOfSeq, LenProperties DEF Followed, Basics, Typed
  <2>3. DOMAIN savepoints[1] = 1..Len(savepoints[1]) /\ Extends(db, savepoints[1])
    BY <2>1, <2>2, SeqFacts DEF Standing
  <2>4. \A i \in 1..Len(savepoints[1]) : i \in 1..p
    BY <1>14, <1>15, <1>16, <1>3 DEF p
  <2>5. Len(savepoints[1]) <= Len(chain)
    BY <1>14, <1>15, <1>16, <1>17, <1>3 DEF p
  <2> QED BY <2>3, <2>4, <2>5, <1>19 DEF Extends
<1> QED BY <1>11, <1>20 DEF OldestOn

\* What a step leaves of the rungs and of the savepoints' blocks.
LEMMA RungStays ==
  ASSUME NEW v \in Updaters, NEW q \in Nat, Rung(v, q), UNCHANGED <<db, savepoints>>, Longer,
         pc'[v] \in Saving <=> pc[v] \in Saving, pc'[v] = "create" <=> pc[v] = "create"
  PROVE  Rung(v, q)'
<1>1. Counted(v)' = Counted(v) /\ Rungs(v)' = Rungs(v)
  BY DEF Counted, Rungs
<1>2. ASSUME NEW i \in Nat, Near((q - i) * Interval)' PROVE Near((q - i) * Interval)
  <2>1. (q - i) * Interval \in Int
    BY UpdaterAssumption, Distribute
  <2> QED BY <1>2, <2>1, NearStays
<1> QED BY <1>1, <1>2 DEF Rung

\* Steps that leave the database alone leave an index standing.
LEMMA StandingStays ==
  ASSUME NEW v \in Updaters, Standing(v), UNCHANGED <<db, savepoints>>, Longer, Len(db) \in Nat,
         pc'[v] \in Saving <=> pc[v] \in Saving,
         pc'[v] \in {"delete", "create"} <=> pc[v] \in {"delete", "create"},
         pc'[v] = "create" <=> pc[v] = "create",
         pc'[v] = "commit" => pc[v] = "commit" /\ wtx' = wtx,
         pc'[v] = "rollback" => OldestOn(chain') \/ Low
  PROVE  Standing(v)'
<1>1. PICK q \in Nat : Rung(v, q)
  BY DEF Standing
<1>2. Rung(v, q)'
  BY <1>1, RungStays
<1>3. \A j \in DOMAIN savepoints' : Extends(db', savepoints'[j])
  BY DEF Standing
<1>4. pc'[v] = "commit" => Len(wtx') = Len(db') + 1 /\ Extends(wtx', db')
  BY DEF Standing
<1>5. pc'[v] \in {"delete", "create"} => Len(db') < Interval \/ Len(db') % Interval = 0
  BY DEF Standing
<1>6. pc'[v] = "rollback" => OldestOn(chain)' \/ Low'
  BY LowStays DEF OldestOn
<1> QED BY <1>2, <1>3, <1>4, <1>5, <1>6 DEF Standing

\* To extend is transitive.
LEMMA ExtendsTransitive ==
  ASSUME NEW s \in Seq(Block), NEW t \in Seq(Block), NEW r \in Seq(Block),
         Extends(s, t), Extends(t, r)
  PROVE  Extends(s, r)
<1>1. /\ Len(s) \in Nat /\ Len(t) \in Nat /\ Len(r) \in Nat
      /\ DOMAIN t = 1..Len(t) /\ DOMAIN r = 1..Len(r)
      /\ Len(t) <= Len(s) /\ Len(r) <= Len(t)
  BY SeqFacts DEF Extends
<1>2. Len(r) <= Len(s) /\ \A i \in DOMAIN r : i \in DOMAIN t
  BY <1>1
<1> QED BY <1>2 DEF Extends

\* A block is applied to what is committed.
LEMMA StandingApply ==
  ASSUME Followed, NEW v \in Updaters, Standing(v), ApplyBlock(v), CommitInterval = 1
  PROVE  Standing(v)'
<1>1. /\ Len(wtx') = Len(wtx) + 1 /\ DOMAIN wtx' = 1..(Len(wtx) + 1)
      /\ \A i \in 1..Len(wtx) : wtx'[i] = wtx[i]
  BY ApplyAppends DEF Followed, Basics
<1>2. wtx = db /\ uncommitted[v] = 0
  BY ApplyContinues DEF Followed, Links
<1>3. pc \in [Updaters -> Phases] /\ db \in Seq(Block)
  BY DEF Followed, Basics, Typed
<1>4. UNCHANGED <<db, savepoints>> /\ pc[v] = "indexing" /\ pc'[v] = "commit"
  BY <1>2, <1>3 DEF ApplyBlock, Goto, database
<1>5. Len(db) \in Nat /\ DOMAIN db = 1..Len(db)
  BY <1>3, SeqFacts
<1>6. Len(wtx') = Len(db) + 1 /\ Extends(wtx', db)
  BY <1>1, <1>2, <1>5 DEF Extends
<1>7. PICK q \in Nat : Rung(v, q)
  BY DEF Standing
<1>8. Rung(v, q)'
  <2>1. chain' = chain /\ Len(chain) \in Nat
    BY SeqFacts DEF ApplyBlock, node, Followed, Basics, Typed
  <2>2. Longer
    BY <2>1 DEF Longer
  <2> QED BY <1>4, <1>7, <2>2, RungStays DEF Saving
<1>9. \A j \in DOMAIN savepoints' : Extends(db', savepoints'[j])
  BY <1>4 DEF Standing
<1> QED BY <1>4, <1>6, <1>8, <1>9 DEF Standing

\* It is committed: the savepoints are one block behind.
LEMMA StandingCommit ==
  ASSUME Followed, NEW v \in Updaters, Standing(v), Commit(v)
  PROVE  Standing(v)'
<1>1. pc \in [Updaters -> Phases] /\ db \in Seq(Block) /\ wtx \in Seq(Block)
  BY DEF Followed, Basics, Typed
<1>2. /\ pc[v] = "commit" /\ pc'[v] = "savepoint" /\ db' = wtx /\ savepoints' = savepoints
  BY <1>1 DEF Commit, Goto
<1>3. Len(wtx) = Len(db) + 1 /\ Extends(wtx, db) /\ Len(db) \in Nat
  BY <1>1, <1>2, SeqFacts DEF Standing
<1>4. \A j \in DOMAIN savepoints' : Extends(db', savepoints'[j])
  <2>1. \A j \in DOMAIN savepoints : savepoints[j] \in Seq(Block) /\ Extends(db, savepoints[j])
    BY ElementOfSeq, LenProperties DEF Standing, Followed, Basics, Typed
  <2> QED BY <2>1, <1>1, <1>2, <1>3, ExtendsTransitive
<1>5. PICK q \in Nat : Rung(v, q)
  BY DEF Standing
<1>6. Counted(v)' = Counted(v) /\ Rungs(v)' = Rungs(v)
  <2>1. Len(db') - 1 = Len(db)
    BY <1>2, <1>3
  <2> QED BY <2>1, <1>2 DEF Counted, Rungs, Saving
<1>7. Rung(v, q)'
  <2>1. chain' = chain
    BY DEF Commit, node
  <2> QED BY <1>2, <1>5, <1>6, <2>1 DEF Rung, Near
<1> QED BY <1>2, <1>4, <1>7 DEF Standing

\* A savepoint is due when the first interval is not over and at the end of each, if
\* the tip is near.
LEMMA SavepointsDue ==
  ASSUME Followed, NEW v \in Updaters, Standing(v), pc[v] = "savepoint"
  PROVE  /\ Len(db) \in Nat /\ Len(db) >= 1
         /\ SavepointDue(v) <=>
              (Len(db) < Interval \/ Len(db) % Interval = 0) /\ Near(Len(db))
<1>1. db \in Seq(Block) /\ Len(db) \in Nat /\ Len(chain) \in Nat
  BY SeqFacts DEF Followed, Basics, Typed
<1>2. height[v] = Len(db)
  BY DEF Followed, Ages, InStep, Receiving, Fetched, Below, Holding
<1>3. PICK q \in Nat : Rung(v, q)
  BY DEF Standing
<1>4. q * Interval <= Len(db) - 1
  BY <1>3 DEF Rung, Counted, Saving
<1>5. q * Interval >= 0
  <2>1. Interval \in Nat
    BY UpdaterAssumption
  <2>2. 0 * Interval <= q * Interval /\ 0 * Interval = 0
    BY <2>1, TimesMono, Distribute
  <2>3. q * Interval \in Int
    BY <2>1, Distribute
  <2> QED BY <2>2, <2>3
<1>6. q * Interval \in Int
  BY UpdaterAssumption, Distribute
<1>7. Len(db) >= 1
  BY <1>1, <1>4, <1>5, <1>6
<1> QED BY <1>1, <1>2, <1>7 DEF SavepointDue, Near

\* No savepoint is due inside an interval, or where the tip is not near.
LEMMA StandingSkip ==
  ASSUME Followed, NEW v \in Updaters, Standing(v), SkipSavepoint(v)
  PROVE  Standing(v)'
<1> DEFINE h == Len(db)
<1>1. pc \in [Updaters -> Phases]
  BY DEF Followed, Basics, Typed
<1>2. /\ pc[v] = "savepoint" /\ pc'[v] \in {"idle", "resume"}
      /\ UNCHANGED <<db, savepoints, chain>> /\ ~SavepointDue(v)
  BY <1>1 DEF SkipSavepoint, AfterSavepoint, Goto, database, node
<1>3. h \in Nat /\ h >= 1 /\ (h % Interval # 0 \/ ~Near(h))
  BY <1>2, SavepointsDue
<1>4. PICK q \in Nat : Rung(v, q)
  BY DEF Standing
<1>5. Counted(v) = h - 1 /\ Counted(v)' = h /\ Rungs(v)' = Rungs(v)
  BY <1>2 DEF Counted, Rungs, Saving
<1>6. q * Interval <= h - 1 /\ h - 1 < (q + 1) * Interval
  BY <1>4, <1>5 DEF Rung
<1>7. \A j \in DOMAIN savepoints' : Extends(db', savepoints'[j])
  BY <1>2 DEF Standing
<1> HIDE DEF h
<1>8. Interval \in Nat \ {0} /\ q * Interval \in Int /\ Len(chain) \in Nat
  BY UpdaterAssumption, Distribute, SeqFacts DEF Followed, Basics, Typed
<1>9. CASE h % Interval # 0
  <2>1. h < (q + 1) * Interval /\ q * Interval <= h
    <3>1. h < (q + 1) * Interval
      BY <1>3, <1>6, <1>8, <1>9, NextRung
    <3> QED BY <3>1, <1>3, <1>6, <1>8
  <2>2. \A i \in Nat : i < q /\ i < Rungs(v)' /\ Near((q - i) * Interval)' =>
          /\ i < Len(savepoints')
          /\ Len(savepoints'[Len(savepoints') - i]) = (q - i) * Interval
    BY <1>2, <1>4, <1>5 DEF Rung, Near
  <2>3. Rung(v, q)'
    BY <1>5, <2>1, <2>2 DEF Rung
  <2> QED BY <1>2, <1>7, <2>3 DEF Standing
<1>10. CASE h % Interval = 0
  <2>1. h = (q + 1) * Interval /\ h < (q + 1 + 1) * Interval /\ q + 1 \in Nat
    <3>1. h % Interval = 0 => h = (q + 1) * Interval
      BY <1>3, <1>6, <1>8, NextRung
    <3>2. h < (q + 1 + 1) * Interval
      BY <1>3, <1>6, <1>8, NextRung
    <3> QED BY <3>1, <3>2, <1>10
  <2>2. ASSUME NEW i \in Nat, i < q + 1 PROVE ~Near(((q + 1) - i) * Interval)'
    <3>1. (q + 1) - i \in Nat /\ (q + 1) - i <= q + 1
      BY <2>2
    <3>2. ((q + 1) - i) * Interval <= h /\ ((q + 1) - i) * Interval \in Int
      BY <1>8, <2>1, <3>1, TimesMono, Distribute
    <3>3. PICK l \in Int : l = ((q + 1) - i) * Interval
      BY <3>2
    <3>4. l <= h /\ ~Near(h)
      BY <1>3, <1>10, <3>2, <3>3
    <3>5. ~Near(l)
      BY <1>3, <1>8, <3>4, UpdaterAssumption DEF Near
    <3> QED BY <1>2, <3>3, <3>5 DEF Near
  <2>3. (q + 1) * Interval <= h
    BY <1>3, <2>1
  <2>4. Rung(v, q + 1)'
    BY <1>5, <2>1, <2>2, <2>3 DEF Rung
  <2> QED BY <1>2, <1>7, <2>1, <2>4 DEF Standing
<1> QED BY <1>9, <1>10

\* A savepoint is due when the first interval is not over, or at the end of one.
LEMMA StandingBegin ==
  ASSUME Followed, NEW v \in Updaters, Standing(v), BeginSavepoint(v)
  PROVE  Standing(v)'
<1>1. pc \in [Updaters -> Phases]
  BY DEF Followed, Basics, Typed
<1>2. /\ pc[v] = "savepoint" /\ pc'[v] = "delete"
      /\ UNCHANGED <<db, savepoints, chain>> /\ SavepointDue(v)
  BY <1>1 DEF BeginSavepoint, Goto, database, node
<1>3. Len(db') < Interval \/ Len(db') % Interval = 0
  BY <1>2, SavepointsDue
<1>4. PICK q \in Nat : Rung(v, q)
  BY DEF Standing
<1>5. Rung(v, q)'
  <2>1. Len(chain) \in Nat
    BY SeqFacts DEF Followed, Basics, Typed
  <2>2. Longer
    BY <1>2, <2>1 DEF Longer
  <2> QED BY <1>2, <1>4, <2>2, RungStays DEF Saving
<1>6. \A j \in DOMAIN savepoints' : Extends(db', savepoints'[j])
  BY <1>2 DEF Standing
<1> QED BY <1>2, <1>3, <1>5, <1>6 DEF Standing

\* The oldest savepoint is deleted: the ones that are left are the newest.
LEMMA StandingDelete ==
  ASSUME Followed, NEW v \in Updaters, Standing(v), DeleteSavepoint(v)
  PROVE  Standing(v)'
<1> DEFINE n == Len(savepoints)
<1>1. /\ pc \in [Updaters -> Phases] /\ savepoints \in Seq(Seq(Block))
      /\ n \in Nat /\ DOMAIN savepoints = 1..n /\ n <= MaxSavepoints
      /\ MaxSavepoints \in Nat \ {0}
  BY UpdaterAssumption, LenProperties DEF Followed, Basics, Typed, AtMost
<1>2. /\ pc[v] = "delete" /\ pc'[v] = "create" /\ db' = db /\ chain' = chain
      /\ savepoints' = KeptSavepoints
  BY <1>1 DEF DeleteSavepoint, Goto, node
<1>a. \A h : Near(h)' <=> Near(h)
  BY <1>2 DEF Near
<1>3. PICK q \in Nat : Rung(v, q)
  BY DEF Standing
<1>4. Counted(v)' = Counted(v) /\ Rungs(v) = MaxSavepoints /\ Rungs(v)' = MaxSavepoints - 1
  BY <1>2 DEF Counted, Rungs, Saving
<1>5. \A i \in Nat : i < q /\ i < MaxSavepoints /\ Near((q - i) * Interval) =>
        i < n /\ Len(savepoints[n - i]) = (q - i) * Interval
  BY <1>3, <1>4 DEF Rung
<1>6. \A i \in Nat : i < MaxSavepoints - 1 => i < MaxSavepoints
  BY <1>1
<1>7. CASE n >= MaxSavepoints
  <2>0. n = MaxSavepoints /\ n # 0
    <3>1. n \in Nat /\ n <= MaxSavepoints /\ MaxSavepoints \in Nat /\ MaxSavepoints # 0
      BY <1>1
    <3> HIDE DEF n
    <3> QED BY <3>1, <1>7
  <2>1. savepoints' = Tail(savepoints) /\ savepoints # << >> /\ n = MaxSavepoints
    <3>1. savepoints # << >>
      BY <2>0, EmptySeq
    <3> QED BY <3>1, <2>0, <1>2, <1>7 DEF KeptSavepoints
  <2>2. /\ savepoints' \in Seq(Seq(Block)) /\ Len(savepoints') = n - 1
        /\ \A i \in 1..Len(savepoints') : savepoints'[i] = savepoints[i + 1]
    BY <1>1, <2>1, HeadTailProperties
  <2>3. DOMAIN savepoints' = 1..(n - 1)
    BY <2>2, LenProperties
  <2> HIDE DEF n
  <2>4. ASSUME NEW j \in DOMAIN savepoints' PROVE Extends(db', savepoints'[j])
    <3>1. j + 1 \in DOMAIN savepoints /\ j \in 1..Len(savepoints')
      BY <1>1, <2>2, <2>3
    <3> QED BY <3>1, <2>2, <1>2 DEF Standing
  <2>5. ASSUME NEW i \in Nat, i < q, i < Rungs(v)', Near((q - i) * Interval)
        PROVE  i < Len(savepoints') /\ Len(savepoints'[Len(savepoints') - i]) = (q - i) * Interval
    <3>1. i < MaxSavepoints - 1 /\ i < MaxSavepoints
      BY <2>5, <1>4, <1>6
    <3>2. i < n - 1 /\ (n - 1) - i \in 1..(n - 1) /\ ((n - 1) - i) + 1 = n - i
      BY <3>1, <2>1, <1>1
    <3>3. savepoints'[(n - 1) - i] = savepoints[n - i]
      BY <3>2, <2>2
    <3> QED BY <3>1, <3>2, <3>3, <2>2, <2>5, <1>5
  <2>6. Rung(v, q)'
    BY <2>5, <1>2, <1>3, <1>4, <1>a DEF Rung
  <2> QED BY <1>2, <2>4, <2>6 DEF Standing
<1>8. CASE ~(n >= MaxSavepoints)
  <2>1. savepoints' = savepoints
    BY <1>2, <1>8 DEF KeptSavepoints
  <2>2. Rung(v, q)'
    BY <2>1, <1>2, <1>3, <1>4, <1>5, <1>6, <1>a DEF Rung
  <2>3. \A j \in DOMAIN savepoints' : Extends(db', savepoints'[j])
    BY <2>1, <1>2 DEF Standing
  <2> QED BY <1>2, <2>2, <2>3 DEF Standing
<1> QED BY <1>7, <1>8

\* The new savepoint is at the end of the interval.
LEMMA StandingCreate ==
  ASSUME Followed, NEW v \in Updaters, Standing(v), CreateSavepoint(v)
  PROVE  Standing(v)'
<1> DEFINE n == Len(savepoints)
           h == Len(db)
           K == MaxSavepoints
<1>1. /\ pc \in [Updaters -> Phases] /\ savepoints \in Seq(Seq(Block)) /\ db \in Seq(Block)
      /\ n \in Nat /\ DOMAIN savepoints = 1..n /\ h \in Nat /\ DOMAIN db = 1..h
      /\ K \in Nat \ {0} /\ Interval \in Nat \ {0}
  BY UpdaterAssumption, LenProperties DEF Followed, Basics, Typed
<1>2. /\ pc[v] = "create" /\ pc'[v] \in {"idle", "resume"} /\ db' = db /\ chain' = chain
      /\ savepoints' = Append(savepoints, db)
  BY <1>1 DEF CreateSavepoint, AfterSavepoint, Goto, node
<1>a. \A l : Near(l)' <=> Near(l)
  BY <1>2 DEF Near
<1>3. /\ savepoints' \in Seq(Seq(Block)) /\ Len(savepoints') = n + 1
      /\ \A j \in 1..n : savepoints'[j] = savepoints[j]
      /\ savepoints'[n + 1] = db
      /\ DOMAIN savepoints' = 1..(n + 1)
  BY <1>1, <1>2, AppendProperties, LenProperties
<1>4. PICK q \in Nat : Rung(v, q)
  BY DEF Standing
<1>5. Counted(v) = h - 1 /\ Counted(v)' = h /\ Rungs(v) = K - 1 /\ Rungs(v)' = K
  BY <1>2 DEF Counted, Rungs, Saving
<1>6. /\ q * Interval <= h - 1 /\ h - 1 < (q + 1) * Interval
      /\ \A i \in Nat : i < q /\ i < K - 1 /\ Near((q - i) * Interval) =>
           i < n /\ Len(savepoints[n - i]) = (q - i) * Interval
  BY <1>4, <1>5 DEF Rung
<1>7. q * Interval \in Nat
  BY <1>1, Distribute, TimesMono
<1>8. h >= 1
  <2> HIDE DEF h
  <2>1. h \in Nat /\ q * Interval \in Nat /\ q * Interval <= h - 1
    BY <1>1, <1>6, <1>7
  <2> QED BY <2>1
<1>9. h < Interval \/ h % Interval = 0
  BY <1>2 DEF Standing
<1>10. ASSUME NEW j \in DOMAIN savepoints' PROVE Extends(db', savepoints'[j])
  <2>1. CASE j \in 1..n
    BY <2>1, <1>1, <1>2, <1>3 DEF Standing
  <2>2. CASE j = n + 1
    BY <2>2, <1>1, <1>2, <1>3 DEF Extends
  <2> QED BY <2>1, <2>2, <1>1, <1>3
<1> HIDE DEF n, h, K
<1>11. CASE h % Interval = 0
  <2>1. h = (q + 1) * Interval /\ h < (q + 1 + 1) * Interval /\ q + 1 \in Nat
    <3>1. h \in Nat /\ Interval \in Nat \ {0} /\ q \in Nat /\ h >= 1
          /\ q * Interval <= h - 1 /\ h - 1 < (q + 1) * Interval
      BY <1>1, <1>6, <1>8
    <3>2. h % Interval = 0 => h = (q + 1) * Interval
      BY <3>1, NextRung
    <3>3. h < (q + 1 + 1) * Interval
      BY <3>1, NextRung
    <3> QED BY <3>2, <3>3, <1>11
  <2>2. ASSUME NEW i \in Nat, i < q + 1, i < K, Near(((q + 1) - i) * Interval)
        PROVE  i < Len(savepoints')
               /\ Len(savepoints'[Len(savepoints') - i]) = ((q + 1) - i) * Interval
    <3>1. CASE i = 0
      <4>1. Len(savepoints') - i = n + 1 /\ (q + 1) - i = q + 1 /\ i < n + 1
        BY <3>1, <1>1, <1>3
      <4> QED BY <4>1, <1>3, <2>1 DEF h
    <3>2. CASE i # 0
      <4>1. i - 1 \in Nat /\ i - 1 < q /\ i - 1 < K - 1
        BY <2>2, <3>2, <1>1
      <4>a. q - (i - 1) = (q + 1) - i
        BY <4>1
      <4>2. i - 1 < n /\ Len(savepoints[n - (i - 1)]) = (q - (i - 1)) * Interval
        BY <4>1, <4>a, <2>2, <1>6
      <4>3. /\ n - (i - 1) \in 1..n /\ (n + 1) - i = n - (i - 1)
            /\ q - (i - 1) = (q + 1) - i /\ i < n + 1
        BY <4>1, <4>2, <1>1
      <4> QED BY <4>2, <4>3, <1>3
    <3> QED BY <3>1, <3>2
  <2>3. Rung(v, q + 1)'
    <3>1. (q + 1) * Interval <= h
      BY <2>1, <1>1
    <3> QED BY <2>1, <2>2, <3>1, <1>2, <1>5, <1>a DEF Rung
  <2> QED BY <2>1, <2>3, <1>2, <1>10 DEF Standing
<1>12. CASE h < Interval
  <2>1. q = 0
    BY <1>1, <1>6, <1>8, <1>12, NextRung
  <2>2. 0 * Interval <= h /\ h < (0 + 1) * Interval
    <3>1. 0 * Interval = 0 /\ (0 + 1) * Interval = Interval
      BY <1>1, Distribute
    <3> QED BY <3>1, <1>1, <1>12
  <2>3. \A i \in Nat : ~(i < 0)
    OBVIOUS
  <2>4. Rung(v, 0)'
    BY <2>2, <2>3, <1>2, <1>5 DEF Rung
  <2> QED BY <2>4, <1>2, <1>10 DEF Standing
<1> QED BY <1>9, <1>11, <1>12

\* The detection of a reorg begins at the depth 1, with nothing applied above db.
LEMMA DetectingStep ==
  ASSUME Alone, Followed, NEW v \in Updaters, Detecting(v), [Next]_vars
  PROVE  Detecting(v)'
<1>a. pc \in [Updaters -> Phases] /\ depth \in [Updaters -> Nat]
  BY DEF Followed, Basics, Typed
<1>b. \A n \in Nat : n >= 1 => n + 1 >= 1
  OBVIOUS
<1>0. ASSUME pc'[v] # "detect" \/ (pc[v] = "detect" /\ UNCHANGED <<depth, height, db>>)
      PROVE  Detecting(v)'
  BY <1>0 DEF Detecting
<1> USE DEF node, database, transaction, fetcher, locals
<1>1. ASSUME Update(v) PROVE Detecting(v)'
  <2>1. CASE BeginUpdate(v) \/ DetectRecoverable(v) \/ DetectUnrecoverable(v) \/ Finish(v)
             \/ Commit(v) \/ ResumeUpdate(v) \/ YieldUpdate(v) \/ SkipSavepoint(v)
             \/ BeginSavepoint(v) \/ DeleteSavepoint(v) \/ CreateSavepoint(v) \/ Rollback(v)
             \/ RollbackPanics(v)
    <3>1. pc'[v] # "detect"
      BY <2>1, <1>a DEF BeginUpdate, DetectRecoverable, DetectUnrecoverable,
        Finish, Commit,
           ResumeUpdate, YieldUpdate, SkipSavepoint, BeginSavepoint, DeleteSavepoint,
           CreateSavepoint, Rollback, RollbackPanics, AfterSavepoint, Goto
    <3> QED BY <3>1, <1>0
  <2>2. CASE ApplyBlock(v)
    <3>1. pc'[v] # "detect"
      BY <2>2, <1>a DEF ApplyBlock, Goto
    <3> QED BY <3>1, <1>0
  <2>3. CASE BeginDetect(v)
    <3>1. pc[v] = "indexing" /\ depth'[v] = 1 /\ UNCHANGED <<db, height>>
      BY <2>3, <1>a DEF BeginDetect
    <3>2. wtx = db /\ height[v] = Len(wtx)
      BY <3>1 DEF Followed, Links, Basics, OneWriter, Holding, Heights
    <3> QED BY <3>1, <3>2 DEF Detecting
  <2>4. CASE DetectDeeper(v)
    <3>1. pc[v] = "detect" /\ depth'[v] = depth[v] + 1 /\ UNCHANGED <<db, height>>
      BY <2>4, <1>a DEF DetectDeeper
    <3> QED BY <3>1, <1>a, <1>b DEF Detecting
  <2> QED BY <1>1, <2>1, <2>2, <2>3, <2>4 DEF Update
<1>2. ASSUME Fetch(v) \/ FetchEnd(v) PROVE Detecting(v)'
  BY <1>2 DEF Fetch, FetchEnd, Detecting
<1>3. CASE Mine \/ (\E d \in 1..MaxReorgDepth : Reorganize(d)) \/ UNCHANGED vars
  BY <1>3 DEF Mine, Reorganize, vars, Detecting
<1>4. ASSUME FetchError(v) \/ RpcError(v) \/ Crash PROVE Detecting(v)'
  <2>1. CASE FetchError(v)
    BY <2>1 DEF FetchError, Detecting
  <2>2. CASE RpcError(v) \/ Crash
    <3>1. pc'[v] # "detect"
      BY <2>2, <1>a DEF RpcError, Crash, Goto
    <3> QED BY <3>1, <1>0
  <2> QED BY <1>4, <2>1, <2>2
<1> QED BY <1>1, <1>2, <1>3, <1>4 DEF Alone, Next, FetchThread

\* An index that is rolled back from where it was low is low.
LEMMA LowBelow ==
  ASSUME Low, NEW n \in Nat, Len(db) \in Nat, n <= Len(db), Len(chain) \in Nat
  PROVE  \/ n < MaxSavepoints * Interval
         \/ ~Near((n \div Interval - (MaxSavepoints - 1)) * Interval)
<1> DEFINE K == MaxSavepoints - 1
           h == Len(db)
           p == n \div Interval
           q == h \div Interval
<1>1. K \in Int /\ Interval \in Nat \ {0} /\ TipDistance \in Nat /\ MaxSavepoints * Interval \in Nat
  BY UpdaterAssumption, TimesNat
<1>2. CASE h < MaxSavepoints * Interval
  BY <1>1, <1>2
<1>3. CASE ~Near((q - K) * Interval)
  <2>1. p \in Nat /\ q \in Nat /\ n = Interval * p + (n % Interval) /\ h = Interval * q + (h % Interval)
        /\ n % Interval \in 0..(Interval - 1) /\ h % Interval \in 0..(Interval - 1)
    BY <1>1, DivMod
  <2> HIDE DEF K, h, p, q
  <2>2. p <= q
    <3> SUFFICES ASSUME q + 1 <= p PROVE FALSE
      BY <2>1
    <3>1. (q + 1) * Interval <= p * Interval /\ (q + 1) * Interval = q * Interval + Interval
          /\ q * Interval \in Int /\ p * Interval \in Int
      BY <1>1, <2>1, TimesMono, Distribute
    <3>2. Interval * p = p * Interval /\ Interval * q = q * Interval
      BY <1>1, <2>1
    <3>3. PICK a \in Int, b \in Int : a = p * Interval /\ b = q * Interval
      BY <3>1
    <3>4. n >= a /\ h < b + Interval /\ b + Interval <= a
      BY <1>1, <2>1, <3>1, <3>2, <3>3
    <3> QED BY <3>3, <3>4, <1>1 DEF h
  <2>3. (p - K) * Interval <= (q - K) * Interval
    <3>1. p * Interval <= q * Interval
      BY <1>1, <2>1, <2>2, TimesMono
    <3>2. \A x \in Int : (x - K) + K = x /\ x - K \in Int
      BY <1>1
    <3>3. \A x \in Int : (x - K) * Interval + K * Interval = x * Interval
      BY <1>1, <3>2, Distribute
    <3>4. /\ (p - K) * Interval \in Int /\ (q - K) * Interval \in Int /\ K * Interval \in Int
          /\ p * Interval = (p - K) * Interval + K * Interval
          /\ q * Interval = (q - K) * Interval + K * Interval
      BY <1>1, <2>1, <3>2, <3>3, Distribute
    <3> QED BY <3>1, <3>4
  <2>4. (p - K) * Interval \in Int /\ (q - K) * Interval \in Int
    BY <1>1, <2>1, Distribute
  <2>5. PICK a \in Int, b \in Int : a = (p - K) * Interval /\ b = (q - K) * Interval
    BY <2>4
  <2>6. a <= b /\ ~Near(b)
    BY <1>3, <2>3, <2>5
  <2>7. ~Near(a)
    BY <2>6, <1>1 DEF Near
  <2> QED BY <2>5, <2>7 DEF p, K
<1> QED BY <1>2, <1>3 DEF Low

\* The first roll back: to a block of the new chain, or to a savepoint of the old one,
\* which is then the only one, where the index was low.
LEMMA FirstRollback ==
  ASSUME Alone, Followed, Followed', Quiet, NEW v \in Updaters, Standing(v), Rollback(v)
  PROVE  Recovered(v)' \/ Stuck(v)'
<1> DEFINE t == savepoints[1]
<1>1. /\ pc \in [Updaters -> Phases] /\ db \in Seq(Block) /\ chain \in Seq(Block)
      /\ savepoints \in Seq(Seq(Block))
      /\ Numbered(db) /\ Numbered(chain) /\ Aged(db) /\ Aged(chain)
      /\ reorgs \in Nat
  BY DEF Followed, Basics, Typed, Heights, Parents, BranchesAge
<1>2. /\ pc[v] = "rollback" /\ savepoints # << >>
      /\ pc'[v] = "idle" /\ db' = t /\ savepoints' = SubSeq(savepoints, 1, 1)
      /\ UNCHANGED <<chain, reorgs>>
  BY <1>1 DEF Rollback, Goto, OldestSavepoint, RemainingSavepoints, node
<1>3. /\ Len(savepoints) \in Nat /\ Len(savepoints) >= 1 /\ 1 \in DOMAIN savepoints
      /\ t \in Seq(Block) /\ Extends(db, t) /\ Aged(t) /\ Numbered(t) /\ NoNewer(t, chain)
  <2>1. Len(savepoints) \in Nat /\ Len(savepoints) >= 1 /\ DOMAIN savepoints = 1..Len(savepoints)
    BY <1>1, <1>2, LenProperties, EmptySeq
  <2>2. 1 \in DOMAIN savepoints
    BY <2>1
  <2>3. t \in Seq(Block)
    BY <2>1, <2>2, <1>1, ElementOfSeq
  <2> QED BY <2>1, <2>2, <2>3 DEF Standing, Followed, BranchesAge, Basics, Heights,
       Ages
<1>4. Forked(db, chain)
  BY <1>2 DEF Followed, Ages, InStep
<1>5. /\ Len(db) \in Nat /\ Len(db) >= 1 /\ DOMAIN db = 1..Len(db)
      /\ Len(t) \in Nat /\ DOMAIN t = 1..Len(t) /\ Len(t) <= Len(db)
      /\ Len(chain) \in Nat /\ DOMAIN chain = 1..Len(chain) /\ Len(db) <= Len(chain)
  <2>1. db # << >> /\ Len(db) <= Len(chain) /\ Len(t) <= Len(db)
    BY <1>3, <1>4 DEF Forked, Extends
  <2> QED BY <2>1, <1>1, <1>3, LenProperties, EmptySeq
<1>6. reorgs = 1 /\ \A i \in 1..Len(db) : db[i].label = 0
  <2>1. Len(db) \in 1..Len(db) /\ Len(db) \in 1..Len(chain)
        /\ db[Len(db)].label < chain[Len(db)].label
    BY <1>4, <1>5 DEF Forked
  <2>2. db[Len(db)].label \in Nat /\ chain[Len(db)].label \in Nat
        /\ chain[Len(db)].label <= reorgs
    BY <2>1, <1>1, <1>5, SeqFacts DEF Followed, Basics, Parents
  <2>3. reorgs <= 1
    BY DEF Quiet
  <2>4. reorgs = 1 /\ db[Len(db)].label = 0
    BY <2>1, <2>2, <2>3, <1>1
  <2>5. ASSUME NEW i \in 1..Len(db) PROVE db[i].label = 0
    <3>1. db[i].label \in Nat /\ i <= Len(db)
      BY <1>1, SeqFacts
    <3>2. db[i].label <= db[Len(db)].label
      BY <2>1, <3>1, <1>1, <1>5 DEF Aged
    <3> QED BY <3>1, <3>2, <2>4
  <2> QED BY <2>4, <2>5
<1>7. \A i \in 1..Len(t) : i \in 1..Len(db) /\ t[i] = db[i] /\ t[i].label = 0 /\ i \in 1..Len(chain)
  <2>1. \A i \in 1..Len(t) : i \in 1..Len(db) /\ i \in 1..Len(chain)
    BY <1>5
  <2> QED BY <2>1, <1>3, <1>5, <1>6 DEF Extends
<1>8. Fresh(v)'
  BY <1>2 DEF Fresh, Receiving
<1> HIDE DEF t
<1>9. CASE Extends(chain, t)
  BY <1>2, <1>6, <1>8, <1>9 DEF Recovered
<1>10. CASE ~Extends(chain, t)
  <2>1. Low
    BY <1>2, <1>10 DEF Standing, OldestOn, t
  <2>2. Len(t) <= Len(chain)
    BY <1>3 DEF NoNewer
  <2>3. PICK i \in DOMAIN t : t[i] # chain[i]
    BY <1>10, <2>2 DEF Extends
  <2>4. i \in 1..Len(t) /\ i \in 1..Len(chain) /\ t[i].label = 0 /\ i \in DOMAIN chain
    BY <2>3, <1>5, <1>7
  <2>5. chain[i].label # 0
    BY <2>3, <2>4, <1>1, <1>3, FirstBranch
  <2>6. Len(t) >= 1 /\ Len(t) \in 1..Len(t) /\ Len(t) \in 1..Len(chain) /\ i <= Len(t)
    BY <2>4, <1>5
  <2>7. chain[i].label \in Nat /\ chain[Len(t)].label \in Nat
    BY <2>4, <2>6, <1>1, SeqFacts
  <2>8. chain[i].label <= chain[Len(t)].label
    BY <2>4, <2>6, <1>1, <1>5 DEF Aged
  <2>9. t[Len(t)].label = 0
    BY <2>6, <1>7
  <2>10. t[Len(t)].label < chain[Len(t)].label
    BY <2>5, <2>7, <2>8, <2>9
  <2>11. t # << >>
    BY <2>6, EmptySeq
  <2>12. Forked(db', chain')
    BY <1>2, <2>2, <2>10, <2>11 DEF Forked
  <2>13. Low'
    <3>1. Low' <=> \/ Len(t) < MaxSavepoints * Interval
                   \/ ~Near((Len(t) \div Interval - (MaxSavepoints - 1)) * Interval)
      BY <1>2 DEF Low, Near
    <3> QED BY <2>1, <3>1, <1>5, LowBelow
  <2>14. Len(savepoints') = 1 /\ savepoints'[1] = db'
    <3>1. \A k \in 1..1 : savepoints[k] \in Seq(Block)
      BY <1>3 DEF t
    <3>2. Len(savepoints') = 1 /\ savepoints'[1] = savepoints[1]
      BY <3>1, <1>2, SubSeqProperties
    <3> QED BY <3>2, <1>2 DEF t
  <2> QED BY <1>2, <1>6, <1>8, <2>12, <2>13, <2>14 DEF Stuck
<1> QED BY <1>9, <1>10

\* Nothing forks the index before there has been a reorg.
LEMMA NoForkYet ==
  ASSUME Followed, reorgs = 0, NEW s \in Seq(Block)
  PROVE  ~Forked(s, chain)
<1> SUFFICES ASSUME Forked(s, chain) PROVE FALSE
  OBVIOUS
<1>1. chain \in Seq(Block) /\ reorgs \in Nat
  BY DEF Followed, Basics, Typed
<1>2. Len(s) \in Nat /\ Len(s) >= 1 /\ Len(chain) \in Nat /\ DOMAIN chain = 1..Len(chain)
      /\ Len(s) <= Len(chain) /\ s[Len(s)].label < chain[Len(s)].label
  BY <1>1, LenProperties, EmptySeq DEF Forked
<1>3. Len(s) \in 1..Len(s) /\ Len(s) \in 1..Len(chain)
  BY <1>2
<1>4. s[Len(s)].label \in Nat /\ chain[Len(s)].label \in Nat /\ chain[Len(s)].label <= 0
  BY <1>1, <1>2, <1>3, SeqFacts DEF Followed, Basics, Parents
<1> QED BY <1>2, <1>4

\* A block that is mined leaves the oldest savepoint on the chain.
LEMMA MineOldest ==
  ASSUME Followed, OldestOn(chain), Mine
  PROVE  OldestOn(chain')
<1>1. chain \in Seq(Block) /\ savepoints \in Seq(Seq(Block)) /\ savepoints # << >>
      /\ Typed /\ Heights
  BY DEF Followed, Basics, Typed, OldestOn
<1>2. savepoints[1] \in Seq(Block)
  BY <1>1, ElementOfSeq, LenProperties, EmptySeq
<1>3. /\ \A i \in 1..Len(chain) : chain'[i] = chain[i]
      /\ Len(chain') = Len(chain) + 1
  BY <1>1, MineKeeps
<1>4. /\ Len(chain) \in Nat /\ Len(savepoints[1]) \in Nat /\ Len(savepoints[1]) <= Len(chain)
      /\ DOMAIN savepoints[1] = 1..Len(savepoints[1])
      /\ \A i \in DOMAIN savepoints[1] : savepoints[1][i] = chain[i]
  BY <1>1, <1>2, LenProperties DEF OldestOn, Extends
<1>5. Len(savepoints[1]) <= Len(chain') /\ \A i \in DOMAIN savepoints[1] : i \in 1..Len(chain)
  BY <1>3, <1>4
<1> QED BY <1>1, <1>3, <1>4, <1>5 DEF OldestOn, Extends

\* An index that stands remains so until its first roll back.
LEMMA StandingStep ==
  ASSUME Alone, CommitInterval = 1, Followed, Followed', Quiet, [Next]_vars,
         NEW v \in Updaters, Standing(v), Detecting(v),
         \/ UNCHANGED vars
         \/ Mine
         \/ reorgs = 0 /\ \E d \in 1..MaxReorgDepth : Reorganize(d)
         \/ \E u \in Updaters : Update(u) \/ Fetch(u) \/ FetchEnd(u)
  PROVE  Standing(v)' \/ Recovered(v)' \/ Stuck(v)'
<1>a. pc \in [Updaters -> Phases] /\ db \in Seq(Block) /\ uncommitted[v] = 0
  BY DEF Followed, Basics, Typed, Links
<1>b. pc[v] = "rollback" => OldestOn(chain) \/ Low
  BY DEF Standing
<1>c. Longer /\ Len(db) \in Nat
  BY <1>a, ChainNewer, SeqFacts DEF Followed, Basics, Typed, Longer
<1> USE DEF node, database, transaction
<1>1. ASSUME Update(v) PROVE Standing(v)' \/ Recovered(v)' \/ Stuck(v)'
  <2>1. CASE BeginUpdate(v) \/ BeginDetect(v) \/ DetectDeeper(v) \/ DetectUnrecoverable(v)
             \/ ResumeUpdate(v) \/ YieldUpdate(v) \/ RollbackPanics(v) \/ Finish(v)
    <3>1. /\ UNCHANGED <<db, savepoints>>
          /\ pc[v] \in {"idle", "indexing", "detect", "resume", "rollback"}
          /\ pc'[v] \in {"idle", "indexing", "detect", "panicked"}
      <4>1. CASE Finish(v)
        BY <4>1, <1>a DEF Finish, Goto
      <4> QED BY <2>1, <4>1, <1>a DEF BeginUpdate, BeginDetect, DetectDeeper,
           DetectUnrecoverable, ResumeUpdate, YieldUpdate, RollbackPanics, Goto
    <3>2. /\ pc'[v] \in Saving <=> pc[v] \in Saving
          /\ pc'[v] \in {"delete", "create"} <=> pc[v] \in {"delete", "create"}
          /\ pc'[v] = "create" <=> pc[v] = "create"
          /\ pc'[v] # "commit" /\ pc'[v] # "rollback"
      BY <3>1 DEF Saving
    <3> QED BY <3>1, <3>2, <1>c, StandingStays
  <2>2. CASE DetectRecoverable(v)
    <3>1. UNCHANGED <<db, savepoints, chain>> /\ pc[v] = "detect" /\ pc'[v] = "rollback"
      BY <2>2, <1>a DEF DetectRecoverable, Goto
    <3>2. OldestOn(chain') \/ Low
      BY <2>2, <3>1, Recoverable
    <3>3. /\ pc'[v] \in Saving <=> pc[v] \in Saving
          /\ pc'[v] \in {"delete", "create"} <=> pc[v] \in {"delete", "create"}
          /\ pc'[v] = "create" <=> pc[v] = "create"
          /\ pc'[v] # "commit"
      BY <3>1 DEF Saving
    <3> QED BY <3>1, <3>2, <3>3, <1>c, StandingStays
  <2>3. CASE ApplyBlock(v)
    BY <2>3, StandingApply
  <2>4. CASE Commit(v)
    BY <2>4, StandingCommit
  <2>5. CASE SkipSavepoint(v)
    BY <2>5, StandingSkip
  <2>6. CASE BeginSavepoint(v)
    BY <2>6, StandingBegin
  <2>7. CASE DeleteSavepoint(v)
    BY <2>7, StandingDelete
  <2>8. CASE CreateSavepoint(v)
    BY <2>8, StandingCreate
  <2>9. CASE Rollback(v)
    BY <2>9, FirstRollback
  <2> QED BY <1>1, <2>1, <2>2, <2>3, <2>4, <2>5, <2>6, <2>7, <2>8, <2>9 DEF Update
<1>2. ASSUME UNCHANGED <<db, savepoints, pc, wtx>>,
             pc[v] = "rollback" => OldestOn(chain') \/ Low
      PROVE  Standing(v)'
  BY <1>2, <1>c, StandingStays
<1>3. ASSUME Fetch(v) \/ FetchEnd(v) PROVE Standing(v)'
  BY <1>3, <1>2, <1>b DEF Fetch, FetchEnd
<1>4. CASE Mine
  BY <1>4, <1>2, <1>b, MineOldest DEF Mine
<1>5. CASE reorgs = 0 /\ \E d \in 1..MaxReorgDepth : Reorganize(d)
  <2>1. pc[v] # "rollback"
    BY <1>5, <1>a, NoForkYet DEF Followed, Ages, InStep
  <2> QED BY <1>5, <1>2, <2>1 DEF Reorganize
<1>6. CASE UNCHANGED vars
  BY <1>6, <1>2, <1>b DEF vars
<1> QED BY <1>1, <1>3, <1>4, <1>5, <1>6 DEF Alone

\* Before the first reorg is followed the index has been standing; then it has
\* recovered, or it is stuck below the first intervals.
Follows(u) ==
  /\ Detecting(u)
  /\ Quiet => Standing(u) \/ Recovered(u) \/ Stuck(u)

\* Nothing has been rolled back in the initial state.
LEMMA FollowsInit == ASSUME Init, NEW v \in Updaters PROVE Follows(v)
<1>1. /\ db = << >> /\ savepoints = << >> /\ pc[v] = "idle" /\ Len(db) = 0
  BY EmptySeq DEF Init
<1>2. Rung(v, 0)
  <2>1. 0 * Interval = 0 /\ (0 + 1) * Interval = Interval /\ Interval \in Nat \ {0}
    BY UpdaterAssumption, Distribute
  <2>2. Counted(v) = 0 /\ Rungs(v) = MaxSavepoints
    BY <1>1 DEF Counted, Rungs, Saving
  <2>3. \A i \in Nat : ~(i < 0)
    OBVIOUS
  <2>4. 0 * Interval <= 0 /\ 0 < (0 + 1) * Interval
    BY <2>1
  <2> QED BY <2>2, <2>3, <2>4 DEF Rung
<1>3. \A j \in DOMAIN savepoints : FALSE
  BY <1>1
<1> QED BY <1>1, <1>2, <1>3 DEF Follows, Detecting, Standing

\* Every step keeps what is followed of the first reorg.
LEMMA FollowsStep ==
  ASSUME Alone, CommitInterval = 1, Followed, Followed', [Next]_vars,
         NEW v \in Updaters, Follows(v)
  PROVE  Follows(v)'
<1>1. /\ Typed /\ Len(chain) \in Nat /\ Len(chain') \in Nat /\ Len(chain) <= Len(chain')
      /\ reorgs \in Nat
  BY ChainNewer, LenProperties DEF Followed, Basics, Typed
<1>2. Detecting(v)'
  BY DetectingStep DEF Follows
<1>3. ASSUME Quiet' PROVE Standing(v)' \/ Recovered(v)' \/ Stuck(v)'
  <2>1. Quiet /\ \/ UNCHANGED vars
                 \/ Mine
                 \/ reorgs = 0 /\ \E d \in 1..MaxReorgDepth : Reorganize(d)
                 \/ \E u \in Updaters : Update(u) \/ Fetch(u) \/ FetchEnd(u)
    BY <1>1, <1>3, QuietStep
  <2>2. CASE Standing(v)
    BY <2>1, <2>2, StandingStep DEF Follows
  <2>3. CASE Recovered(v) \/ Stuck(v)
    <3>1. reorgs # 0
      BY <2>3 DEF Recovered, Stuck
    <3>2. \/ UNCHANGED vars
          \/ Mine
          \/ \E u \in Updaters : Update(u) \/ Fetch(u) \/ FetchEnd(u)
      BY <2>1, <3>1
    <3>3. CASE Recovered(v)
      BY <1>3, <3>2, <3>3, RecoveredStep
    <3>4. CASE Stuck(v)
      BY <1>3, <3>2, <3>4, StuckStep
    <3> QED BY <2>3, <3>3, <3>4
  <2> QED BY <2>1, <2>2, <2>3 DEF Follows
<1> QED BY <1>2, <1>3 DEF Follows

(***************************************************************************)
(* A reorg that detect_reorg accepts as recoverable has forked above the   *)
(* oldest savepoint, when it is the first one, nothing has failed and the  *)
(* tip is within CHAIN_TIP_DISTANCE of the lowest height the depth counts  *)
(* on, at any height: one updater, a commit after every block.             *)
(***************************************************************************)
THEOREM FirstReorgRecovers ==
  ASSUME Alone, CommitInterval = 1
  PROVE  Spec => FirstReorgIsRecoverable
<1> DEFINE Inv == Followed /\ \A u \in Updaters : Follows(u)
<1>1. Init => Inv
  <2> SUFFICES ASSUME Init PROVE Followed
    BY FollowsInit
  <2> QED BY FollowedInit
<1>2. Inv /\ [Next]_vars => Inv'
  <2> SUFFICES ASSUME Inv, [Next]_vars PROVE Inv'
    OBVIOUS
  <2>1. Followed'
    BY FollowedStep
  <2> QED BY <2>1, FollowsStep
<1>3. Inv => \A u \in Updaters : DetectRecoverable(u) /\ Undisturbed(u) => OldestOnChain
  <2> SUFFICES ASSUME Inv, NEW u \in Updaters, DetectRecoverable(u), Undisturbed(u)
               PROVE  OldestOnChain
    OBVIOUS
  <2>1. pc[u] = "detect" /\ height[u] = Len(db)
    BY DEF DetectRecoverable, Follows, Detecting
  <2>2. db \in Seq(Block) /\ chain \in Seq(Block) /\ savepoints \in Seq(Seq(Block))
        /\ Len(db) \in Nat /\ MaxSavepoints * Interval \in Nat
    BY LenProperties, TimesNat, UpdaterAssumption DEF Followed, Basics, Typed
  <2>3. ~Low
    <3>1. MaxSavepoints * Interval <= Len(db)
      BY <2>1 DEF Undisturbed
    <3>2. Near((Len(db) \div Interval - (MaxSavepoints - 1)) * Interval)
      BY <2>1 DEF Undisturbed, LowestCounted, Near
    <3> QED BY <3>1, <3>2, <2>2 DEF Low
  <2>4. Quiet
    BY DEF Undisturbed, Quiet
  <2>5. ~Recovered(u)
    BY <2>1, <2>2, ForkedNotExtended DEF Followed, Ages, InStep, Recovered
  <2>6. Standing(u)
    BY <2>3, <2>4, <2>5 DEF Follows, Stuck
  <2>7. OldestOn(chain)
    BY <2>3, <2>4, <2>6, Recoverable DEF Follows
  <2>8. savepoints # << >> /\ savepoints[1] \in Seq(Block)
    BY <2>2, <2>7, ElementOfSeq, LenProperties, EmptySeq DEF OldestOn
  <2> QED BY <2>2, <2>7, <2>8, ExtendsIsPrefix DEF OldestOn, OldestOnChain
<1> QED BY <1>1, <1>2, <1>3, PTL DEF Spec, FirstReorgIsRecoverable

=============================================================================
