---------------------------- MODULE WalletProofs ----------------------------
(***************************************************************************)
(* Theorems about Wallet, for any first blocks, commands and transactions  *)
(* of others, and any order of the requests, the node and the index.       *)
(*                                                                         *)
(* WalletInvariant says how the chain, the index and what the command has  *)
(* read agree.  On it rests RunInvariant, which follows the wallet's own   *)
(* transaction through index_runes: what the wallet had, less the inputs   *)
(* that are taken, is what it has.  Each property then has an invariant of *)
(* its own, loop by loop, of what is due to the wallet's outputs.          *)
(***************************************************************************)
EXTENDS Wallet, RuneUpdaterProofs

-----------------------------------------------------------------------------
(* What the steps of the node, the index and the command are. *)

\* The transactions that are in a block, those of the block that the index has
\* not taken yet, and those it has.
Mined == DOMAIN txs \ mempool
Waiting == Range(block)
Indexed == Mined \ Waiting

NodeKept == UNCHANGED <<txs, mempool, block, unspent>>
IndexKept == pc = "idle" /\ UNCHANGED vars
Command_ ==
  \/ Synchronize \/ ListOutputs \/ GetOutputInfo \/ LockOutputs \/ GetBlockCount
  \/ GetEntries \/ GetChainEnd \/ GetEndValue \/ Build \/ Fund
Sending(t) ==
  /\ IndexKept
  /\ MempoolAccepts(t)
  /\ Broadcast(t)
  /\ UNCHANGED <<block, unspent>>
SendOwn == phase = "send" /\ Sending(draft) /\ phase' = "done"
           /\ order' = [order EXCEPT !.status = "sent", !.txid = Len(txs) + 1]
           /\ UNCHANGED <<locked, sentBy, locals>>
SendFails == phase = "send" /\ IndexKept /\ NodeKept /\ order' = order /\ phase' = "done"
             /\ UNCHANGED <<locked, sentBy, locals>>

\* A request of the command changes nothing of the node, but for the locks, and
\* nothing of the index.
LEMMA CommandKeeps ==
  ASSUME Command_
  PROVE  IndexKept /\ NodeKept /\ order' = order /\ sentBy' = sentBy
<1> USE DEF IndexKept, NodeKept, Request, NodeUnchanged, nodeVars
<1>1. Synchronize => IndexKept /\ NodeKept /\ order' = order /\ sentBy' = sentBy
  BY DEF Synchronize
<1>2. ListOutputs => IndexKept /\ NodeKept /\ order' = order /\ sentBy' = sentBy
  BY DEF ListOutputs
<1>3. GetOutputInfo => IndexKept /\ NodeKept /\ order' = order /\ sentBy' = sentBy
  BY DEF GetOutputInfo
<1>4. LockOutputs => IndexKept /\ NodeKept /\ order' = order /\ sentBy' = sentBy
  BY DEF LockOutputs
<1>5. GetBlockCount => IndexKept /\ NodeKept /\ order' = order /\ sentBy' = sentBy
  BY DEF GetBlockCount
<1>6. GetEntries => IndexKept /\ NodeKept /\ order' = order /\ sentBy' = sentBy
  BY DEF GetEntries, GetEntry
<1>7. GetChainEnd => IndexKept /\ NodeKept /\ order' = order /\ sentBy' = sentBy
  BY DEF GetChainEnd
<1>8. GetEndValue => IndexKept /\ NodeKept /\ order' = order /\ sentBy' = sentBy
  BY DEF GetEndValue
<1>9. Build => IndexKept /\ NodeKept /\ order' = order /\ sentBy' = sentBy
  BY DEF Build
<1>10. Fund => IndexKept /\ NodeKept /\ order' = order /\ sentBy' = sentBy
  BY DEF Fund
<1> QED
  BY <1>1, <1>2, <1>3, <1>4, <1>5, <1>6, <1>7, <1>8, <1>9, <1>10 DEF Command_

\* The kinds of steps there are.
LEMMA WalletSteps ==
  ASSUME [WalletNext]_walletVars
  PROVE  \/ Command_
         \/ SendOwn
         \/ SendFails
         \/ \E name \in DOMAIN Crowd : CrowdSends(name)
         \/ MineBlock
         \/ IndexBegin \/ IndexTake \/ IndexStep \/ IndexEnd
         \/ UNCHANGED walletVars
<1>1. Send => SendOwn \/ SendFails
  BY DEF Send, SendOwn, SendFails, Sending, IndexKept, NodeKept
<1> QED BY <1>1 DEF WalletNext, Command_

\* What a step of the index leaves alone.
OrderType ==
  order \in [status : {"none", "sent", "indexed"}, txid : Nat, had : [Rune -> Nat],
             end : [Rune -> Nat], got : [Rune -> Int], converted : BOOLEAN, at : Nat]

\* The steps of the index keep the node, the command and all of the order but
\* its status and what its block shows.
LEMMA IndexKeeps ==
  ASSUME OrderType, IndexBegin \/ IndexTake \/ IndexStep \/ IndexEnd
  PROVE  /\ UNCHANGED <<txs, mempool, unspent, locked, sentBy, phase, locals>>
         /\ order'.txid = order.txid
         /\ order'.status # order.status => IndexStep
         /\ IndexTake \/ block' = block
         /\ IndexTake \/ [Next]_vars
<1>1. CASE IndexBegin \/ IndexEnd
  BY <1>1 DEF IndexBegin, IndexEnd, nodeVars, commandVars, Next
<1>2. CASE IndexTake
  BY <1>2 DEF IndexTake, commandVars, OrderType
<1>3. CASE IndexStep
  <2>1. IndexRunes /\ UNCHANGED <<nodeVars, commandVars>>
    BY <1>3 DEF IndexStep
  <2>2. order'.txid = order.txid
    BY <1>3 DEF IndexStep, OrderType
  <2> QED BY <1>3, <2>1, <2>2 DEF nodeVars, commandVars, Next
<1> QED BY <1>1, <1>2, <1>3

-----------------------------------------------------------------------------
(* The node. *)

IsOutput(o) == o \in Created(txs[o.txid], o.txid)

NodeTypes == txs \in Seq(Transaction) /\ mempool \subseteq DOMAIN txs /\ unspent \subseteq Outpoint
(***************************************************************************)
(* The block that the index has not taken is of mined transactions, each   *)
(* of them once.                                                           *)
(***************************************************************************)
BlockMined ==
  /\ block \in Seq(Nat)
  /\ Waiting \subseteq Mined
  /\ \A i, j \in DOMAIN block : block[i] = block[j] => i = j

(***************************************************************************)
(* What consensus and the mempool see to: an output is of a mined          *)
(* transaction before it is spent, it is spent once, and what a mined      *)
(* transaction spends is not unspent any more.                             *)
(***************************************************************************)
OneSpender ==
  \A m, n \in DOMAIN txs : \A o \in txs[m].inputs : o \in txs[n].inputs => m = n
InputsMined == \A n \in DOMAIN txs : \A o \in txs[n].inputs : o.txid \in Mined /\ IsOutput(o)
UnspentMined == \A o \in unspent : o.txid \in Mined /\ IsOutput(o)
SpentGone == \A n \in Mined : \A o \in txs[n].inputs : o \notin unspent
CoinbaseEmpty ==
  \A n \in DOMAIN txs :
    txs[n].template.coinbase => txs[n].inputs = {} /\ txs[n].template.artifact = NoArtifact

(***************************************************************************)
(* The wallet's outputs carry no chain, and in the mempool only those of   *)
(* the transaction it sent are its own.                                    *)
(***************************************************************************)
MinePlain ==
  \A n \in DOMAIN txs : \A v \in txs[n].mine :
    v \in DOMAIN txs[n].template.outputs /\ txs[n].template.outputs[v].script = "plain"
MineMined == \A n \in mempool : txs[n].mine = {} \/ n = order.txid

NodeInvariant ==
  /\ NodeTypes
  /\ BlockMined
  /\ OneSpender
  /\ InputsMined
  /\ UnspentMined
  /\ SpentGone
  /\ CoinbaseEmpty
  /\ MinePlain
  /\ MineMined

\* A transaction more.
LEMMA Appended ==
  ASSUME txs \in Seq(Transaction), NEW t \in Transaction, txs' = Append(txs, t)
  PROVE  /\ txs' \in Seq(Transaction)
         /\ Len(txs) + 1 \in Nat /\ Len(txs) + 1 > 0
         /\ DOMAIN txs = 1..Len(txs)
         /\ DOMAIN txs' = DOMAIN txs \cup {Len(txs) + 1}
         /\ Len(txs) + 1 \notin DOMAIN txs
         /\ \A n \in DOMAIN txs : txs'[n] = txs[n]
         /\ txs'[Len(txs) + 1] = t
<1>1. /\ txs' \in Seq(Transaction) /\ Len(txs') = Len(txs) + 1
      /\ \A i \in 1..Len(txs) : txs'[i] = txs[i]
      /\ txs'[Len(txs) + 1] = t
  BY AppendProperties
<1>2. Len(txs) \in Nat /\ DOMAIN txs = 1..Len(txs) /\ DOMAIN txs' = 1..Len(txs')
  BY <1>1, LenProperties
<1>3. 1..(Len(txs) + 1) = 1..Len(txs) \cup {Len(txs) + 1} /\ Len(txs) + 1 \notin 1..Len(txs)
  BY <1>2
<1> QED BY <1>1, <1>2, <1>3

\* Of a transaction.
LEMMA TransactionFacts ==
  ASSUME txs \in Seq(Transaction), NEW n \in DOMAIN txs
  PROVE  /\ n \in Nat /\ n > 0
         /\ txs[n] \in Transaction /\ txs[n].template \in Template
         /\ txs[n].inputs \subseteq Outpoint
         /\ txs[n].template.outputs \in Seq(Output)
         /\ DOMAIN txs[n].template.outputs = 1..Len(txs[n].template.outputs)
         /\ Len(txs[n].template.outputs) \in Nat
         /\ \A o \in Created(txs[n], n) : o \in Outpoint /\ o.txid = n
<1>1. DOMAIN txs = 1..Len(txs) /\ Len(txs) \in Nat
  BY LenProperties
<1>2. txs[n] \in Transaction
  BY <1>1, ElementOfSeq
<1>3. txs[n].template \in Template /\ txs[n].inputs \subseteq Outpoint
  BY <1>2 DEF Transaction
<1>4. txs[n].template.outputs \in Seq(Output)
  BY <1>3 DEF Template
<1>5. DOMAIN txs[n].template.outputs = 1..Len(txs[n].template.outputs) /\ Len(txs[n].template.outputs) \in Nat
  BY <1>4, LenProperties
<1>6. \A o \in Created(txs[n], n) : o \in Outpoint /\ o.txid = n
  BY <1>1, <1>5 DEF Created, Outpoint
<1> QED BY <1>1, <1>2, <1>3, <1>4, <1>5, <1>6

\* Nothing happens at the node.
LEMMA NodeRests ==
  ASSUME NodeInvariant, NodeKept, order'.txid = order.txid
  PROVE  NodeInvariant'
  BY DEF NodeInvariant, NodeKept, NodeTypes, BlockMined, OneSpender, InputsMined, UnspentMined,
    SpentGone, CoinbaseEmpty, MinePlain, MineMined, Mined, Waiting, IsOutput

\* The index takes the first transaction of the block.
LEMMA BlockShrinks ==
  ASSUME NodeInvariant, block # << >>, block' = Tail(block), UNCHANGED <<txs, mempool>>
  PROVE  /\ Head(block) \in Waiting /\ Head(block) \in DOMAIN txs /\ Head(block) \in Mined
         /\ Waiting' = Waiting \ {Head(block)}
         /\ Mined' = Mined
         /\ Indexed' = Indexed \cup {Head(block)}
         /\ Head(block) \notin Indexed
         /\ BlockMined'
<1>1. block \in Seq(Nat) /\ Waiting \subseteq Mined
  BY DEF NodeInvariant, BlockMined
<1>2. /\ Len(block) \in Nat /\ DOMAIN block = 1..Len(block) /\ Len(block) # 0
      /\ block' \in Seq(Nat) /\ Len(block') = Len(block) - 1
      /\ \A i \in 1..Len(block') : block'[i] = block[i + 1]
      /\ Head(block) = block[1]
  BY <1>1, LenProperties, HeadTailProperties, EmptySeq
<1>3. DOMAIN block' = 1..(Len(block) - 1)
  BY <1>2, LenProperties
<1>4. 1 \in DOMAIN block /\ \A i \in DOMAIN block' : i + 1 \in DOMAIN block
  BY <1>2, <1>3
<1>5. \A i, j \in DOMAIN block : block[i] = block[j] => i = j
  BY DEF NodeInvariant, BlockMined
<1>6. Head(block) \in Waiting
  BY <1>2, <1>4 DEF Waiting, Range
<1>7. Waiting' = Waiting \ {Head(block)}
  <2>1. ASSUME NEW x \in Waiting' PROVE x \in Waiting \ {Head(block)}
    <3>1. PICK i \in DOMAIN block' : x = block'[i]
      BY DEF Waiting, Range
    <3>2. i + 1 \in DOMAIN block /\ x = block[i + 1] /\ i + 1 # 1
      BY <1>2, <1>3, <1>4, <3>1
    <3>3. x # block[1]
      BY <1>4, <1>5, <3>2
    <3> QED BY <1>2, <3>2, <3>3 DEF Waiting, Range
  <2>2. ASSUME NEW x \in Waiting \ {Head(block)} PROVE x \in Waiting'
    <3>1. PICK i \in DOMAIN block : x = block[i]
      BY DEF Waiting, Range
    <3>2. i # 1
      BY <1>2, <3>1
    <3>3. i - 1 \in DOMAIN block' /\ i - 1 + 1 = i
      BY <1>2, <1>3, <3>2
    <3>4. block'[i - 1] = x
      BY <1>2, <1>3, <3>1, <3>3
    <3> QED BY <3>3, <3>4 DEF Waiting, Range
  <2> QED BY <2>1, <2>2
<1>8. \A i, j \in DOMAIN block' : block'[i] = block'[j] => i = j
  <2> SUFFICES ASSUME NEW i \in DOMAIN block', NEW j \in DOMAIN block', block'[i] = block'[j]
               PROVE  i = j
    OBVIOUS
  <2>1. i + 1 = j + 1
    BY <1>2, <1>3, <1>4, <1>5
  <2> QED BY <1>2, <1>3, <2>1
<1>9. Mined' = Mined
  BY DEF Mined
<1> QED BY <1>1, <1>2, <1>6, <1>7, <1>8, <1>9 DEF BlockMined, Indexed, Mined

\* A transaction that the index takes leaves the waiting ones in the order of
\* the chain.
LEMMA TakeKeepsNode ==
  ASSUME NodeInvariant, OrderType, IndexTake
  PROVE  NodeInvariant'
<1>1. block # << >> /\ block' = Tail(block) /\ UNCHANGED <<txs, mempool, unspent>> /\ order'.txid = order.txid
  BY IndexKeeps DEF IndexTake
<1>2. Mined' = Mined /\ BlockMined'
  BY <1>1, BlockShrinks
<1> QED
  BY <1>1, <1>2 DEF NodeInvariant, NodeTypes, OneSpender, InputsMined, UnspentMined,
    SpentGone, CoinbaseEmpty, MinePlain, MineMined, IsOutput

\* What the mempool is sent.
Sendable(t) ==
  /\ t \in Transaction
  /\ ~t.template.coinbase
  /\ \A v \in t.mine : v \in DOMAIN t.template.outputs /\ t.template.outputs[v].script = "plain"

\* A transaction of the command or of others is sent.
LEMMA SendingKeepsNode ==
  ASSUME NodeInvariant, NEW t, Sendable(t), Sending(t),
         \/ t.mine = {} /\ order'.txid = order.txid
         \/ order.txid \notin DOMAIN txs /\ order'.txid = Len(txs) + 1
  PROVE  /\ NodeInvariant'
         /\ Mined' = Mined /\ Waiting' = Waiting /\ Indexed' = Indexed
         /\ \A o \in t.inputs : o \in unspent
<1> DEFINE m == Len(txs) + 1
<1>1. /\ txs \in Seq(Transaction) /\ mempool \subseteq DOMAIN txs /\ t \in Transaction
      /\ t.inputs \subseteq unspent \ SpentInMempool
      /\ txs' = Append(txs, t) /\ mempool' = mempool \cup {m} /\ UNCHANGED <<block, unspent>>
  BY DEF NodeInvariant, NodeTypes, Sendable, Sending, MempoolAccepts, Broadcast
<1>2. /\ txs' \in Seq(Transaction) /\ DOMAIN txs' = DOMAIN txs \cup {m} /\ m \notin DOMAIN txs
      /\ \A n \in DOMAIN txs : txs'[n] = txs[n]
      /\ txs'[m] = t
  BY <1>1, Appended
<1> HIDE DEF m
<1>3. Mined' = Mined /\ Mined \subseteq DOMAIN txs
  BY <1>1, <1>2 DEF Mined
<1>4. NodeTypes' /\ BlockMined'
  BY <1>1, <1>2, <1>3 DEF NodeInvariant, NodeTypes, BlockMined, Waiting
<1>5. \A o : o.txid \in Mined => (IsOutput(o))' = IsOutput(o)
  BY <1>2, <1>3 DEF IsOutput
<1>6. \A o \in t.inputs : o.txid \in Mined /\ IsOutput(o)
  BY <1>1 DEF NodeInvariant, UnspentMined
<1>7. InputsMined' /\ UnspentMined'
  <2>1. UnspentMined'
    BY <1>1, <1>3, <1>5 DEF NodeInvariant, UnspentMined
  <2>2. ASSUME NEW n \in DOMAIN txs', NEW o \in txs'[n].inputs PROVE (o.txid \in Mined /\ IsOutput(o))'
    <3>1. CASE n = m
      BY <1>2, <1>3, <1>5, <1>6, <3>1
    <3>2. CASE n \in DOMAIN txs
      BY <1>2, <1>3, <1>5, <3>2 DEF NodeInvariant, InputsMined
    <3> QED BY <1>2, <3>1, <3>2
  <2> QED BY <2>1, <2>2 DEF InputsMined
<1>8. SpentGone'
  BY <1>1, <1>2, <1>3 DEF NodeInvariant, SpentGone
<1>9. \A n \in DOMAIN txs : \A o \in txs[n].inputs : o \notin t.inputs
  <2> SUFFICES ASSUME NEW n \in DOMAIN txs, NEW o \in txs[n].inputs PROVE o \notin t.inputs
    OBVIOUS
  <2>1. CASE n \in mempool
    BY <1>1, <2>1 DEF SpentInMempool
  <2>2. CASE n \in Mined
    BY <1>1, <2>2 DEF NodeInvariant, SpentGone
  <2> QED BY <2>1, <2>2 DEF Mined
<1>10. OneSpender'
  <2> SUFFICES ASSUME NEW k \in DOMAIN txs', NEW n \in DOMAIN txs', NEW o \in txs'[k].inputs, o \in txs'[n].inputs
               PROVE  k = n
    BY DEF OneSpender
  <2>1. k \in DOMAIN txs /\ n \in DOMAIN txs => k = n
    BY <1>2 DEF NodeInvariant, OneSpender
  <2> QED BY <1>2, <1>9, <2>1
<1>11. CoinbaseEmpty' /\ MinePlain'
  BY <1>2 DEF NodeInvariant, CoinbaseEmpty, MinePlain, Sendable
<1>12. MineMined'
  BY <1>1, <1>2 DEF NodeInvariant, MineMined, m
<1> QED BY <1>1, <1>3, <1>4, <1>7, <1>8, <1>10, <1>11, <1>12 DEF NodeInvariant, Waiting, Indexed

\* The transactions of a new block are taken out of the mempool, after a coinbase.
Mines(S) ==
  LET m == Len(txs) + 1
  IN  /\ S \subseteq mempool
      /\ block = << >>
      /\ txs' = Append(txs, CoinbaseTx({}))
      /\ mempool' = mempool \ S
      /\ unspent' = (unspent \cup UNION {Created(txs'[n], n) : n \in S \cup {m}})
                       \ (UNION {txs[n].inputs : n \in S})
      /\ block' \in Seq(Nat)
      /\ Waiting' = S \cup {m}
      /\ \A i, j \in DOMAIN block' : block'[i] = block'[j] => i = j

\* A set written as a sequence has each of its members once.
LEMMA OrderedOnce ==
  ASSUME NEW S, IsFiniteSet(S), NEW list \in SetToSeqs(S)
  PROVE  /\ Cardinality(S) \in Nat
         /\ list \in [1..Cardinality(S) -> S] /\ Len(list) = Cardinality(S)
         /\ \A i, j \in 1..Cardinality(S) : list[i] = list[j] => i = j
         /\ \A x \in S : \E i \in 1..Cardinality(S) : list[i] = x
<1> DEFINE n == Cardinality(S)
<1>1. n \in Nat
  BY FS_CardinalityType
<1>2. list \in [1..n -> S] /\ \A i, j \in 1..n : i # j => list[i] # list[j]
  BY DEF SetToSeqs
<1>3. list \in Injection(1..n, S)
  BY <1>2 DEF Injection, IsInjective
<1>4. Len(list) = n
  BY <1>1, <1>2
<1>5. IsFiniteSet(1..n) /\ Cardinality(1..n) = n
  BY <1>1, FS_Interval
<1>6. list \in Surjection(1..n, S)
  BY <1>3, <1>5, FS_Injection
<1> QED BY <1>1, <1>2, <1>4, <1>6 DEF Surjection

\* A block that is mined is some set of transactions, of which the index and
\* the command know nothing yet.
LEMMA MineFacts ==
  ASSUME NodeInvariant, MineBlock
  PROVE  /\ \E S : Mines(S)
         /\ IndexKept
         /\ UNCHANGED <<locked, sentBy, commandVars, order>>
         /\ phase \in {"start", "done"} \/ LateBlocks
<1> DEFINE m == Len(txs) + 1
<1>1. PICK S \in SUBSET mempool : \E list \in SetToSeqs(S) :
        LET taken == [n \in 1..(Len(list) + 1) |-> IF n = 1 THEN m ELSE list[n - 1]]
        IN  /\ txs' = Append(txs, CoinbaseTx({}))
            /\ block' = taken
            /\ mempool' = mempool \ S
            /\ unspent' = (unspent \cup UNION {Created(txs'[n], n) : n \in Range(taken)})
                           \ (UNION {txs[n].inputs : n \in S})
  BY DEF MineBlock
<1>2. PICK list \in SetToSeqs(S) :
        LET taken == [n \in 1..(Len(list) + 1) |-> IF n = 1 THEN m ELSE list[n - 1]]
        IN  /\ txs' = Append(txs, CoinbaseTx({}))
            /\ block' = taken
            /\ mempool' = mempool \ S
            /\ unspent' = (unspent \cup UNION {Created(txs'[n], n) : n \in Range(taken)})
                           \ (UNION {txs[n].inputs : n \in S})
  BY <1>1
<1>3. /\ Len(txs) \in Nat /\ DOMAIN txs = 1..Len(txs) /\ mempool \subseteq 1..Len(txs)
  BY LenProperties DEF NodeInvariant, NodeTypes
<1>4. IsFiniteSet(S)
  <2>1. IsFiniteSet(1..Len(txs))
    BY <1>3, FS_Interval
  <2> QED BY <1>3, <2>1, FS_Subset
<1>5. /\ Cardinality(S) \in Nat
      /\ list \in [1..Cardinality(S) -> S] /\ Len(list) = Cardinality(S)
      /\ \A i, j \in 1..Cardinality(S) : list[i] = list[j] => i = j
      /\ \A x \in S : \E i \in 1..Cardinality(S) : list[i] = x
  BY <1>4, OrderedOnce
<1> DEFINE k == Cardinality(S)
<1>6. k \in Nat /\ Len(list) = k /\ list \in [1..k -> S]
  BY <1>5
<1>7. /\ \A i, j \in 1..k : list[i] = list[j] => i = j
      /\ \A x \in S : \E i \in 1..k : list[i] = x
  BY <1>5
<1>8. m \in Nat /\ m \notin S /\ S \subseteq Nat
  BY <1>3
<1> HIDE DEF k, m
<1>9. /\ block' = [n \in 1..(k + 1) |-> IF n = 1 THEN m ELSE list[n - 1]]
      /\ unspent' = (unspent \cup UNION {Created(txs'[n], n) : n \in Range(block')})
                           \ (UNION {txs[n].inputs : n \in S})
  BY <1>2, <1>6
<1>10. \A n \in 1..(k + 1) : n = 1 \/ n - 1 \in 1..k
  BY <1>6
<1>11. \A n \in 1..k : n + 1 \in 1..(k + 1) /\ n + 1 # 1 /\ n + 1 - 1 = n
  BY <1>6
<1>12. block' \in [1..(k + 1) -> Nat] /\ block'[1] = m /\ 1 \in 1..(k + 1)
  <2>1. 1 \in 1..(k + 1) /\ block'[1] = m
    BY <1>6, <1>9
  <2>2. \A n \in 1..(k + 1) : (IF n = 1 THEN m ELSE list[n - 1]) \in Nat
    BY <1>6, <1>8, <1>10
  <2> QED BY <1>9, <2>1, <2>2
<1>13. block' \in Seq(Nat) /\ DOMAIN block' = 1..(k + 1)
  <2>1. k + 1 \in Nat
    BY <1>6
  <2> QED BY <1>12, <2>1
<1>14. Range(block') = S \cup {m}
  <2>1. ASSUME NEW x \in S PROVE x \in Range(block')
    <3>1. PICK i \in 1..k : list[i] = x
      BY <1>7
    <3>2. block'[i + 1] = x /\ i + 1 \in DOMAIN block'
      BY <1>9, <1>11, <1>13, <3>1
    <3> QED BY <3>2 DEF Range
  <2>2. m \in Range(block')
    BY <1>12, <1>13 DEF Range
  <2>3. ASSUME NEW i \in DOMAIN block' PROVE block'[i] \in S \cup {m}
    BY <1>6, <1>9, <1>10, <1>13
  <2>4. Range(block') \subseteq S \cup {m}
    BY <2>3 DEF Range
  <2> QED BY <2>1, <2>2, <2>4
<1>15. \A i, j \in DOMAIN block' : block'[i] = block'[j] => i = j
  <2> SUFFICES ASSUME NEW i \in 1..(k + 1), NEW j \in 1..(k + 1), block'[i] = block'[j]
               PROVE  i = j
    BY <1>13
  <2>1. \A n \in 1..(k + 1) : n # 1 => block'[n] = list[n - 1] /\ n - 1 \in 1..k /\ block'[n] # m
    BY <1>6, <1>8, <1>9, <1>10
  <2>2. CASE i = 1 \/ j = 1
    BY <1>12, <2>1, <2>2
  <2>3. CASE i # 1 /\ j # 1
    <3>1. list[i - 1] = list[j - 1] /\ i - 1 \in 1..k /\ j - 1 \in 1..k
      BY <2>1, <2>3
    <3>2. i - 1 = j - 1
      BY <1>7, <3>1
    <3> QED BY <1>6, <3>2
  <2> QED BY <2>2, <2>3
<1>16. unspent' = (unspent \cup UNION {Created(txs'[n], n) : n \in S \cup {m}})
                       \ (UNION {txs[n].inputs : n \in S})
  BY <1>9, <1>14
<1>17. Mines(S)
  BY <1>1, <1>2, <1>13, <1>14, <1>15, <1>16 DEF Mines, Waiting, MineBlock, m
<1> QED BY <1>17 DEF MineBlock, IndexKept

\* The coinbase transactions of the model.
LEMMA CoinbaseIs ==
  ASSUME NEW mine \in SUBSET {1, 2}
  PROVE  LET t == CoinbaseTx(mine)
         IN  /\ t \in Transaction /\ t.inputs = {} /\ t.mine = mine /\ t.template.coinbase
             /\ t.template.artifact = NoArtifact
             /\ DOMAIN t.template.outputs = {1, 2}
             /\ \A v \in {1, 2} : t.template.outputs[v].script = "plain"
<1> DEFINE o == [script |-> "plain", value |-> 0]
<1>1. WalletOutput("plain") = o /\ o \in Output
  BY DEF WalletOutput, Output, Script, StateChange
<1>2. <<o, o>> \in Seq(Output) /\ DOMAIN <<o, o>> = {1, 2}
  BY <1>1
<1>3. NoArtifact \in Artifact
  BY EmptySeq DEF NoArtifact, Artifact
<1>4. CoinbaseTx(mine).template = [coinbase |-> TRUE, rbf |-> FALSE, outputs |-> <<o, o>>, artifact |-> NoArtifact]
  BY <1>1 DEF CoinbaseTx
<1>5. CoinbaseTx(mine).template \in Template
  BY <1>2, <1>3, <1>4 DEF Template
<1>6. CoinbaseTx(mine) \in Transaction
  BY <1>5 DEF CoinbaseTx, Transaction
<1> QED BY <1>2, <1>4, <1>6 DEF CoinbaseTx

\* A block is mined.
LEMMA MiningKeepsNode ==
  ASSUME NodeInvariant, order'.txid = order.txid, NEW S, Mines(S)
  PROVE  /\ NodeInvariant'
         /\ Waiting = {}
         /\ Mined' = Mined \cup S \cup {Len(txs) + 1}
         /\ Indexed' = Indexed
         /\ txs'[Len(txs) + 1] = CoinbaseTx({})
         /\ DOMAIN txs' = DOMAIN txs \cup {Len(txs) + 1} /\ Len(txs) + 1 \notin DOMAIN txs
         /\ \A n \in DOMAIN txs : txs'[n] = txs[n]
<1> DEFINE m == Len(txs) + 1
           t == CoinbaseTx({})
<1>1. /\ txs \in Seq(Transaction) /\ mempool \subseteq DOMAIN txs /\ S \subseteq mempool
      /\ txs' = Append(txs, t) /\ mempool' = mempool \ S
      /\ unspent' = (unspent \cup UNION {Created(txs'[n], n) : n \in S \cup {m}})
                       \ (UNION {txs[n].inputs : n \in S})
      /\ Waiting' = S \cup {m}
  BY DEF NodeInvariant, NodeTypes, Mines
<1>2. /\ t \in Transaction /\ t.inputs = {} /\ t.mine = {} /\ t.template.coinbase
      /\ t.template.artifact = NoArtifact
  BY CoinbaseIs
<1> HIDE DEF t
<1>3. /\ txs' \in Seq(Transaction) /\ DOMAIN txs' = DOMAIN txs \cup {m} /\ m \notin DOMAIN txs
      /\ \A n \in DOMAIN txs : txs'[n] = txs[n]
      /\ txs'[m] = t
  BY <1>1, <1>2, Appended
<1> HIDE DEF m
<1>4. Waiting = {}
  BY DEF Mines, Waiting, Range
<1>5. Mined' = Mined \cup S \cup {m} /\ Mined \subseteq DOMAIN txs
  BY <1>1, <1>3 DEF Mined
<1>6. Indexed' = Indexed
  BY <1>1, <1>3, <1>4, <1>5 DEF Indexed, Mined
<1>7. \A n \in DOMAIN txs' : \A o \in Created(txs'[n], n) : o \in Outpoint /\ o.txid = n
  <2> SUFFICES ASSUME NEW n \in DOMAIN txs', NEW o \in Created(txs'[n], n) PROVE o \in Outpoint /\ o.txid = n
    OBVIOUS
  <2>1. CASE n \in DOMAIN txs
    BY <1>1, <1>3, <2>1, TransactionFacts
  <2>2. CASE n = m
    <3>1. DOMAIN t.template.outputs = {1, 2}
      BY CoinbaseIs DEF t
    <3>2. m \in Nat
      BY <1>1, LenProperties DEF m
    <3> QED BY <1>3, <2>2, <3>1, <3>2 DEF Created, Outpoint
  <2> QED BY <1>3, <2>1, <2>2
<1>8. NodeTypes' /\ BlockMined'
  <2>1. unspent' \subseteq Outpoint
    BY <1>1, <1>3, <1>7 DEF NodeInvariant, NodeTypes
  <2>2. mempool' \subseteq DOMAIN txs'
    BY <1>1, <1>3
  <2>3. BlockMined'
    BY <1>1, <1>5 DEF Mines, BlockMined
  <2> QED BY <1>3, <2>1, <2>2, <2>3 DEF NodeTypes
<1>9. \A o : o.txid \in Mined /\ IsOutput(o) => o.txid \in Mined' /\ (IsOutput(o))'
  BY <1>3, <1>5 DEF IsOutput
<1>10. InputsMined'
  BY <1>2, <1>3, <1>9 DEF NodeInvariant, InputsMined
<1>11. UnspentMined'
  <2> SUFFICES ASSUME NEW o \in unspent' PROVE o.txid \in Mined' /\ (IsOutput(o))'
    BY DEF UnspentMined
  <2>1. CASE o \in unspent
    BY <1>9, <2>1 DEF NodeInvariant, UnspentMined
  <2>2. CASE \E n \in S \cup {m} : o \in Created(txs'[n], n)
    <3>1. PICK n \in S \cup {m} : o \in Created(txs'[n], n)
      BY <2>2
    <3>2. o.txid = n
      BY <1>1, <1>3, <1>7, <3>1
    <3> QED BY <1>5, <3>1, <3>2 DEF IsOutput
  <2> QED BY <1>1, <2>1, <2>2
<1>12. SpentGone'
  <2> SUFFICES ASSUME NEW n \in Mined', NEW o \in txs'[n].inputs PROVE o \notin unspent'
    BY DEF SpentGone
  <2>1. n # m
    BY <1>2, <1>3
  <2>2. CASE n \in S
    BY <1>1, <1>3, <2>2
  <2>3. CASE n \in Mined
    <3>1. o \in txs[n].inputs /\ o \notin unspent /\ o.txid \in Mined
      BY <1>3, <1>5, <2>3 DEF NodeInvariant, SpentGone, InputsMined
    <3>2. ASSUME NEW k \in S \cup {m} PROVE o \notin Created(txs'[k], k)
      <4>1. k \in DOMAIN txs' /\ k \notin Mined
        BY <1>1, <1>3, <1>5 DEF Mined
      <4> QED BY <1>7, <3>1, <4>1
    <3> QED BY <1>1, <3>1, <3>2
  <2> QED BY <1>5, <2>1, <2>2, <2>3
<1>13. OneSpender' /\ CoinbaseEmpty' /\ MinePlain'
  BY <1>2, <1>3 DEF NodeInvariant, OneSpender, CoinbaseEmpty, MinePlain
<1>14. MineMined'
  BY <1>1, <1>3 DEF NodeInvariant, MineMined
<1> QED
  BY <1>3, <1>4, <1>5, <1>6, <1>8, <1>10, <1>11, <1>12, <1>13, <1>14 DEF NodeInvariant, m, t

\* The first block.
LEMMA NodeInit == WalletInit => NodeInvariant
<1> SUFFICES ASSUME WalletInit PROVE NodeInvariant
  OBVIOUS
<1>1. PICK seed \in Seeds :
        /\ txs = FirstBlock(seed)
        /\ block = [n \in 1..(Len(seed) + 1) |-> n]
        /\ unspent = (UNION {Created(txs[n], n) : n \in DOMAIN txs})
                      \ (UNION {txs[n].inputs : n \in DOMAIN txs})
  BY DEF WalletInit
<1> DEFINE t == CoinbaseTx({1, 2})
           k == Len(seed)
<1>2. /\ t \in Transaction /\ t.inputs = {} /\ t.mine = {1, 2} /\ t.template.coinbase
      /\ t.template.artifact = NoArtifact
      /\ DOMAIN t.template.outputs = {1, 2}
      /\ \A v \in {1, 2} : t.template.outputs[v].script = "plain"
  BY CoinbaseIs
<1>3. seed \in Seq(Transaction) /\ k \in Nat /\ DOMAIN seed = 1..k
  BY SeedAssumption, LenProperties
<1>4. txs = <<t>> \o seed /\ <<t>> \in Seq(Transaction) /\ Len(<<t>>) = 1 /\ <<t>>[1] = t
  BY <1>1, <1>2 DEF FirstBlock
<1> HIDE DEF t, k
<1>5. txs \in Seq(Transaction) /\ Len(txs) = 1 + Len(seed)
      /\ \A i \in 1..(1 + Len(seed)) : txs[i] = IF i <= 1 THEN <<t>>[i] ELSE seed[i - 1]
  BY <1>3, <1>4, ConcatProperties
<1>6. /\ DOMAIN txs = 1..(k + 1) /\ txs[1] = t /\ 1 \in 1..(k + 1)
      /\ \A n \in 1..(k + 1) : n = 1 \/ (n - 1 \in DOMAIN seed /\ txs[n] = seed[n - 1])
  <2>1. DOMAIN txs = 1..(k + 1) /\ 1 \in 1..(k + 1)
    BY <1>3, <1>5, LenProperties DEF k
  <2>2. txs[1] = t
    BY <1>3, <1>4, <1>5 DEF k
  <2>3. ASSUME NEW n \in 1..(k + 1), n # 1 PROVE n - 1 \in DOMAIN seed /\ txs[n] = seed[n - 1]
    <3>1. ~(n <= 1) /\ n \in 1..(1 + Len(seed)) /\ n - 1 \in 1..k
      BY <1>3, <2>3 DEF k
    <3> QED BY <1>3, <1>5, <3>1
  <2> QED BY <2>1, <2>2, <2>3
<1>7. \A i \in DOMAIN seed : i + 1 \in DOMAIN txs /\ txs[i + 1] = seed[i]
  <2> SUFFICES ASSUME NEW i \in DOMAIN seed PROVE i + 1 \in DOMAIN txs /\ txs[i + 1] = seed[i]
    OBVIOUS
  <2>1. PICK n \in 1..(k + 1) : n = i + 1 /\ n # 1 /\ n - 1 = i
    BY <1>3
  <2>2. txs[n] = seed[n - 1]
    BY <1>6, <2>1
  <2> QED BY <1>6, <2>1, <2>2
<1>8. mempool = {} /\ Mined = DOMAIN txs
  BY DEF WalletInit, Mined
<1>9. BlockMined
  <2>1. block \in [1..(k + 1) -> Nat] /\ DOMAIN block = 1..(k + 1) /\ k + 1 \in Nat
        /\ \A n \in 1..(k + 1) : block[n] = n
    BY <1>1, <1>3 DEF k
  <2>2. block \in Seq(Nat)
    BY <2>1
  <2> QED BY <1>6, <1>8, <2>1, <2>2 DEF BlockMined, Waiting, Range
<1>10. NodeTypes
  BY <1>1, <1>5, <1>8, TransactionFacts DEF NodeTypes
<1>11. \A i \in DOMAIN seed :
          /\ ~seed[i].template.coinbase
          /\ \A v \in seed[i].mine : /\ v \in DOMAIN seed[i].template.outputs
                                     /\ seed[i].template.outputs[v].script = "plain"
          /\ \A o \in seed[i].inputs : o.txid \in 1..i /\ o \in Created(txs[o.txid], o.txid)
          /\ \A j \in DOMAIN seed \ {i} : seed[i].inputs \cap seed[j].inputs = {}
  BY <1>1, SeedAssumption
<1>12. OneSpender
  <2> SUFFICES ASSUME NEW m \in DOMAIN txs, NEW n \in DOMAIN txs, NEW o \in txs[m].inputs, o \in txs[n].inputs
               PROVE  m = n
    BY DEF OneSpender
  <2>1. m # 1 /\ n # 1
    BY <1>2, <1>6
  <2>2. /\ m - 1 \in DOMAIN seed /\ txs[m] = seed[m - 1]
        /\ n - 1 \in DOMAIN seed /\ txs[n] = seed[n - 1]
    BY <1>6, <2>1
  <2>3. m - 1 = n - 1
    BY <1>11, <2>2
  <2> QED BY <1>3, <1>6, <2>3
<1>13. InputsMined
  <2> SUFFICES ASSUME NEW n \in DOMAIN txs, NEW o \in txs[n].inputs PROVE o.txid \in Mined /\ IsOutput(o)
    BY DEF InputsMined
  <2>1. n # 1
    BY <1>2, <1>6
  <2>2. n - 1 \in DOMAIN seed /\ txs[n] = seed[n - 1]
    BY <1>6, <2>1
  <2>3. o.txid \in 1..(n - 1) /\ o \in Created(txs[o.txid], o.txid)
    BY <1>11, <2>2
  <2>4. o.txid \in 1..(k + 1)
    BY <1>3, <1>6, <2>3
  <2> QED BY <1>6, <1>8, <2>3, <2>4 DEF IsOutput
<1>14. UnspentMined
  <2> SUFFICES ASSUME NEW o \in unspent PROVE o.txid \in Mined /\ IsOutput(o)
    BY DEF UnspentMined
  <2>1. PICK n \in DOMAIN txs : o \in Created(txs[n], n)
    BY <1>1
  <2>2. o.txid = n
    BY <2>1 DEF Created
  <2> QED BY <1>8, <2>1, <2>2 DEF IsOutput
<1>15. SpentGone
  BY <1>1, <1>8 DEF SpentGone
<1>16. CoinbaseEmpty
  BY <1>2, <1>6, <1>11 DEF CoinbaseEmpty
<1>17. MinePlain
  <2> SUFFICES ASSUME NEW n \in DOMAIN txs, NEW v \in txs[n].mine
               PROVE  v \in DOMAIN txs[n].template.outputs /\ txs[n].template.outputs[v].script = "plain"
    BY DEF MinePlain
  <2>1. CASE n = 1
    BY <1>2, <1>6, <2>1
  <2>2. CASE n # 1
    BY <1>6, <1>11, <2>2
  <2> QED BY <2>1, <2>2
<1>18. MineMined
  BY <1>8 DEF MineMined
<1> QED
  BY <1>9, <1>10, <1>12, <1>13, <1>14, <1>15, <1>16, <1>17, <1>18 DEF NodeInvariant

-----------------------------------------------------------------------------
(* The index: the transaction it takes. *)

SpentNow == {u \in Spendable : u.at \in txs[Head(block)].inputs}

\* What is taken, and what becomes of the outputs.
LEMMA TakeFacts ==
  ASSUME NodeInvariant, TypeOK, OrderType, IndexTake
  PROVE  LET n == Head(block)
             t == txs[n].template
         IN  /\ n \in Nat /\ n > 0 /\ n \in DOMAIN txs /\ n \in Waiting /\ n \in Mined /\ n \notin Indexed
             /\ Mined' = Mined /\ Indexed' = Indexed \cup {n} /\ Waiting' = Waiting \ {n}
             /\ Take(n, t, SpentNow) /\ nextTxid' = nextTxid
             /\ t \in Template /\ t.outputs \in Seq(Output) /\ t.artifact \in Artifact
             /\ Len(t.outputs) \in Nat /\ DOMAIN t.outputs = 1..Len(t.outputs)
             /\ SpentNow \subseteq utxos
             /\ tx' = [txid |-> n, inputs |-> {u.at : u \in SpentNow},
                       coinbase |-> t.coinbase, rbf |-> t.rbf, outputs |-> t.outputs,
                       artifact |-> t.artifact]
             /\ tx'.inputs \subseteq txs[n].inputs
             /\ pc = "block" /\ pc' = "inputs" /\ pending' = tx'.inputs
             /\ UNCHANGED <<txs, mempool, unspent, height, tables, burned>>
             /\ TypeOK'
<1> DEFINE n == Head(block)
           t == txs[n].template
<1>1. /\ block # << >> /\ block' = Tail(block) /\ UNCHANGED <<txs, mempool, unspent>>
      /\ Take(n, t, SpentNow) /\ nextTxid' = nextTxid
  BY DEF IndexTake, SpentNow
<1>2. /\ n \in Waiting /\ n \in DOMAIN txs /\ n \in Mined /\ n \notin Indexed
      /\ Mined' = Mined /\ Indexed' = Indexed \cup {n} /\ Waiting' = Waiting \ {n}
  BY <1>1, BlockShrinks
<1>3. /\ n \in Nat /\ n > 0 /\ t \in Template /\ t.outputs \in Seq(Output) /\ Len(t.outputs) \in Nat
      /\ DOMAIN t.outputs = 1..Len(t.outputs)
  BY <1>2, TransactionFacts DEF NodeInvariant, NodeTypes
<1> HIDE DEF n, t
<1>4. /\ t.coinbase \in BOOLEAN /\ t.rbf \in BOOLEAN
      /\ t.outputs \in Seq(Output) /\ t.artifact \in Artifact
  BY <1>3 DEF Template
<1>5. Len(t.outputs) \in Nat /\ \A v \in 1..Len(t.outputs) : t.outputs[v] \in Output
  BY <1>4, LenProperties, ElementOfSeq
<1>6. SpentNow \subseteq utxos /\ SpentNow \subseteq Unspent
  BY DEF SpentNow, Spendable, TypeOK, BlockType
<1>7. {u.at : u \in SpentNow} \subseteq Outpoint /\ {u.at : u \in SpentNow} \subseteq txs[n].inputs
  BY <1>6 DEF Unspent, SpentNow, n
<1>8. /\ tx' = [txid |-> n, inputs |-> {u.at : u \in SpentNow},
                coinbase |-> t.coinbase, rbf |-> t.rbf, outputs |-> t.outputs,
                artifact |-> t.artifact]
      /\ pc = "block" /\ pc' = "inputs" /\ pending' = tx'.inputs
      /\ UNCHANGED <<height, tables, burned>>
  BY <1>1 DEF Take
<1>9. tx' \in Tx /\ tx'.outputs = t.outputs
  BY <1>3, <1>4, <1>7, <1>8 DEF Tx
<1>10. TablesType'
  BY <1>1 DEF TypeOK, TablesType, Take, tables
<1>11. utxos' \subseteq Unspent
  <2>1. ASSUME NEW v \in 1..Len(t.outputs)
        PROVE  [at |-> [txid |-> n, vout |-> v],
                script |-> t.outputs[v].script, value |-> t.outputs[v].value,
                height |-> height, coinbase |-> t.coinbase] \in Unspent
    BY <1>3, <1>4, <1>5, <2>1 DEF Unspent, Outpoint, Output, TypeOK, BlockType
  <2>2. utxos \subseteq Unspent
    BY DEF TypeOK, BlockType
  <2> QED
    BY <1>1, <2>1, <2>2 DEF Take
<1>12. nextTxid' \in Nat \ {0} /\ lineage' \subseteq Nat
  BY <1>1, <1>3 DEF TypeOK, BlockType, Take
<1>13. BlockType'
  BY <1>1, <1>11, <1>12 DEF TypeOK, BlockType, Take, Phases
<1>14. /\ allocated' \in [Vouts' -> [Rune -> Nat]]
       /\ allocatedConversion' \in [Vouts' -> [Rune -> Nat]]
  BY <1>1, <1>9, ZeroType DEF Take, Vouts
<1>15. pending' \subseteq Outpoint /\ cursor' \in Nat
  BY <1>1, <1>7 DEF Take
<1>16. TransactionType'
  BY <1>1, <1>9, <1>14, <1>15 DEF TypeOK, TransactionType, Take
<1>17. TypeOK'
  BY <1>10, <1>13, <1>16 DEF TypeOK
<1> QED
  BY <1>1, <1>2, <1>3, <1>4, <1>6, <1>7, <1>8, <1>17 DEF n, t

\* The updater's own invariants.
Updater == UpdaterInvariant /\ LocalsFit /\ FiniteRows

\* The transaction that the index takes keeps what the updater relies on.
LEMMA TakeKeepsUpdater ==
  ASSUME NodeInvariant, Updater, OrderType, IndexTake
  PROVE  Updater'
<1>1. TypeOK' /\ pc' = "inputs" /\ height' = height /\ balances' = balances /\ pc = "block"
  BY TakeFacts DEF Updater, UpdaterInvariant, tables
<1>2. UpdaterInvariant'
  BY <1>1 DEF Updater, UpdaterInvariant, ConversionFound, InputReturned
<1>3. lastId' = lastId /\ inputId' = inputId
  BY DEF IndexTake, Take
<1>4. lastId = NoRune /\ inputId = NoRune
  <2>1. tx = NoTx
    BY <1>1 DEF Updater, LocalsFit, Working
  <2>2. Edicts = << >>
    BY <2>1 DEF Edicts, NoTx, NoArtifact
  <2> QED BY <2>2 DEF Updater, LocalsFit
<1>5. LocalsFit'
  BY <1>1, <1>3, <1>4 DEF LocalsFit, Working
<1>6. FiniteRows'
  BY <1>1 DEF Updater, FiniteRows
<1> QED BY <1>2, <1>5, <1>6 DEF Updater

\* The steps of the updater keep its invariant, its locals and the finite rows.
LEMMA StepKeepsUpdater ==
  ASSUME Updater, [Next]_vars
  PROVE  Updater'
  BY StepInvariant, StepLocalsFit, StepFiniteRows DEF Updater

\* No step of the system breaks what the updater relies on.
LEMMA UpdaterKept ==
  ASSUME NodeInvariant, Updater, OrderType, [WalletNext]_walletVars
  PROVE  Updater'
<1>1. IndexKept \/ UNCHANGED walletVars \/ MineBlock \/ (\E name \in DOMAIN Crowd : CrowdSends(name)) => [Next]_vars
  BY DEF IndexKept, walletVars, MineBlock, CrowdSends
<1>2. CASE IndexTake
  BY <1>2, TakeKeepsUpdater
<1>3. CASE ~IndexTake
  BY <1>1, <1>3, WalletSteps, CommandKeeps, IndexKeeps, StepKeepsUpdater DEF SendOwn, SendFails, Sending
<1> QED BY <1>2, <1>3

-----------------------------------------------------------------------------
(* The index: the loops of index_runes. *)

\* What a step of index_runes leaves alone, and where it leads.
RunesFrames ==
  /\ UNCHANGED <<height, utxos, nextTxid, first>>
  /\ pc \notin {"idle", "block"}
  /\ FinishTransaction \/ (pc' \notin {"idle", "block"} /\ tx' = tx)
  /\ (\E o \in pending : TakeInput(o)) \/ pending' = pending
  /\ StoreOutput \/ (\E o \in pending : TakeInput(o)) \/ balances' = balances
  /\ pc' = "inputs" => \E o \in pending : TakeInput(o)
  /\ pc' = "mint" => CreateOutpoints \/ MoveOutpoints
  /\ pc' = "edicts" => Mint \/ NoMint \/ ApplyEdict
  /\ pc' = "burn" => AllocateRest \/ BurnRest \/ BurnOutput
  /\ pc' = "convert" => DetectConversion
  /\ pc' = "return" => ConvertExactInput \/ ConvertExactOutput \/ RefuseConversion
  /\ pc' = "store" => DetectConversion \/ ReturnInput \/ StoreOutput
  /\ pc' = "block" => FinishTransaction

\* Every step of the rune updater keeps its frames.
LEMMA RunesStep ==
  ASSUME IndexRunes
  PROVE  RunesFrames
<1> USE DEF RunesFrames
<1>1. CASE \E o \in pending : TakeInput(o)
  BY <1>1 DEF TakeInput, chain
<1>2. CASE CreateOutpoints \/ MoveOutpoints
  BY <1>2 DEF CreateOutpoints, MoveOutpoints, chain
<1>3. CASE Mint \/ NoMint
  BY <1>3 DEF Mint, NoMint, chain, tables
<1>4. CASE ApplyEdict \/ OverflowEdict
  BY <1>4 DEF ApplyEdict, OverflowEdict, chain, tables
<1>5. CASE AllocateRest \/ BurnRest
  BY <1>5 DEF AllocateRest, BurnRest, AfterEdicts, chain, tables
<1>6. CASE BurnOutput
  BY <1>6 DEF BurnOutput, chain, tables
<1>7. CASE DetectConversion
  BY <1>7 DEF DetectConversion, chain, tables
<1>8. CASE ConvertExactInput \/ ConvertExactOutput
  BY <1>8 DEF ConvertExactInput, ConvertExactOutput, chain
<1>9. CASE RefuseConversion
  BY <1>9 DEF RefuseConversion, chain, tables
<1>10. CASE ReturnInput
  BY <1>10 DEF ReturnInput, chain, tables
<1>11. CASE StoreOutput
  BY <1>11 DEF StoreOutput, chain
<1>12. CASE FinishTransaction
  BY <1>12 DEF FinishTransaction, chain, tables
<1> QED
  BY <1>1, <1>2, <1>3, <1>4, <1>5, <1>6, <1>7, <1>8, <1>9, <1>10, <1>11, <1>12 DEF IndexRunes

(***************************************************************************)
(* What index_runes has in hand: nothing between transactions, nothing     *)
(* given out or burned before the edicts, and nothing unallocated after    *)
(* them; a rune without an entry in unallocated has none.                  *)
(***************************************************************************)
HandsFresh ==
  /\ pc \in {"idle", "block", "inputs", "mint"} =>
       /\ converted = Zero /\ txBurned = Zero
       /\ lastId = NoRune /\ inputId = NoRune /\ cursor = 1
  /\ pc \in {"inputs", "mint"} =>
       \A v \in Vouts : allocated[v] = Zero /\ allocatedConversion[v] = Zero
HandsEntered ==
  /\ pc \in {"inputs", "mint", "edicts"} => \A r \in Rune \ entered : unallocated[r] = 0
  /\ pc \in {"idle", "block", "burn", "convert", "return", "store"} =>
       unallocated = Zero /\ entered = {}
  /\ pc # "inputs" => pending = {}
PotSettled == pc = "idle" => burned = Zero
HandsRight == HandsFresh /\ HandsEntered /\ PotSettled

\* The hands rest with the index.
LEMMA HandsKept ==
  ASSUME HandsRight, UNCHANGED vars
  PROVE  HandsRight'
  BY DEF HandsRight, HandsFresh, HandsEntered, PotSettled, vars, allocation, conversion, Vouts

\* The start and the end of a block hold nothing in hand.
LEMMA BlocksKeepHands ==
  ASSUME HandsRight, BeginBlock \/ EndBlock
  PROVE  HandsRight'
<1>1. CASE BeginBlock
  BY <1>1 DEF BeginBlock, HandsRight, HandsFresh, HandsEntered, PotSettled, allocation, conversion
<1>2. CASE EndBlock
  BY <1>2 DEF EndBlock, UpdateBurned, HandsRight, HandsFresh, HandsEntered, PotSettled, allocation, conversion
<1> QED BY <1>1, <1>2

\* What the inputs of a transaction carry is in hand once it is taken.
LEMMA TakeKeepsHands ==
  ASSUME NodeInvariant, Updater, OrderType, HandsRight, IndexTake
  PROVE  HandsRight'
<1>1. /\ pc = "block" /\ pc' = "inputs" /\ Len(tx'.outputs) = Len(txs[Head(block)].template.outputs)
      /\ Take(Head(block), txs[Head(block)].template, SpentNow)
  BY TakeFacts DEF Updater, UpdaterInvariant
<1>2. /\ allocated' = [v \in Vouts' |-> Zero] /\ allocatedConversion' = [v \in Vouts' |-> Zero]
  BY <1>1 DEF Take, Vouts
<1>3. cursor' = 1 /\ UNCHANGED <<unallocated, entered, converted, txBurned, lastId, inputId>>
  BY <1>1 DEF Take
<1> QED BY <1>1, <1>2, <1>3 DEF HandsRight, HandsFresh, HandsEntered, PotSettled, Zero

\* The steps of a transaction keep what is in hand within its bounds.
LEMMA RunesKeepHands ==
  ASSUME Updater, HandsRight, IndexRunes
  PROVE  HandsRight'
<1> USE DEF HandsRight
<1>1. RunesFrames
  BY RunesStep
<1>2. PotSettled'
  BY <1>1 DEF RunesFrames, PotSettled, FinishTransaction
<1>3. ASSUME NEW o \in pending, TakeInput(o) PROVE HandsRight'
  <2>1. pc = "inputs" /\ pc' = "inputs"
    BY <1>3 DEF TakeInput
  <2>2. HandsFresh'
    BY <1>3, <2>1 DEF TakeInput, HandsFresh, conversion, Vouts
  <2>3. HandsEntered'
    <3>1. CASE o \in DOMAIN balances
      <4>1. \A r \in Rune : unallocated[r] \in Nat /\ balances[o][r] \in Nat
        BY <3>1 DEF Updater, UpdaterInvariant, TypeOK, TablesType, TransactionType
      <4>2. /\ unallocated' = [r \in Rune |-> unallocated[r] + balances[o][r]]
            /\ entered' = entered \cup {r \in Rune : balances[o][r] > 0}
        BY <1>3, <3>1 DEF TakeInput
      <4>3. ASSUME NEW r \in Rune \ entered' PROVE unallocated'[r] = 0
        <5>1. r \notin entered /\ ~(balances[o][r] > 0)
          BY <4>2, <4>3
        <5>2. unallocated[r] = 0 /\ balances[o][r] = 0
          BY <2>1, <4>1, <5>1 DEF HandsEntered
        <5> QED BY <4>2, <5>2
      <4> QED BY <2>1, <4>3 DEF HandsEntered
    <3>2. CASE o \notin DOMAIN balances
      BY <1>3, <2>1, <3>2 DEF TakeInput, HandsEntered
    <3> QED BY <3>1, <3>2
  <2> QED BY <1>2, <2>2, <2>3
<1>4. CASE CreateOutpoints \/ MoveOutpoints
  <2>1. pc = "inputs" /\ pc' = "mint" /\ pending' = {} /\ tx' = tx /\ cursor' = cursor
        /\ UNCHANGED <<allocation, conversion>>
    BY <1>4 DEF CreateOutpoints, MoveOutpoints
  <2> QED BY <1>2, <2>1 DEF HandsFresh, HandsEntered, allocation, conversion, Vouts
<1>5. CASE Mint
  BY <1>2, <1>5 DEF Mint, HandsFresh, HandsEntered
<1>6. CASE NoMint
  BY <1>2, <1>6 DEF NoMint, HandsFresh, HandsEntered, allocation
<1>7. CASE ApplyEdict
  <2> DEFINE e == Edicts[cursor]
  <2>1. pc = "edicts" /\ pc' = "edicts" /\ cursor \in DOMAIN Edicts /\ entered' = entered
        /\ unallocated' = [unallocated EXCEPT ![e.id] = @ - Effect(e).given] /\ pending' = pending
    BY <1>7 DEF ApplyEdict
  <2>2. e \in Edict /\ EffectType(e, Effect(e), unallocated[e.id])
    BY <2>1, OutputsType, EdictEffectType DEF Updater, UpdaterInvariant, TypeOK, TransactionType
  <2> HIDE DEF e
  <2>3. \A r \in Rune : unallocated'[r] \in Nat /\ (unallocated[r] = 0 => unallocated'[r] = 0)
    <3>1. unallocated \in [Rune -> Nat] /\ e.id \in Rune
      BY <2>2 DEF Updater, UpdaterInvariant, TypeOK, TransactionType, Edict
    <3>2. Effect(e).given \in Nat /\ Effect(e).given <= unallocated[e.id]
      BY <2>2 DEF EffectType
    <3> QED BY <2>1, <3>1, <3>2
  <2> QED BY <1>2, <2>1, <2>3 DEF HandsFresh, HandsEntered
<1>8. CASE OverflowEdict
  BY <1>2, <1>8 DEF OverflowEdict, HandsFresh, HandsEntered
<1>9. CASE AllocateRest \/ BurnRest
  BY <1>2, <1>9 DEF AllocateRest, BurnRest, AfterEdicts, HandsFresh, HandsEntered
<1>10. CASE BurnOutput
  BY <1>2, <1>10 DEF BurnOutput, HandsFresh, HandsEntered
<1>11. CASE DetectConversion
  BY <1>2, <1>11 DEF DetectConversion, HandsFresh, HandsEntered, allocation
<1>12. CASE ConvertExactInput \/ ConvertExactOutput
  BY <1>2, <1>12 DEF ConvertExactInput, ConvertExactOutput, HandsFresh, HandsEntered
<1>13. CASE RefuseConversion
  BY <1>2, <1>13 DEF RefuseConversion, HandsFresh, HandsEntered, allocation
<1>14. CASE ReturnInput
  BY <1>2, <1>14 DEF ReturnInput, HandsFresh, HandsEntered
<1>15. CASE StoreOutput
  BY <1>2, <1>15 DEF StoreOutput, HandsFresh, HandsEntered
<1>16. CASE FinishTransaction
  BY <1>2, <1>16 DEF FinishTransaction, HandsFresh, HandsEntered
<1> QED
  BY <1>3, <1>4, <1>5, <1>6, <1>7, <1>8, <1>9, <1>10, <1>11, <1>12, <1>13, <1>14, <1>15, <1>16
     DEF IndexRunes

-----------------------------------------------------------------------------
(* The index: its tables and the node's transactions. *)

ScriptOf(o) == txs[o.txid].template.outputs[o.vout].script
IsUnspent(o) == \E u \in utxos : u.at = o

(***************************************************************************)
(* The transaction that is indexed is one of the node's, and its outputs   *)
(* are there to be spent.                                                  *)
(***************************************************************************)
TxRight ==
  Working =>
    /\ tx.txid \in Indexed
    /\ tx.inputs \subseteq txs[tx.txid].inputs
    /\ pending \subseteq tx.inputs
    /\ tx.outputs = txs[tx.txid].template.outputs
    /\ tx.artifact = txs[tx.txid].template.artifact
    /\ tx.rbf = txs[tx.txid].template.rbf
    /\ tx.coinbase = txs[tx.txid].template.coinbase
    /\ \A v \in Vouts : ~IsOpReturn(v) => IsUnspent([txid |-> tx.txid, vout |-> v])

\* The unspent outputs are of transactions that are indexed.
UtxosRight ==
  \A u \in utxos :
    /\ u.at.txid \in Indexed
    /\ IsOutput(u.at)
    /\ u.script = ScriptOf(u.at)
    /\ u.coinbase = txs[u.at.txid].template.coinbase
    /\ u.height <= height
    /\ pc = "idle" => u.height < height

(***************************************************************************)
(* A row of balances is of an output that is not spent yet, is not empty   *)
(* and not of a coinbase; the rows of the transaction that is indexed are  *)
(* written in order.                                                       *)
(***************************************************************************)
RowsRight ==
  \A o \in DOMAIN balances :
    /\ IsUnspent(o) \/ o \in pending
    /\ o.txid \in Indexed
    /\ ~txs[o.txid].template.coinbase
    /\ \E r \in Rune : balances[o][r] > 0
    /\ Working /\ o.txid = tx.txid => pc = "store" /\ o.vout < cursor

\* The end of a chain has its script.
EndsRight ==
  \A c \in StateChange :
    \/ lastOutpoint[c] \in {Null, Missing}
    \/ /\ lastOutpoint[c].txid \in Indexed
       /\ IsOutput(lastOutpoint[c])
       /\ ScriptOf(lastOutpoint[c]) = c

\* A coinbase has nothing to give out.
CoinbaseHands ==
  Working /\ tx.coinbase => unallocated = Zero /\ \A v \in Vouts : allocated[v] = Zero

\* What the node has not spent is there for the index, and what is spent later.
StillThere ==
  /\ \A o \in unspent : o.txid \in Indexed => IsUnspent(o)
  /\ \A n \in DOMAIN txs \ Indexed : \A o \in txs[n].inputs :
       o.txid \in Indexed => IsUnspent(o)

TablesRight == TxRight /\ UtxosRight /\ RowsRight /\ EndsRight /\ CoinbaseHands
IndexInvariant == HandsRight /\ TablesRight /\ StillThere

\* Transactions the index has taken stay as they are.
LEMMA TablesRest ==
  ASSUME TablesRight, UNCHANGED vars, Indexed' = Indexed, \A n \in Indexed : txs'[n] = txs[n]
  PROVE  TablesRight'
<1>1. UNCHANGED <<pc, height, balances, lastOutpoint, tx, pending, cursor, unallocated, allocated, utxos>>
  BY DEF vars, tables, allocation, chain
<1>2. \A o : o.txid \in Indexed => (IsOutput(o))' = IsOutput(o) /\ (ScriptOf(o))' = ScriptOf(o)
  BY DEF IsOutput, ScriptOf
<1>3. TxRight'
  BY <1>1 DEF TablesRight, TxRight, Working, IsUnspent, Vouts, IsOpReturn
<1>4. UtxosRight'
  BY <1>1, <1>2 DEF TablesRight, UtxosRight
<1>5. RowsRight'
  BY <1>1 DEF TablesRight, RowsRight, Working, IsUnspent
<1>6. EndsRight'
  BY <1>1, <1>2 DEF TablesRight, EndsRight
<1>7. CoinbaseHands'
  BY <1>1 DEF TablesRight, CoinbaseHands, Working, Vouts
<1> QED BY <1>3, <1>4, <1>5, <1>6, <1>7 DEF TablesRight

\* The start and the end of a block keep the tables in step with the chain.
LEMMA BlocksKeepTables ==
  ASSUME TypeOK, TablesRight, BeginBlock \/ EndBlock, NodeKept
  PROVE  TablesRight' /\ UNCHANGED utxos
<1>1. /\ UNCHANGED <<balances, lastOutpoint, tx, pending, cursor, utxos>>
      /\ pc \in {"idle", "block"} /\ pc' \in {"idle", "block"}
  BY DEF BeginBlock, EndBlock, chain
<1>2. UNCHANGED <<txs, Indexed>>
  BY DEF NodeKept, Indexed, Mined, Waiting
<1>3. \A u \in utxos : u.height <= height' /\ (pc' = "idle" => u.height < height')
  <2>1. \A u \in utxos : u.height \in Nat /\ height \in Nat
    BY DEF TypeOK, BlockType, Unspent
  <2>2. CASE BeginBlock
    BY <2>1, <2>2 DEF BeginBlock, TablesRight, UtxosRight
  <2>3. CASE EndBlock
    BY <2>1, <2>3 DEF EndBlock, TablesRight, UtxosRight
  <2> QED BY <2>2, <2>3
<1>4. UtxosRight'
  BY <1>1, <1>2, <1>3 DEF TablesRight, UtxosRight, IsOutput, ScriptOf
<1>5. RowsRight' /\ EndsRight'
  BY <1>1, <1>2 DEF TablesRight, RowsRight, EndsRight, Working, IsUnspent, IsOutput, ScriptOf
<1> QED BY <1>1, <1>4, <1>5 DEF TablesRight, TxRight, CoinbaseHands, Working

\* So does a transaction that is taken: its inputs leave and its outputs enter.
LEMMA TakeKeepsTables ==
  ASSUME NodeInvariant, Updater, OrderType, IndexInvariant, IndexTake
  PROVE  TablesRight' /\ StillThere'
<1> DEFINE n == Head(block)
           t == txs[n].template
           made == {[at |-> [txid |-> n, vout |-> v],
                     script |-> t.outputs[v].script, value |-> t.outputs[v].value,
                     height |-> height, coinbase |-> t.coinbase] :
                       v \in {w \in 1..Len(t.outputs) : t.outputs[w].script # "op_return"}}
<1>1. /\ n \in DOMAIN txs /\ n \in Mined /\ n \notin Indexed
      /\ Mined' = Mined /\ Indexed' = Indexed \cup {n}
      /\ Len(t.outputs) \in Nat /\ DOMAIN t.outputs = 1..Len(t.outputs)
      /\ SpentNow \subseteq utxos
      /\ tx' = [txid |-> n, inputs |-> {u.at : u \in SpentNow},
                coinbase |-> t.coinbase, rbf |-> t.rbf, outputs |-> t.outputs,
                artifact |-> t.artifact]
      /\ tx'.inputs \subseteq txs[n].inputs
      /\ pc = "block" /\ pc' = "inputs" /\ pending' = tx'.inputs
      /\ UNCHANGED <<txs, mempool, unspent, height, tables>>
  BY TakeFacts DEF Updater, UpdaterInvariant
<1>2. /\ utxos' = (utxos \ SpentNow) \cup made
      /\ allocated' = [v \in 1..Len(t.outputs) |-> Zero] /\ unallocated' = unallocated
  BY TakeFacts DEF Updater, UpdaterInvariant, Take
<1>3. /\ \A u \in made : /\ u.at.txid = n /\ u.at \in Created(txs[n], n)
                         /\ u.script = t.outputs[u.at.vout].script
                         /\ u.coinbase = t.coinbase /\ u.height = height
      /\ \A o \in Created(txs[n], n) : \E u \in made : u.at = o
  <2>1. ASSUME NEW v \in {w \in 1..Len(t.outputs) : t.outputs[w].script # "op_return"}
        PROVE  \E u \in made : u.at = [txid |-> n, vout |-> v]
    <3>1. [at |-> [txid |-> n, vout |-> v],
           script |-> t.outputs[v].script, value |-> t.outputs[v].value,
           height |-> height, coinbase |-> t.coinbase] \in made
      OBVIOUS
    <3> QED BY <3>1
  <2>2. \A o \in Created(txs[n], n) : \E u \in made : u.at = o
    BY <1>1, <2>1 DEF Created
  <2>3. ASSUME NEW u \in made
        PROVE  /\ u.at.txid = n /\ u.at \in Created(txs[n], n)
               /\ u.script = t.outputs[u.at.vout].script
               /\ u.coinbase = t.coinbase /\ u.height = height
    <3>1. PICK v \in {w \in 1..Len(t.outputs) : t.outputs[w].script # "op_return"} :
            u = [at |-> [txid |-> n, vout |-> v],
                 script |-> t.outputs[v].script, value |-> t.outputs[v].value,
                 height |-> height, coinbase |-> t.coinbase]
      OBVIOUS
    <3>2. [txid |-> n, vout |-> v] \in Created(txs[n], n)
      BY <1>1, <3>1 DEF Created
    <3> QED BY <3>1, <3>2
  <2> QED BY <2>2, <2>3
<1> HIDE DEF made
<1>4. \A u \in SpentNow : u.at \in txs[n].inputs
  BY DEF SpentNow
<1> HIDE DEF n, t
<1>5. TxRight'
  <2>1. tx'.txid = n /\ Vouts' = 1..Len(t.outputs)
    BY <1>1 DEF Vouts
  <2>2. \A v \in 1..Len(t.outputs) : t.outputs[v].script # "op_return" =>
          [txid |-> n, vout |-> v] \in Created(txs[n], n)
    BY <1>1 DEF Created, t
  <2>3. tx'.outputs = t.outputs /\ tx'.artifact = t.artifact /\ tx'.rbf = t.rbf
        /\ tx'.coinbase = t.coinbase
    BY <1>1
  <2>4. ASSUME NEW v \in Vouts', ~(tx'.outputs[v].script = "op_return")
        PROVE  \E u \in utxos' : u.at = [txid |-> tx'.txid, vout |-> v]
    BY <1>2, <1>3, <2>1, <2>2, <2>3, <2>4
  <2>5. \A v \in Vouts' : ~(IsOpReturn(v))' => (IsUnspent([txid |-> tx.txid, vout |-> v]))'
    BY <2>4 DEF IsOpReturn, IsUnspent
  <2>6. (Working => \A v \in Vouts : ~IsOpReturn(v) => IsUnspent([txid |-> tx.txid, vout |-> v]))'
    BY <2>5
  <2> QED BY <1>1, <2>1, <2>3, <2>6 DEF TxRight, t
<1>6. UtxosRight'
  <2> SUFFICES ASSUME NEW u \in utxos'
               PROVE  /\ u.at.txid \in Indexed' /\ (IsOutput(u.at))' /\ u.script = (ScriptOf(u.at))'
                      /\ u.coinbase = txs'[u.at.txid].template.coinbase
                      /\ u.height <= height'
    BY <1>1 DEF UtxosRight
  <2>1. height \in Nat
    BY DEF Updater, UpdaterInvariant, TypeOK, BlockType
  <2>2. CASE u \in utxos
    BY <1>1, <2>2 DEF IndexInvariant, TablesRight, UtxosRight, IsOutput, ScriptOf
  <2>3. CASE u \in made
    BY <1>1, <1>3, <2>1, <2>3 DEF IsOutput, ScriptOf, t
  <2> QED BY <1>2, <2>2, <2>3
<1>7. RowsRight'
  <2> SUFFICES ASSUME NEW o \in DOMAIN balances
               PROVE  /\ (IsUnspent(o))' \/ o \in pending'
                      /\ o.txid \in Indexed'
                      /\ ~txs'[o.txid].template.coinbase
                      /\ \E r \in Rune : balances'[o][r] > 0
                      /\ o.txid # tx'.txid
    BY <1>1 DEF RowsRight, tables
  <2>1. o.txid \in Indexed /\ ~txs[o.txid].template.coinbase /\ \E r \in Rune : balances[o][r] > 0
    BY DEF IndexInvariant, TablesRight, RowsRight
  <2>2. PICK u \in utxos : u.at = o
    BY <1>1 DEF IndexInvariant, TablesRight, RowsRight, HandsRight, HandsEntered, IsUnspent
  <2>3. (IsUnspent(o))' \/ o \in pending'
    BY <1>1, <1>2, <2>2 DEF IsUnspent
  <2> QED BY <1>1, <2>1, <2>3 DEF tables
<1>8. EndsRight'
  BY <1>1 DEF IndexInvariant, TablesRight, EndsRight, IsOutput, ScriptOf, tables
<1>9. CoinbaseHands'
  BY <1>1, <1>2 DEF IndexInvariant, HandsRight, HandsEntered, CoinbaseHands, Vouts
<1>10. \A o : o.txid \in Indexed /\ IsUnspent(o) /\ o \notin txs[n].inputs => (IsUnspent(o))'
  BY <1>2, <1>4 DEF IsUnspent
<1>11. \A o : o.txid = n /\ IsOutput(o) => (IsUnspent(o))'
  BY <1>2, <1>3 DEF IsOutput, IsUnspent
<1>12. StillThere'
  <2>1. ASSUME NEW o \in unspent, o.txid \in Indexed' PROVE (IsUnspent(o))'
    <3>1. o \notin txs[n].inputs /\ IsOutput(o)
      BY <1>1, <2>1 DEF NodeInvariant, SpentGone, UnspentMined
    <3>2. o.txid \in Indexed \/ o.txid = n
      BY <1>1, <2>1
    <3>3. o.txid \in Indexed => IsUnspent(o)
      BY <2>1 DEF IndexInvariant, StillThere
    <3> QED BY <1>10, <1>11, <3>1, <3>2, <3>3
  <2>2. ASSUME NEW k \in DOMAIN txs \ Indexed', NEW o \in txs[k].inputs, o.txid \in Indexed'
        PROVE  (IsUnspent(o))'
    <3>1. k \in DOMAIN txs \ Indexed /\ k # n
      BY <1>1, <2>2
    <3>2. o \notin txs[n].inputs /\ IsOutput(o)
      BY <1>1, <2>2, <3>1 DEF NodeInvariant, OneSpender, InputsMined
    <3>3. o.txid \in Indexed \/ o.txid = n
      BY <1>1, <2>2
    <3>4. o.txid \in Indexed => IsUnspent(o)
      BY <2>2, <3>1 DEF IndexInvariant, StillThere
    <3> QED BY <1>10, <1>11, <3>2, <3>3, <3>4
  <2> QED BY <1>1, <2>1, <2>2 DEF StillThere
<1> QED BY <1>5, <1>6, <1>7, <1>8, <1>9, <1>12 DEF TablesRight

\* The first output of a chain's script is an output of the transaction.
LEMMA FirstOutpointRight ==
  ASSUME NodeInvariant, TypeOK, TxRight, Working, NEW c \in StateChange, FirstOutpoint(c) # Null
  PROVE  /\ FirstOutpoint(c).txid \in Indexed
         /\ IsOutput(FirstOutpoint(c))
         /\ ScriptOf(FirstOutpoint(c)) = c
<1> DEFINE v == Min(ChainOutputs(c))
<1>1. tx \in Tx
  BY DEF TypeOK, TransactionType
<1>2. ChainOutputs(c) # {} /\ FirstOutpoint(c) = [txid |-> tx.txid, vout |-> v]
  BY DEF FirstOutpoint
<1>3. v \in ChainOutputs(c)
  BY <1>1, <1>2, FirstOutpointType
<1>4. v \in 1..Len(tx.outputs) /\ tx.outputs[v].script = c
  BY <1>3 DEF ChainOutputs, Vouts
<1>5. tx.txid \in Indexed /\ tx.outputs = txs[tx.txid].template.outputs /\ tx.txid \in DOMAIN txs
  BY DEF TxRight, Indexed, Mined
<1>6. v \in DOMAIN txs[tx.txid].template.outputs
  BY <1>4, <1>5, TransactionFacts DEF NodeInvariant, NodeTypes
<1> HIDE DEF v
<1>7. c # "op_return"
  BY DEF StateChange
<1> QED BY <1>2, <1>4, <1>5, <1>6, <1>7 DEF IsOutput, ScriptOf, Created

\* The steps of index_runes move the ends of the chains to such outputs.
LEMMA RunesKeepEnds ==
  ASSUME NodeInvariant, TypeOK, TablesRight, NodeKept, IndexRunes
  PROVE  EndsRight'
<1>1. UNCHANGED <<txs, Indexed>>
  BY DEF NodeKept, Indexed, Mined, Waiting
<1>2. \A o : (IsOutput(o))' = IsOutput(o) /\ (ScriptOf(o))' = ScriptOf(o)
  BY <1>1 DEF IsOutput, ScriptOf
<1>3. \A c \in StateChange :
        \/ lastOutpoint'[c] = lastOutpoint[c]
        \/ lastOutpoint'[c] = Null
        \/ pc \notin {"idle", "block"} /\ lastOutpoint'[c] = FirstOutpoint(c)
  <2>1. lastOutpoint \in [StateChange -> Outpoint]
    BY DEF TypeOK, TablesType
  <2>2. CASE CreateOutpoints
    BY <2>2 DEF CreateOutpoints
  <2>3. CASE MoveOutpoints
    BY <2>3 DEF MoveOutpoints
  <2>4. CASE Mint
    BY <2>1, <2>4 DEF Mint
  <2>5. CASE ConvertExactInput \/ ConvertExactOutput
    BY <2>1, <2>5 DEF ConvertExactInput, ConvertExactOutput, ConnectConversion
  <2>6. CASE (\E o \in pending : TakeInput(o)) \/ NoMint \/ ApplyEdict \/ OverflowEdict
              \/ AllocateRest \/ BurnRest \/ BurnOutput
    BY <2>6 DEF TakeInput, NoMint, ApplyEdict, OverflowEdict, AllocateRest, BurnRest, AfterEdicts,
                BurnOutput, tables
  <2>7. CASE DetectConversion \/ RefuseConversion \/ ReturnInput \/ StoreOutput \/ FinishTransaction
    BY <2>7 DEF DetectConversion, RefuseConversion, ReturnInput, StoreOutput, FinishTransaction, tables
  <2> QED BY <2>2, <2>3, <2>4, <2>5, <2>6, <2>7 DEF IndexRunes
<1>4. \A c \in StateChange :
        pc \notin {"idle", "block"} /\ FirstOutpoint(c) # Null =>
          /\ FirstOutpoint(c).txid \in Indexed
          /\ IsOutput(FirstOutpoint(c)) /\ ScriptOf(FirstOutpoint(c)) = c
  BY FirstOutpointRight DEF TablesRight, Working
<1>5. ASSUME NEW c \in StateChange
      PROVE  \/ lastOutpoint'[c] \in {Null, Missing}
             \/ /\ lastOutpoint'[c].txid \in Indexed'
                /\ (IsOutput(lastOutpoint[c]))'
                /\ (ScriptOf(lastOutpoint[c]) = c)'
  <2>1. PICK o : o = lastOutpoint'[c]
    OBVIOUS
  <2>2. \/ o \in {Null, Missing}
        \/ o.txid \in Indexed /\ IsOutput(o) /\ ScriptOf(o) = c
    BY <1>3, <1>4, <2>1 DEF TablesRight, EndsRight
  <2>3. (IsOutput(o))' = (IsOutput(lastOutpoint[c]))' /\ (ScriptOf(o))' = (ScriptOf(lastOutpoint[c]))'
    BY <2>1 DEF IsOutput, ScriptOf
  <2> QED BY <1>1, <1>2, <2>1, <2>2, <2>3
<1> QED BY <1>5 DEF EndsRight

\* A coinbase gives out nothing.
LEMMA CoinbaseStays ==
  ASSUME NodeInvariant, Updater, IndexInvariant, IndexRunes
  PROVE  CoinbaseHands'
<1>1. CASE FinishTransaction
  BY <1>1 DEF FinishTransaction, CoinbaseHands, Working
<1>2. CASE ~FinishTransaction
  <2>1. pc \notin {"idle", "block"} /\ tx' = tx
    BY <1>2, RunesStep DEF RunesFrames
  <2> SUFFICES ASSUME tx.coinbase PROVE unallocated' = Zero /\ \A v \in Vouts : allocated'[v] = Zero
    BY <2>1 DEF CoinbaseHands, Vouts
  <2>2. unallocated = Zero /\ (\A v \in Vouts : allocated[v] = Zero) /\ Working
    BY <2>1 DEF IndexInvariant, TablesRight, CoinbaseHands, Working
  <2>3. tx.inputs = {} /\ tx.artifact = NoArtifact /\ pending = {}
    BY <2>2 DEF IndexInvariant, TablesRight, TxRight, NodeInvariant, CoinbaseEmpty, Indexed, Mined
  <2>4. Edicts = << >>
    BY <2>3 DEF Edicts, NoArtifact
  <2>5. DOMAIN Edicts = {} /\ ~MayMint
    BY <2>3, <2>4 DEF MayMint, NoArtifact
  <2>6. lastId = NoRune /\ inputId = NoRune /\ pc \notin {"convert", "return"}
    BY <2>4 DEF Updater, LocalsFit
  <2>7. CASE CreateOutpoints \/ MoveOutpoints
    BY <2>2, <2>7 DEF CreateOutpoints, MoveOutpoints, allocation
  <2>8. CASE NoMint
    BY <2>2, <2>8 DEF NoMint, allocation
  <2>9. CASE AllocateRest \/ BurnRest
    BY <2>2, <2>9 DEF AllocateRest, BurnRest, AfterEdicts, Zero
  <2>10. CASE BurnOutput
    <3>1. allocated \in [Vouts -> [Rune -> Nat]] /\ cursor \in Vouts
      BY <2>10 DEF BurnOutput, Updater, UpdaterInvariant, TypeOK, TransactionType
    <3>2. unallocated' = unallocated /\ (allocated' = allocated \/ allocated' = [allocated EXCEPT ![cursor] = Zero])
      BY <2>10 DEF BurnOutput
    <3> QED BY <2>2, <3>1, <3>2
  <2>11. CASE DetectConversion
    BY <2>2, <2>11 DEF DetectConversion, allocation
  <2>12. CASE StoreOutput
    <3>1. allocated \in [Vouts -> [Rune -> Nat]] /\ cursor \in Vouts
      BY <2>12 DEF StoreOutput, Updater, UpdaterInvariant, TypeOK, TransactionType
    <3>2. unallocated' = unallocated /\ allocated' = [allocated EXCEPT ![cursor] = Zero]
      BY <2>12 DEF StoreOutput
    <3> QED BY <2>2, <3>1, <3>2
  <2>13. /\ ~(\E o \in pending : TakeInput(o)) /\ ~Mint /\ ~ApplyEdict /\ ~OverflowEdict
         /\ ~ConvertExactInput /\ ~ConvertExactOutput /\ ~RefuseConversion /\ ~ReturnInput
    BY <2>3, <2>5, <2>6 DEF Mint, ApplyEdict, OverflowEdict, ConvertExactInput, ConvertExactOutput,
                            RefuseConversion, ReturnInput
  <2> QED BY <1>2, <2>7, <2>8, <2>9, <2>10, <2>11, <2>12, <2>13 DEF IndexRunes
<1> QED BY <1>1, <1>2

\* A row is removed when its input is taken, and written at an unspent output.
LEMMA RunesKeepRows ==
  ASSUME NodeInvariant, Updater, IndexInvariant, NodeKept, IndexRunes
  PROVE  RowsRight'
<1>1. UNCHANGED <<txs, Indexed>>
  BY DEF NodeKept, Indexed, Mined, Waiting
<1>2. utxos' = utxos /\ pc \notin {"idle", "block"} /\ Working
      /\ (FinishTransaction \/ (pc' \notin {"idle", "block"} /\ tx' = tx))
  BY RunesStep DEF RunesFrames, Working
<1>3. \A o : (IsUnspent(o))' = IsUnspent(o)
  BY <1>2 DEF IsUnspent
<1>4. RowsRight
  BY DEF IndexInvariant, TablesRight
<1>5. CASE \E o \in pending : TakeInput(o)
  <2>1. PICK p \in pending : TakeInput(p)
    BY <1>5
  <2>2. pending' = pending \ {p} /\ tx' = tx /\ pc' = pc /\ cursor' = cursor
        /\ (p \notin DOMAIN balances => balances' = balances)
        /\ (p \in DOMAIN balances => balances' = [o \in DOMAIN balances \ {p} |-> balances[o]])
    BY <2>1 DEF TakeInput, WithoutRow
  <2>3. /\ p \notin DOMAIN balances' /\ DOMAIN balances' \subseteq DOMAIN balances
        /\ \A o \in DOMAIN balances' : balances'[o] = balances[o]
    BY <2>2
  <2> QED BY <1>1, <1>2, <1>3, <1>4, <2>2, <2>3 DEF RowsRight, Working
<1>6. CASE StoreOutput
  <2> DEFINE new == [txid |-> tx.txid, vout |-> cursor]
  <2>1. /\ pc = "store" /\ pc' = "store" /\ tx' = tx /\ pending' = pending /\ cursor' = cursor + 1
        /\ cursor \in Vouts /\ cursor \in Nat
        /\ balances' = [o \in DOMAIN balances \cup (IF Stored(cursor) THEN {new} ELSE {}) |->
                          IF Stored(cursor) /\ o = new THEN allocated[cursor] ELSE balances[o]]
    BY <1>6 DEF StoreOutput, Updater, UpdaterInvariant, TypeOK, TransactionType
  <2>2. allocated[cursor] \in [Rune -> Nat]
    BY <2>1 DEF Updater, UpdaterInvariant, TypeOK, TransactionType
  <2>3. Stored(cursor) =>
          /\ IsUnspent(new) /\ new.txid \in Indexed /\ ~txs[new.txid].template.coinbase
          /\ \E r \in Rune : allocated[cursor][r] > 0
    <3> SUFFICES ASSUME Stored(cursor)
                 PROVE  /\ IsUnspent(new) /\ new.txid \in Indexed /\ ~txs[new.txid].template.coinbase
                        /\ \E r \in Rune : allocated[cursor][r] > 0
      OBVIOUS
    <3>1. ~IsOpReturn(cursor) /\ allocated[cursor] # Zero
      BY DEF Stored
    <3>2. IsUnspent(new) /\ new.txid \in Indexed /\ tx.coinbase = txs[new.txid].template.coinbase
      BY <1>2, <2>1, <3>1 DEF IndexInvariant, TablesRight, TxRight
    <3>3. ~tx.coinbase
      BY <1>2, <2>1, <3>1 DEF IndexInvariant, TablesRight, CoinbaseHands
    <3>4. \E r \in Rune : allocated[cursor][r] > 0
      <4>1. ASSUME \A r \in Rune : ~(allocated[cursor][r] > 0) PROVE allocated[cursor] = Zero
        BY <2>2, <4>1 DEF Zero
      <4> QED BY <3>1, <4>1
    <3> QED BY <3>2, <3>3, <3>4
  <2> SUFFICES ASSUME NEW o \in DOMAIN balances'
               PROVE  /\ (IsUnspent(o))' \/ o \in pending'
                      /\ o.txid \in Indexed'
                      /\ ~txs'[o.txid].template.coinbase
                      /\ \E r \in Rune : balances'[o][r] > 0
                      /\ o.txid = tx.txid => o.vout < cursor'
    BY <2>1 DEF RowsRight
  <2>4. CASE Stored(cursor) /\ o = new
    <3>1. balances'[o] = allocated[cursor] /\ o.txid = tx.txid /\ o.vout < cursor'
      BY <2>1, <2>4
    <3> QED BY <1>1, <1>3, <2>1, <2>3, <2>4, <3>1
  <2>5. CASE ~(Stored(cursor) /\ o = new)
    <3>1. o \in DOMAIN balances /\ balances'[o] = balances[o]
      BY <2>1, <2>5
    <3>2. o \in Outpoint
      BY <3>1 DEF Updater, UpdaterInvariant, TypeOK, TablesType
    <3>3. o.vout < cursor => o.vout < cursor + 1
      BY <2>1, <3>2 DEF Outpoint
    <3>4. /\ IsUnspent(o) \/ o \in pending
          /\ o.txid \in Indexed
          /\ ~txs[o.txid].template.coinbase
          /\ \E r \in Rune : balances[o][r] > 0
          /\ Working /\ o.txid = tx.txid => pc = "store" /\ o.vout < cursor
      BY <1>4, <3>1 DEF RowsRight
    <3> QED BY <1>1, <1>2, <1>3, <2>1, <3>1, <3>3, <3>4
  <2> QED BY <2>4, <2>5
<1>7. CASE ~StoreOutput /\ ~(\E o \in pending : TakeInput(o))
  <2>1. balances' = balances /\ pending' = pending
    BY <1>7, RunesStep DEF RunesFrames
  <2>2. CASE FinishTransaction
    <3>1. pc' = "block"
      BY <2>2 DEF FinishTransaction
    <3> QED BY <1>1, <1>3, <1>4, <2>1, <3>1 DEF RowsRight, Working
  <2>3. CASE pc = "store" /\ ~FinishTransaction
    BY <1>7, <2>3 DEF IndexRunes, TakeInput, CreateOutpoints, MoveOutpoints, Mint, NoMint, ApplyEdict,
       OverflowEdict, AllocateRest, BurnRest, AfterEdicts, BurnOutput, DetectConversion,
       ConvertExactInput, ConvertExactOutput, RefuseConversion, ReturnInput
  <2>4. CASE pc # "store" /\ ~FinishTransaction
    <3>1. \A o \in DOMAIN balances : o.txid # tx.txid
      BY <1>2, <1>4, <2>4 DEF RowsRight
    <3> QED BY <1>1, <1>2, <1>3, <1>4, <2>1, <2>4, <3>1 DEF RowsRight
  <2> QED BY <2>2, <2>3, <2>4
<1> QED BY <1>5, <1>6, <1>7

\* So do the steps that give its runes to its outputs.
LEMMA RunesKeepTables ==
  ASSUME NodeInvariant, Updater, IndexInvariant, NodeKept, IndexRunes
  PROVE  TablesRight' /\ StillThere'
<1>1. UNCHANGED <<txs, unspent, Mined, Waiting, Indexed>>
  BY DEF NodeKept, Indexed, Mined, Waiting
<1>2. /\ UNCHANGED <<utxos, height>>
      /\ pc \notin {"idle", "block"} /\ pc' # "idle"
      /\ FinishTransaction \/ tx' = tx
      /\ (\E o \in pending : TakeInput(o)) \/ pending' = pending
  BY RunesStep DEF RunesFrames, FinishTransaction
<1>3. \A o : (IsUnspent(o))' = IsUnspent(o) /\ (IsOutput(o))' = IsOutput(o) /\ (ScriptOf(o))' = ScriptOf(o)
  BY <1>1, <1>2 DEF IsUnspent, IsOutput, ScriptOf
<1>4. StillThere'
  BY <1>1, <1>3 DEF IndexInvariant, StillThere
<1>5. UtxosRight'
  BY <1>1, <1>2, <1>3 DEF IndexInvariant, TablesRight, UtxosRight
<1>6. TxRight'
  <2>1. CASE FinishTransaction
    BY <2>1 DEF FinishTransaction, TxRight, Working
  <2>2. CASE ~FinishTransaction
    <3>1. tx' = tx /\ Working
      BY <1>2, <2>2 DEF Working
    <3>2. pending' \subseteq pending
      BY <1>2 DEF TakeInput
    <3> QED BY <1>1, <1>3, <3>1, <3>2 DEF IndexInvariant, TablesRight, TxRight, Vouts, IsOpReturn
  <2> QED BY <2>1, <2>2
<1>7. RowsRight' /\ EndsRight' /\ CoinbaseHands'
  BY RunesKeepRows, RunesKeepEnds, CoinbaseStays DEF IndexInvariant, Updater, UpdaterInvariant
<1> QED BY <1>4, <1>5, <1>6, <1>7 DEF TablesRight

\* The index when it starts.
LEMMA IndexInit == WalletInit => IndexInvariant
<1> SUFFICES ASSUME WalletInit PROVE IndexInvariant
  OBVIOUS
<1>1. Init /\ NodeInvariant
  BY NodeInit DEF WalletInit
<1>2. HandsRight
  BY <1>1 DEF Init, HandsRight, HandsFresh, HandsEntered, PotSettled
<1>3. TablesRight
  BY <1>1 DEF Init, TablesRight, TxRight, UtxosRight, RowsRight, EndsRight, CoinbaseHands, Working
<1>4. Indexed = {}
  <2>1. PICK seed \in Seeds : /\ txs = FirstBlock(seed)
                             /\ block = [n \in 1..(Len(seed) + 1) |-> n]
    BY DEF WalletInit
  <2>2. seed \in Seq(Transaction) /\ Len(seed) \in Nat
    BY SeedAssumption, LenProperties
  <2>3. txs \in Seq(Transaction) /\ Len(txs) = Len(seed) + 1
    <3>1. CoinbaseTx({1, 2}) \in Transaction
      BY CoinbaseIs
    <3>2. <<CoinbaseTx({1, 2})>> \in Seq(Transaction) /\ Len(<<CoinbaseTx({1, 2})>>) = 1
      BY <3>1
    <3> DEFINE head == <<CoinbaseTx({1, 2})>>
    <3>3. txs = head \o seed /\ head \in Seq(Transaction) /\ Len(head) = 1
      BY <2>1, <3>2 DEF FirstBlock
    <3> HIDE DEF head
    <3>4. txs \in Seq(Transaction) /\ Len(txs) = 1 + Len(seed)
      <4>1. seed \in Seq(Transaction)
        BY <2>2
      <4>2. head \o seed \in Seq(Transaction) /\ Len(head \o seed) = Len(head) + Len(seed)
        BY <3>3, <4>1, ConcatProperties
      <4> QED BY <3>3, <4>2
    <3> QED BY <2>2, <3>4
  <2>4. DOMAIN txs = 1..(Len(seed) + 1)
    BY <2>3, LenProperties
  <2>5. Waiting = DOMAIN txs
    BY <2>1, <2>4 DEF Waiting, Range
  <2> QED BY <2>5 DEF Indexed, Mined
<1>5. StillThere
  <2>1. \A o : o.txid \notin Indexed
    BY <1>4
  <2> QED BY <2>1 DEF StillThere
<1> QED BY <1>2, <1>3, <1>5 DEF IndexInvariant

\* A transaction that is sent spends what the index still has.
LEMMA SendingKeepsIndex ==
  ASSUME NodeInvariant, IndexInvariant, NEW t, Sendable(t), Sending(t),
         \/ t.mine = {} /\ order'.txid = order.txid
         \/ order.txid \notin DOMAIN txs /\ order'.txid = Len(txs) + 1
  PROVE  IndexInvariant'
<1> DEFINE m == Len(txs) + 1
<1>1. /\ NodeInvariant' /\ Mined' = Mined /\ Indexed' = Indexed
      /\ \A o \in t.inputs : o \in unspent
  BY SendingKeepsNode
<1>2. /\ txs' = Append(txs, t) /\ UNCHANGED <<vars, block, unspent>>
  BY DEF Sending, Broadcast, IndexKept
<1>3. /\ DOMAIN txs' = DOMAIN txs \cup {m} /\ m \notin DOMAIN txs
      /\ \A n \in DOMAIN txs : txs'[n] = txs[n]
      /\ txs'[m] = t
  BY <1>2, Appended DEF NodeInvariant, NodeTypes, Sendable
<1>4. \A n \in Indexed : txs'[n] = txs[n]
  BY <1>3 DEF Indexed, Mined
<1>5. TablesRight' /\ HandsRight'
  BY <1>1, <1>2, <1>4, TablesRest, HandsKept DEF IndexInvariant
<1>6. \A o : (IsUnspent(o))' = IsUnspent(o)
  BY <1>2 DEF IsUnspent, vars, chain
<1> HIDE DEF m
<1>7. StillThere'
  BY <1>1, <1>2, <1>3, <1>6 DEF IndexInvariant, StillThere
<1> QED BY <1>5, <1>7 DEF IndexInvariant

\* A new block spends what the index still has.
LEMMA MiningKeepsIndex ==
  ASSUME NodeInvariant, IndexInvariant, order'.txid = order.txid, IndexKept, NEW S, Mines(S)
  PROVE  IndexInvariant'
<1> DEFINE m == Len(txs) + 1
           t == CoinbaseTx({})
<1>1. /\ NodeInvariant' /\ Indexed' = Indexed
      /\ txs'[m] = t
      /\ DOMAIN txs' = DOMAIN txs \cup {m} /\ m \notin DOMAIN txs
      /\ \A n \in DOMAIN txs : txs'[n] = txs[n]
  BY MiningKeepsNode
<1>2. t.inputs = {}
  BY CoinbaseIs
<1> HIDE DEF t, m
<1>3. UNCHANGED vars /\ \A n \in Indexed : txs'[n] = txs[n]
  BY <1>1 DEF IndexKept, Indexed, Mined
<1>4. TablesRight' /\ HandsRight'
  BY <1>1, <1>3, TablesRest, HandsKept DEF IndexInvariant
<1>5. \A o : (IsUnspent(o))' = IsUnspent(o)
  BY <1>3 DEF IsUnspent, vars, chain
<1>6. ASSUME NEW o \in unspent', o.txid \in Indexed PROVE o \in unspent
  <2>1. unspent' = (unspent \cup UNION {Created(txs'[n], n) : n \in S \cup {m}})
                       \ (UNION {txs[n].inputs : n \in S}) /\ S \subseteq mempool
    BY DEF Mines, m
  <2>2. ASSUME NEW n \in S \cup {m} PROVE o \notin Created(txs'[n], n)
    <3>1. n \notin Indexed
      BY <1>1, <2>1 DEF Indexed, Mined
    <3> QED BY <1>6, <3>1 DEF Created
  <2> QED BY <2>1, <2>2
<1>7. StillThere'
  BY <1>1, <1>2, <1>5, <1>6 DEF IndexInvariant, StillThere
<1> QED BY <1>4, <1>7 DEF IndexInvariant

\* The index stays right where it rests.
LEMMA IndexRests ==
  ASSUME IndexInvariant, NodeKept, UNCHANGED vars
  PROVE  IndexInvariant'
<1>1. UNCHANGED <<txs, unspent, Indexed>>
  BY DEF NodeKept, Indexed, Mined, Waiting
<1>2. TablesRight' /\ HandsRight'
  BY <1>1, TablesRest, HandsKept DEF IndexInvariant
<1>3. \A o : (IsUnspent(o))' = IsUnspent(o)
  BY DEF IsUnspent, vars, chain
<1> QED BY <1>1, <1>2, <1>3 DEF IndexInvariant, StillThere

\* Following a block keeps the index in step with the chain.
LEMMA FollowingKeepsIndex ==
  ASSUME NodeInvariant, Updater, OrderType, IndexInvariant,
         IndexBegin \/ IndexTake \/ IndexStep \/ IndexEnd
  PROVE  IndexInvariant'
<1>1. CASE IndexTake
  BY <1>1, TakeKeepsTables, TakeKeepsHands DEF IndexInvariant
<1>2. CASE IndexStep
  <2>1. IndexRunes /\ NodeKept
    BY <1>2 DEF IndexStep, nodeVars, NodeKept
  <2> QED BY <2>1, RunesKeepTables, RunesKeepHands DEF IndexInvariant
<1>3. CASE IndexBegin \/ IndexEnd
  <2>1. (BeginBlock \/ EndBlock) /\ NodeKept
    BY <1>3 DEF IndexBegin, IndexEnd, nodeVars, NodeKept
  <2>2. TablesRight' /\ HandsRight' /\ UNCHANGED utxos
    BY <2>1, BlocksKeepTables, BlocksKeepHands DEF IndexInvariant, Updater, UpdaterInvariant
  <2>3. UNCHANGED <<txs, unspent, Indexed>>
    BY <2>1 DEF NodeKept, Indexed, Mined, Waiting
  <2>4. \A o : (IsUnspent(o))' = IsUnspent(o)
    BY <2>2 DEF IsUnspent
  <2> QED BY <2>2, <2>3, <2>4 DEF IndexInvariant, StillThere
<1> QED BY <1>1, <1>2, <1>3

-----------------------------------------------------------------------------
(* The command: its requests. *)

Steps == {"start", "list", "info", "count", "lock", "tighten", "ease", "end",
          "value", "build", "fund", "send", "done"}
Kind == command.kind

\* Which request may follow which.
PhaseMoves ==
  \/ phase = "start" /\ phase' = "list" /\ Synchronize
  \/ phase = "list" /\ phase' = "info" /\ ListOutputs
  \/ phase = "info" /\ phase' = "info" /\ GetOutputInfo
  \/ phase = "info" /\ phase' = "count" /\ Kind = "mint" /\ GetOutputInfo
  \/ phase = "info" /\ phase' = "lock" /\ Kind # "mint" /\ GetOutputInfo
  \/ phase = "lock" /\ phase' = "tighten" /\ Kind = "convert" /\ LockOutputs
  \/ phase = "lock" /\ phase' = "build" /\ Kind # "convert" /\ LockOutputs
  \/ phase = "count" /\ phase' = "tighten" /\ GetBlockCount
  \/ phase = "tighten" /\ phase' = "ease" /\ GetEntry(ID0, "tighten", "ease")
  \/ phase = "ease" /\ phase' = "end" /\ GetEntry(ID1, "ease", "end")
  \/ phase = "end" /\ phase' = "value" /\ GetChainEnd
  \/ phase = "value" /\ phase' = "lock" /\ Kind = "mint" /\ GetEndValue
  \/ phase = "value" /\ phase' = "build" /\ Kind # "mint" /\ GetEndValue
  \/ phase = "build" /\ phase' \in {"fund", "done"} /\ Build
  \/ phase = "fund" /\ phase' \in {"send", "done"} /\ Fund

\* A request moves the command from one phase to the next.
LEMMA CommandMoves ==
  ASSUME Command_
  PROVE  PhaseMoves
<1> USE DEF PhaseMoves, Request, Kind
<1>1. CASE Synchronize \/ ListOutputs \/ GetOutputInfo
  BY <1>1 DEF Synchronize, ListOutputs, GetOutputInfo
<1>2. CASE LockOutputs \/ GetBlockCount \/ GetChainEnd \/ GetEndValue
  BY <1>2 DEF LockOutputs, GetBlockCount, GetChainEnd, GetEndValue
<1>3. CASE GetEntries
  BY <1>3 DEF GetEntries, GetEntry
<1>4. CASE Build
  BY <1>4 DEF Build, BuildMint, BuildSend, BuildConvert, GiveUp
<1>5. CASE Fund
  BY <1>5 DEF Fund, FundWith, GiveUp
<1> QED BY <1>1, <1>2, <1>3, <1>4, <1>5 DEF Command_

\* Which request changes what.
Changes ==
  /\ Synchronize \/ command' = command
  /\ ListOutputs \/ listed' = listed
  /\ GetOutputInfo \/ known' = known
  /\ GetBlockCount \/ tip' = tip
  /\ GetEntries \/ UNCHANGED <<read, readAt>>
  /\ GetChainEnd \/ GetEndValue \/ chainEnd' = chainEnd
  /\ Build \/ Fund \/ UNCHANGED <<draft, offer>>
  /\ LockOutputs \/ locked' = locked

\* What each request changes of the locals, the locks and the order.
LEMMA CommandChanges ==
  ASSUME Command_
  PROVE  Changes
<1> USE DEF Changes, NodeUnchanged, nodeVars
<1>1. CASE Synchronize \/ ListOutputs
  BY <1>1 DEF Synchronize, ListOutputs
<1>2. CASE GetOutputInfo
  BY <1>2 DEF GetOutputInfo
<1>3. CASE LockOutputs
  BY <1>3 DEF LockOutputs, locals
<1>4. CASE GetBlockCount \/ GetChainEnd \/ GetEndValue
  BY <1>4 DEF GetBlockCount, GetChainEnd, GetEndValue
<1>5. CASE GetEntries
  BY <1>5 DEF GetEntries, GetEntry
<1>6. CASE Build \/ Fund
  BY <1>6 DEF Build, Fund
<1> QED BY <1>1, <1>2, <1>3, <1>4, <1>5, <1>6 DEF Command_

-----------------------------------------------------------------------------
(* The command: what it knows. *)

\* The requests of the kinds of commands, and the types of what they read.
CommandTypes ==
  /\ phase \in Steps
  /\ phase = "start" => command = NoCommand
  /\ phase # "start" => command \in Command
  /\ phase \in {"count", "tighten", "ease", "end", "value"} => Kind # "send"
  /\ phase = "count" => Kind = "mint"
  /\ tip \in Int /\ tip + 1 \in Nat
  /\ read \in [Rune -> Entry]
  /\ readAt \subseteq Nat
  /\ chainEnd \in [at : Outpoint, value : Nat]

\* A command mints, sends or converts, with the arguments of its kind.
LEMMA KindsOfCommands ==
  ASSUME NEW c \in Command
  PROVE  /\ c.kind \in {"mint", "send", "convert"}
         /\ c.kind = "send" => c.id \in Rune /\ c.amount \in Nat
         /\ c.kind = "convert" => /\ c.id \in Rune /\ c.input \in Nat /\ c.output \in Nat
                                  /\ c.exactInput \in BOOLEAN
  BY DEF Command

\* The requests fill the locals with values of their types.
LEMMA CommandKeepsTypes ==
  ASSUME TypeOK, CommandTypes, Command_
  PROVE  CommandTypes'
<1>1. PhaseMoves /\ Changes /\ IndexKept /\ NodeKept
  BY CommandMoves, CommandChanges, CommandKeeps
<1>2. phase' \in Steps /\ phase' # "start" /\ (phase = "start" <=> Synchronize)
  BY <1>1 DEF PhaseMoves, Steps, Synchronize, Request
<1>3. command' \in Command
  <2>1. CASE Synchronize
    BY <2>1, CommandAssumption DEF Synchronize
  <2> QED BY <1>1, <1>2, <2>1 DEF Changes, CommandTypes
<1>4. /\ phase' \in {"count", "tighten", "ease", "end", "value"} => Kind' # "send"
      /\ phase' = "count" => Kind' = "mint"
  <2>1. CASE Synchronize
    BY <2>1 DEF Synchronize, Request
  <2>2. CASE ~Synchronize
    BY <1>1, <2>2 DEF PhaseMoves, Changes, CommandTypes, Kind
  <2> QED BY <2>1, <2>2
<1>5. tip' \in Int /\ tip' + 1 \in Nat
  <2>1. CASE GetBlockCount
    <3>1. height \in Nat /\ tip' = height - 1 + (IF block = << >> THEN 0 ELSE 1)
      BY <2>1 DEF GetBlockCount, TypeOK, BlockType
    <3> QED BY <3>1
  <2> QED BY <1>1, <2>1 DEF Changes, CommandTypes
<1>6. read' \in [Rune -> Entry] /\ readAt' \subseteq Nat
  <2>1. CASE GetEntries
    <3>1. PICK r \in Rune : read' = [read EXCEPT ![r] = entries[r]] /\ readAt' = readAt \cup {height}
      BY <2>1 DEF GetEntries, GetEntry, Rune
    <3>2. entries \in [Rune -> Entry] /\ height \in Nat
      BY DEF TypeOK, TablesType, BlockType
    <3> QED BY <3>1, <3>2 DEF CommandTypes
  <2> QED BY <1>1, <2>1 DEF Changes, CommandTypes
<1>7. chainEnd' \in [at : Outpoint, value : Nat]
  <2>1. CASE GetChainEnd \/ GetEndValue
    <3>1. EndOf \in StateChange
      BY DEF EndOf, StateChange
    <3>2. lastOutpoint[EndOf] \in Outpoint /\ lastValue[EndOf] \in Nat
      BY <3>1 DEF TypeOK, TablesType
    <3> QED BY <2>1, <3>2 DEF GetChainEnd, GetEndValue, CommandTypes
  <2> QED BY <1>1, <2>1 DEF Changes, CommandTypes
<1> QED BY <1>2, <1>3, <1>4, <1>5, <1>6, <1>7 DEF CommandTypes

-----------------------------------------------------------------------------
(* The command: its transaction. *)

\* A transaction the index has done with.
Settled(n) == n \in Indexed /\ ~(Working /\ tx.txid = n)

(***************************************************************************)
(* The command sends once, at its end, and what it sent is found in the    *)
(* history until it is indexed.                                            *)
(***************************************************************************)
OrderRight ==
  /\ order.status = "none" => order = NoOrder
  /\ order.status # "none" => /\ phase = "done"
                              /\ order.txid \in DOMAIN txs /\ txs[order.txid] = draft
  /\ order.status = "indexed" => Settled(order.txid)
  /\ order.status = "sent" => ~Settled(order.txid)
DraftSendable == phase = "send" => Sendable(draft)

\* What others send.
LEMMA CrowdSendable ==
  ASSUME NodeInvariant, NEW name \in DOMAIN Crowd, CrowdSends(name)
  PROVE  \E t : /\ Sendable(t) /\ Sending(t) /\ t.mine = {}
                /\ UNCHANGED <<locked, phase, locals, order>>
<1> DEFINE t == [inputs |-> Crowd[name].inputs \cup
                       ({lastOutpoint[c] : c \in Crowd[name].ends} \ {Null, Missing}),
                 mine |-> {}, template |-> Crowd[name].template]
<1>1. /\ MempoolAccepts(t) /\ Broadcast(t) /\ IndexKept
      /\ UNCHANGED <<block, unspent, locked, phase, locals, order>>
  BY DEF CrowdSends, IndexKept, commandVars
<1>2. t.inputs \in SUBSET Outpoint
  BY <1>1 DEF MempoolAccepts, NodeInvariant, NodeTypes
<1>3. t.mine = {} /\ t.template = Crowd[name].template
      /\ t = [inputs |-> t.inputs, mine |-> {}, template |-> t.template]
  OBVIOUS
<1> HIDE DEF t
<1>4. Sendable(t)
  BY <1>2, <1>3, CrowdAssumption DEF Sendable, Transaction
<1> QED BY <1>1, <1>3, <1>4 DEF Sending

\* The kinds of steps there are, with what is sent and mined.
Happens ==
  \/ Command_
  \/ \E t : /\ Sendable(t) /\ Sending(t) /\ t.mine = {}
            /\ UNCHANGED <<locked, phase, locals, order>>
  \/ SendOwn /\ Sendable(draft) /\ order = NoOrder
  \/ SendFails
  \/ (\E S : Mines(S)) /\ IndexKept /\ UNCHANGED <<locked, phase, locals, order>>
  \/ IndexBegin \/ IndexTake \/ IndexStep \/ IndexEnd
  \/ UNCHANGED walletVars

\* Every step of the system is one of those that the proofs go through.
LEMMA WhatHappens ==
  ASSUME NodeInvariant, OrderRight, DraftSendable, [WalletNext]_walletVars
  PROVE  Happens
<1>1. CASE \E name \in DOMAIN Crowd : CrowdSends(name)
  BY <1>1, CrowdSendable DEF Happens
<1>2. CASE MineBlock
  BY <1>2, MineFacts DEF Happens, commandVars
<1>3. CASE SendOwn
  <2>1. phase = "send"
    BY <1>3 DEF SendOwn
  <2> QED BY <1>3, <2>1 DEF Happens, OrderRight, DraftSendable
<1> QED BY <1>1, <1>2, <1>3, WalletSteps DEF Happens

\* Numbers of transactions start with 1.
LEMMA NoOrderIsNone ==
  ASSUME NodeInvariant
  PROVE  /\ NoOrder.txid \notin DOMAIN txs /\ NoOrder.status = "none"
         /\ \A n \in DOMAIN txs : n \in Nat /\ n > 0
<1>1. DOMAIN txs = 1..Len(txs) /\ Len(txs) \in Nat
  BY LenProperties DEF NodeInvariant, NodeTypes
<1> QED BY <1>1 DEF NoOrder

\* Transactions are added and stay, and so does what is settled.
Growing ==
  /\ DOMAIN txs \subseteq DOMAIN txs'
  /\ \A n \in DOMAIN txs : txs'[n] = txs[n]
  /\ Indexed \subseteq Indexed'
  /\ \A n : Settled(n) => (Settled(n))'
  /\ NodeInvariant'

\* The chain, the settled transactions and the orders only grow.
LEMMA StepsGrow ==
  ASSUME NodeInvariant, TypeOK, OrderType, OrderRight, Happens
  PROVE  Growing
<1> USE DEF Growing
<1>1. \A n : Indexed \subseteq Indexed' /\ UNCHANGED vars /\ Settled(n) => (Settled(n))'
  BY DEF Settled, Working, vars
<1>2. CASE \E t : /\ Sendable(t) /\ Sending(t) /\ t.mine = {}
                  /\ UNCHANGED <<locked, phase, locals, order>>
  <2>1. PICK t : /\ Sendable(t) /\ Sending(t) /\ t.mine = {}
                 /\ UNCHANGED <<locked, phase, locals, order>>
    BY <1>2
  <2>2. NodeInvariant' /\ Indexed' = Indexed
    BY <2>1, SendingKeepsNode
  <2>3. txs' = Append(txs, t) /\ UNCHANGED vars
    BY <2>1 DEF Sending, Broadcast, IndexKept
  <2>4. /\ DOMAIN txs' = DOMAIN txs \cup {Len(txs) + 1}
        /\ \A n \in DOMAIN txs : txs'[n] = txs[n]
    BY <2>1, <2>3, Appended DEF NodeInvariant, NodeTypes, Sendable
  <2> QED BY <1>1, <2>2, <2>3, <2>4
<1>3. CASE SendOwn /\ Sendable(draft) /\ order = NoOrder
  <2>1. Sending(draft) /\ order.txid \notin DOMAIN txs /\ order'.txid = Len(txs) + 1
    BY <1>3, NoOrderIsNone DEF SendOwn, OrderType
  <2>2. NodeInvariant' /\ Indexed' = Indexed
    BY <1>3, <2>1, SendingKeepsNode
  <2>3. txs' = Append(txs, draft) /\ UNCHANGED vars
    BY <2>1 DEF Sending, Broadcast, IndexKept
  <2>4. /\ DOMAIN txs' = DOMAIN txs \cup {Len(txs) + 1}
        /\ \A n \in DOMAIN txs : txs'[n] = txs[n]
    BY <1>3, <2>3, Appended DEF NodeInvariant, NodeTypes, Sendable
  <2> QED BY <1>1, <2>2, <2>3, <2>4
<1>4. CASE (\E S : Mines(S)) /\ IndexKept /\ UNCHANGED <<locked, phase, locals, order>>
  <2>1. PICK S : Mines(S)
    BY <1>4
  <2>2. /\ NodeInvariant' /\ Indexed' = Indexed
        /\ DOMAIN txs' = DOMAIN txs \cup {Len(txs) + 1}
        /\ \A n \in DOMAIN txs : txs'[n] = txs[n]
    BY <1>4, <2>1, MiningKeepsNode
  <2> QED BY <1>1, <1>4, <2>2 DEF IndexKept
<1>5. CASE Command_ \/ SendFails \/ UNCHANGED walletVars
  <2>1. UNCHANGED <<vars, txs, mempool, block, unspent>> /\ order'.txid = order.txid
    BY <1>5, CommandKeeps DEF SendFails, IndexKept, NodeKept, walletVars, nodeVars
  <2>2. NodeInvariant'
    BY <2>1, NodeRests DEF NodeKept
  <2>3. Indexed' = Indexed
    BY <2>1 DEF Indexed, Mined, Waiting
  <2> QED BY <1>1, <2>1, <2>2, <2>3
<1>6. CASE IndexTake
  <2>1. /\ UNCHANGED txs /\ Indexed' = Indexed \cup {Head(block)} /\ tx'.txid = Head(block)
        /\ Head(block) \notin Indexed /\ pc = "block"
    BY <1>6, TakeFacts
  <2>2. \A n : Settled(n) => (Settled(n))'
    BY <2>1 DEF Settled
  <2> QED BY <1>6, <2>1, <2>2, TakeKeepsNode
<1>7. CASE IndexBegin \/ IndexStep \/ IndexEnd
  <2>1. UNCHANGED <<txs, mempool, unspent>> /\ order'.txid = order.txid
    BY <1>7, IndexKeeps
  <2>2. block' = block
    BY <1>7 DEF IndexBegin, IndexStep, IndexEnd, nodeVars
  <2>3. NodeInvariant' /\ Indexed' = Indexed
    BY <2>1, <2>2, NodeRests DEF NodeKept, Indexed, Mined, Waiting
  <2>4. ~(Working)' \/ (Working /\ tx' = tx)
    <3>1. CASE IndexBegin \/ IndexEnd
      BY <3>1 DEF IndexBegin, IndexEnd, BeginBlock, EndBlock, Working
    <3>2. CASE IndexStep
      <4>1. RunesFrames
        BY <3>2, RunesStep DEF IndexStep
      <4> QED BY <4>1 DEF RunesFrames, FinishTransaction, Working
    <3> QED BY <1>7, <3>1, <3>2
  <2>5. \A n : Settled(n) => (Settled(n))'
    BY <2>3, <2>4 DEF Settled
  <2> QED BY <2>1, <2>3, <2>5
<1> QED BY <1>2, <1>3, <1>4, <1>5, <1>6, <1>7 DEF Happens

-----------------------------------------------------------------------------
(* The command: what it knows of its outputs. *)

Spent(o) == \E n \in Indexed : o \in txs[n].inputs

\* The outputs of the wallet were all indexed when the command began.
MineSettled ==
  phase # "start" =>
    \A n \in DOMAIN txs : n # order.txid /\ txs[n].mine # {} => Settled(n)

(***************************************************************************)
(* The listed outputs are all that the wallet can spend, until it sends.   *)
(***************************************************************************)
ListedRight ==
  /\ listed \subseteq Owned
  /\ \A o \in listed : o.txid # order.txid
  /\ DOMAIN known \subseteq listed /\ IsFiniteSet(DOMAIN known)
  /\ \A o \in DOMAIN known : known[o] \in [Rune -> Nat]
  /\ phase \in {"start", "list"} => DOMAIN known = {} /\ listed = {}
  /\ phase \notin {"start", "list", "info"} => DOMAIN known = listed
  /\ phase \notin {"start", "list"} /\ order.status = "none" =>
       (Owned \cap unspent) \ SpentInMempool \subseteq listed

\* What is known of an output holds until it is spent.
KnownRight == \A o \in DOMAIN known : Spent(o) \/ known[o] = Held(o)

\* Outputs with runes are locked before the transaction is funded.
AfterLock ==
  \/ phase \in {"build", "fund", "send"}
  \/ Kind = "convert" /\ phase \in {"tighten", "ease", "end", "value"}
LockedRight == AfterLock => Runic(known) \subseteq locked

\* Of an output of the wallet.
LEMMA OwnedFacts ==
  ASSUME NodeInvariant, NEW o \in Owned
  PROVE  /\ o.txid \in DOMAIN txs /\ o.vout \in txs[o.txid].mine
         /\ IsOutput(o) /\ ScriptOf(o) = "plain" /\ o \in Outpoint
<1>1. PICK n \in DOMAIN txs : o \in Mine(n)
  BY DEF Owned
<1>2. PICK v \in txs[n].mine : o = [txid |-> n, vout |-> v]
  BY <1>1 DEF Mine
<1>3. v \in DOMAIN txs[n].template.outputs /\ txs[n].template.outputs[v].script = "plain"
  BY DEF NodeInvariant, MinePlain
<1>4. o \in Created(txs[n], n)
  BY <1>2, <1>3 DEF Created
<1>5. o \in Outpoint
  BY <1>4, TransactionFacts DEF NodeInvariant, NodeTypes
<1> QED BY <1>2, <1>3, <1>4, <1>5 DEF IsOutput, ScriptOf

\* The outputs of the wallet stay, and are no more when others send.
LEMMA OwnedGrows ==
  ASSUME Growing
  PROVE  /\ Owned \subseteq Owned'
         /\ \A o \in Owned' : o.txid \in DOMAIN txs => o \in Owned
<1>1. \A n \in DOMAIN txs : n \in DOMAIN txs' /\ Mine(n) = (Mine(n))'
  BY DEF Growing, Mine
<1>2. Owned \subseteq Owned'
  BY <1>1 DEF Owned
<1>3. ASSUME NEW o \in Owned', o.txid \in DOMAIN txs PROVE o \in Owned
  <2>1. PICK n \in DOMAIN txs' : o \in (Mine(n))'
    BY DEF Owned
  <2>2. o.txid = n
    BY <2>1 DEF Mine
  <2> QED BY <1>1, <1>3, <2>1, <2>2 DEF Owned
<1> QED BY <1>2, <1>3

\* A step of the index sends nothing.
LEMMA FollowingKeepsStatus ==
  ASSUME NodeInvariant, OrderType, OrderRight, TablesRight,
         IndexBegin \/ IndexTake \/ IndexStep \/ IndexEnd
  PROVE  order'.status = "none" <=> order.status = "none"
<1>1. CASE IndexBegin \/ IndexEnd
  BY <1>1 DEF IndexBegin, IndexEnd
<1>2. CASE IndexTake
  BY <1>2 DEF IndexTake, OrderType
<1>3. CASE IndexStep
  <2>1. Working
    BY <1>3, RunesStep DEF IndexStep, RunesFrames, Working
  <2>2. tx.txid \in DOMAIN txs
    BY <2>1 DEF TablesRight, TxRight, Indexed, Mined
  <2>3. order.status = "none" => order.txid # tx.txid
    BY <2>2, NoOrderIsNone DEF OrderRight
  <2> QED BY <1>3, <2>3 DEF IndexStep, OrderType
<1> QED BY <1>1, <1>2, <1>3

\* While a command runs, all that the wallet owns is settled but for what it
\* sends.
LEMMA MineStaysSettled ==
  ASSUME NodeInvariant, TypeOK, OrderType, OrderRight, MineSettled, CommandTypes, Happens
  PROVE  MineSettled'
<1>1. Growing
  BY StepsGrow
<1>2. CASE Command_
  <2>1. IndexKept /\ NodeKept /\ order' = order /\ PhaseMoves
    BY <1>2, CommandKeeps, CommandMoves
  <2>2. \A n : (Settled(n))' = Settled(n)
    BY <2>1 DEF Settled, Indexed, Mined, Waiting, Working, IndexKept, NodeKept, vars
  <2>3. CASE phase # "start"
    BY <2>1, <2>2, <2>3 DEF MineSettled, NodeKept
  <2>4. CASE phase = "start"
    <3>1. Synchronize
      BY <2>1, <2>4 DEF PhaseMoves
    <3>2. block = << >> /\ pc = "idle"
      BY <3>1 DEF Synchronize, Request
    <3>3. Waiting = {} /\ ~Working
      BY <3>2 DEF Waiting, Range, Working
    <3>4. \A n \in DOMAIN txs : n # order.txid /\ txs[n].mine # {} => Settled(n)
      BY <3>3 DEF NodeInvariant, MineMined, Settled, Indexed, Mined
    <3> QED BY <2>1, <2>2, <3>4 DEF MineSettled, NodeKept
  <2> QED BY <2>3, <2>4
<1>3. ASSUME phase' # "start", phase # "start",
             NEW n \in DOMAIN txs', n # order'.txid, txs'[n].mine # {}
      PROVE  (Settled(n))'
  <2>1. CASE n \in DOMAIN txs /\ n # order.txid
    BY <1>1, <1>3, <2>1 DEF MineSettled, Growing
  <2>2. CASE n \in DOMAIN txs /\ n = order.txid
    <3>1. order.txid \in DOMAIN txs /\ order.status # "none" /\ order # NoOrder
      BY <2>2, NoOrderIsNone DEF OrderRight
    <3>2. phase = "done"
      BY <3>1 DEF OrderRight
    <3>3. order'.txid = order.txid
      <4>1. ~SendOwn
        BY <3>2 DEF SendOwn
      <4>2. CASE Command_ \/ SendFails \/ UNCHANGED walletVars
        BY <4>2, CommandKeeps DEF SendFails, walletVars
      <4>3. CASE IndexBegin \/ IndexTake \/ IndexStep \/ IndexEnd
        BY <4>3, IndexKeeps
      <4> QED BY <4>1, <4>2, <4>3 DEF Happens
    <3> QED BY <1>3, <2>2, <3>3
  <2>3. CASE n \notin DOMAIN txs
    <3>1. CASE \E t : Sendable(t) /\ Sending(t) /\ t.mine = {}
      <4>1. PICK t : Sendable(t) /\ Sending(t) /\ t.mine = {}
        BY <3>1
      <4>2. DOMAIN txs' = DOMAIN txs \cup {Len(txs) + 1} /\ txs'[Len(txs) + 1] = t
        BY <4>1, Appended DEF NodeInvariant, NodeTypes, Sendable, Sending, Broadcast
      <4> QED BY <1>3, <2>3, <4>1, <4>2
    <3>2. CASE SendOwn /\ Sendable(draft) /\ order = NoOrder
      <4>1. DOMAIN txs' = DOMAIN txs \cup {Len(txs) + 1} /\ order'.txid = Len(txs) + 1
        BY <3>2, Appended DEF NodeInvariant, NodeTypes, Sendable, Sending, Broadcast, SendOwn, OrderType
      <4> QED BY <1>3, <2>3, <4>1
    <3>3. CASE \E S : Mines(S)
      <4>1. DOMAIN txs' = DOMAIN txs \cup {Len(txs) + 1} /\ txs'[Len(txs) + 1] = CoinbaseTx({})
        <5>1. PICK S : Mines(S)
          BY <3>3
        <5>2. txs' = Append(txs, CoinbaseTx({})) /\ CoinbaseTx({}) \in Transaction
          BY <5>1, CoinbaseIs DEF Mines
        <5> QED BY <5>2, Appended DEF NodeInvariant, NodeTypes
      <4>2. txs'[n].mine = {}
        BY <2>3, <4>1, CoinbaseIs
      <4> QED BY <1>3, <4>2
    <3>4. CASE Command_ \/ SendFails \/ UNCHANGED walletVars
      BY <2>3, <3>4, CommandKeeps DEF SendFails, NodeKept, walletVars, nodeVars
    <3>5. CASE IndexBegin \/ IndexTake \/ IndexStep \/ IndexEnd
      BY <2>3, <3>5, IndexKeeps
    <3> QED BY <3>1, <3>2, <3>3, <3>4, <3>5 DEF Happens
  <2> QED BY <2>1, <2>2, <2>3
<1>4. ~Command_ /\ phase = "start" => phase' = "start"
  <2>1. IndexBegin \/ IndexTake \/ IndexStep \/ IndexEnd => phase' = phase
    BY IndexKeeps
  <2>2. SendOwn \/ SendFails => phase = "send"
    BY DEF SendOwn, SendFails
  <2> QED BY <2>1, <2>2 DEF Happens, walletVars, commandVars
<1> QED BY <1>2, <1>3, <1>4 DEF MineSettled

\* Steps that are no request of the command.
Elsewhere ==
  ~Command_ => /\ UNCHANGED <<locals, locked>>
               /\ phase' = phase \/ (phase = "send" /\ phase' = "done")

\* But for the requests of the command, no step changes its locals.
LEMMA LocalsElsewhere ==
  ASSUME Happens
  PROVE  Elsewhere /\ (SendOwn \/ Command_ \/ order' = order \/ IndexTake \/ IndexStep)
<1>1. CASE IndexBegin \/ IndexTake \/ IndexStep \/ IndexEnd
  <2>1. UNCHANGED <<commandVars, locked>> /\ (order' = order \/ IndexTake \/ IndexStep)
    BY <1>1 DEF IndexBegin, IndexTake, IndexStep, IndexEnd, nodeVars
  <2>2. UNCHANGED <<phase, locals>>
    BY <2>1 DEF commandVars
  <2> QED BY <2>1, <2>2 DEF Elsewhere
<1>2. CASE SendOwn \/ SendFails
  BY <1>2 DEF SendOwn, SendFails, Elsewhere
<1>3. CASE UNCHANGED walletVars
  BY <1>3 DEF walletVars, commandVars, nodeVars, Elsewhere
<1> QED BY <1>1, <1>2, <1>3 DEF Happens, Elsewhere

\* The balances of an output.
LEMMA HeldType ==
  ASSUME TypeOK, NEW o
  PROVE  Held(o) \in [Rune -> Nat]
  BY ZeroType DEF Held, TypeOK, TablesType

\* The outputs that were listed stay outputs of settled transactions.
LEMMA ListedStays ==
  ASSUME NodeInvariant, TypeOK, TablesRight, OrderType, OrderRight, MineSettled, ListedRight, Happens
  PROVE  ListedRight'
<1>1. Growing
  BY StepsGrow
<1>2. /\ Owned \subseteq Owned' /\ \A o \in Owned' : o.txid \in DOMAIN txs => o \in Owned
  BY <1>1, OwnedGrows
<1>3. \A o \in Owned : o.txid \in DOMAIN txs
  BY OwnedFacts
<1>4. CASE Command_
  <2>1. PhaseMoves /\ Changes /\ NodeKept /\ order' = order
    BY <1>4, CommandMoves, CommandChanges, CommandKeeps
  <2>2. /\ Owned' = Owned /\ unspent' = unspent /\ SpentInMempool' = SpentInMempool
    BY <2>1 DEF NodeKept, Owned, Mine, SpentInMempool
  <2>3. order.status = "none"
    BY <2>1 DEF PhaseMoves, OrderRight
  <2>4. \A o \in Owned : o.txid # order.txid
    BY <1>3, <2>3, NoOrderIsNone DEF OrderRight
  <2>5. CASE ListOutputs
    <3>1. phase = "list" /\ phase' = "info" /\ listed' = (Owned \cap unspent) \ SpentInMempool /\ known' = known
      BY <2>5 DEF ListOutputs, Request
    <3>2. DOMAIN known = {}
      BY <3>1 DEF ListedRight
    <3>3. IsFiniteSet(DOMAIN known)
      BY DEF ListedRight
    <3> QED BY <2>1, <2>2, <2>4, <3>1, <3>2, <3>3 DEF ListedRight
  <2>6. CASE GetOutputInfo
    <3>1. PICK o \in listed \ DOMAIN known :
            /\ Request("info", IF (listed \ DOMAIN known) # {o} THEN "info"
                               ELSE IF command.kind = "mint" THEN "count" ELSE "lock")
            /\ known' = [p \in DOMAIN known \cup {o} |-> IF p = o THEN Held(o) ELSE known[p]]
            /\ UNCHANGED <<listed, order>>
      BY <2>6, <2>1 DEF GetOutputInfo
    <3>2. phase = "info" /\ phase' \in {"info", "count", "lock"}
          /\ (phase' # "info" => listed \ DOMAIN known = {o})
      BY <3>1 DEF Request
    <3>3. DOMAIN known' = DOMAIN known \cup {o}
      BY <3>1
    <3>4. IsFiniteSet(DOMAIN known')
      BY <3>3, FS_AddElement DEF ListedRight
    <3>5. \A p \in DOMAIN known' : known'[p] \in [Rune -> Nat]
      BY <3>1, <3>3, HeldType DEF ListedRight
    <3>6. DOMAIN known' \subseteq listed' /\ (phase' # "info" => DOMAIN known' = listed')
      BY <3>1, <3>2, <3>3 DEF ListedRight
    <3> QED BY <2>1, <2>2, <3>1, <3>2, <3>4, <3>5, <3>6 DEF ListedRight
  <2>7. CASE ~ListOutputs /\ ~GetOutputInfo
    <3>1. listed' = listed /\ known' = known
          /\ phase' # "start" /\ (phase' = "list" => phase = "start")
          /\ (phase' # "list" => phase \notin {"start", "list", "info"} /\ phase' # "info")
      BY <2>1, <2>7 DEF PhaseMoves, Changes
    <3> QED BY <2>1, <2>2, <3>1 DEF ListedRight
  <2> QED BY <2>5, <2>6, <2>7
<1>5. CASE ~Command_
  <2>1. UNCHANGED <<listed, known>> /\ (phase' = phase \/ (phase = "send" /\ phase' = "done"))
    BY <1>5, LocalsElsewhere DEF Elsewhere, locals
  <2>2. \A o \in listed : o.txid # order'.txid
    <3>1. CASE SendOwn
      <4>1. order'.txid = Len(txs) + 1 /\ Len(txs) + 1 \notin DOMAIN txs
        BY <3>1, LenProperties DEF SendOwn, OrderType, NodeInvariant, NodeTypes
      <4> QED BY <1>3, <4>1 DEF ListedRight
    <3>2. CASE ~SendOwn
      <4>1. order'.txid = order.txid
        BY <1>5, <3>2, LocalsElsewhere, IndexKeeps
      <4> QED BY <4>1 DEF ListedRight
    <3> QED BY <3>1, <3>2
  <2>3. ASSUME phase' \notin {"start", "list"}, order'.status = "none"
        PROVE  (Owned' \cap unspent') \ SpentInMempool' \subseteq listed
    <3>1. phase \notin {"start", "list"}
      BY <2>1, <2>3
    <3>2. CASE \E t : /\ Sendable(t) /\ Sending(t) /\ t.mine = {}
                      /\ UNCHANGED <<locked, phase, locals, order>>
      <4>1. PICK t : /\ Sendable(t) /\ Sending(t) /\ t.mine = {}
                     /\ UNCHANGED <<locked, phase, locals, order>>
        BY <3>2
      <4>2. DOMAIN txs' = DOMAIN txs \cup {Len(txs) + 1} /\ txs'[Len(txs) + 1] = t
            /\ \A n \in DOMAIN txs : txs'[n] = txs[n]
        BY <4>1, Appended DEF NodeInvariant, NodeTypes, Sendable, Sending, Broadcast
      <4>3. \A o \in Owned' : o.txid \in DOMAIN txs
        BY <4>1, <4>2 DEF Owned, Mine
      <4>4. unspent' = unspent /\ mempool \subseteq mempool' /\ mempool \subseteq DOMAIN txs
        BY <4>1 DEF Sending, Broadcast, NodeInvariant, NodeTypes
      <4>5. SpentInMempool \subseteq SpentInMempool'
        BY <4>2, <4>4 DEF SpentInMempool
      <4> QED BY <1>2, <2>3, <3>1, <4>1, <4>3, <4>4, <4>5 DEF ListedRight
    <3>3. CASE (\E S : Mines(S)) /\ UNCHANGED <<locked, phase, locals, order>>
      <4>1. PICK S : Mines(S)
        BY <3>3
      <4> DEFINE m == Len(txs) + 1
      <4>2. /\ DOMAIN txs' = DOMAIN txs \cup {m} /\ txs'[m] = CoinbaseTx({}) /\ m \notin DOMAIN txs
            /\ \A n \in DOMAIN txs : txs'[n] = txs[n]
        BY <3>3, <4>1, MiningKeepsNode
      <4>3. CoinbaseTx({}).mine = {}
        BY CoinbaseIs
      <4> HIDE DEF m
      <4>4. \A o \in Owned' : o.txid \in DOMAIN txs
        BY <4>2, <4>3 DEF Owned, Mine
      <4>5. /\ S \subseteq mempool /\ mempool' = mempool \ S /\ mempool \subseteq DOMAIN txs
            /\ unspent' = (unspent \cup UNION {Created(txs'[n], n) : n \in S \cup {m}})
                       \ (UNION {txs[n].inputs : n \in S})
        BY <4>1 DEF Mines, m, NodeInvariant, NodeTypes
      <4>6. \A n \in DOMAIN txs : n # order.txid
        BY <2>3, <3>3, NoOrderIsNone DEF OrderRight
      <4> SUFFICES ASSUME NEW o \in Owned', o \in unspent', o \notin SpentInMempool'
                   PROVE  o \in listed
        OBVIOUS
      <4>7. o \in Owned /\ o.txid \in DOMAIN txs /\ o.vout \in txs[o.txid].mine
        BY <1>2, <4>4, OwnedFacts
      <4>8. o.txid \in Mined
        BY <3>1, <4>6, <4>7 DEF MineSettled, Settled, Indexed
      <4>9. \A n \in S \cup {m} : o \notin Created(txs'[n], n)
        BY <4>2, <4>5, <4>8 DEF Mined, Created
      <4>10. o \in unspent
        BY <4>5, <4>9
      <4>11. o \notin SpentInMempool
        <5> SUFFICES ASSUME NEW n \in mempool, o \in txs[n].inputs PROVE FALSE
          BY DEF SpentInMempool
        <5>1. n \notin S
          BY <4>5
        <5>2. n \in mempool' /\ o \in txs'[n].inputs
          BY <4>2, <4>5, <5>1
        <5> QED BY <5>2 DEF SpentInMempool
      <4> QED BY <2>3, <3>1, <3>3, <4>7, <4>10, <4>11 DEF ListedRight
    <3>4. CASE SendOwn
      BY <2>3, <3>4 DEF SendOwn, OrderType
    <3>5. CASE SendFails \/ UNCHANGED walletVars
      <4>1. UNCHANGED <<txs, mempool, unspent, order>>
        BY <3>5 DEF SendFails, NodeKept, walletVars, nodeVars
      <4>2. Owned' = Owned /\ SpentInMempool' = SpentInMempool
        BY <4>1 DEF Owned, Mine, SpentInMempool
      <4> QED BY <2>3, <3>1, <4>1, <4>2 DEF ListedRight
    <3>6. CASE IndexBegin \/ IndexTake \/ IndexStep \/ IndexEnd
      <4>1. UNCHANGED <<txs, mempool, unspent>> /\ order.status = "none"
        BY <2>3, <3>6, IndexKeeps, FollowingKeepsStatus
      <4>2. Owned' = Owned /\ SpentInMempool' = SpentInMempool
        BY <4>1 DEF Owned, Mine, SpentInMempool
      <4> QED BY <3>1, <4>1, <4>2 DEF ListedRight
    <3> QED BY <1>5, <3>2, <3>3, <3>4, <3>5, <3>6 DEF Happens
  <2> QED BY <1>2, <2>1, <2>2, <2>3 DEF ListedRight
<1> QED BY <1>4, <1>5

\* Rows are taken from what is spent, and written for the transaction that is indexed.
LEMMA HeldChanges ==
  ASSUME TypeOK
  PROVE  /\ \A p \in pending : TakeInput(p) => \A o : o # p => Held(o)' = Held(o)
         /\ StoreOutput => \A o : o.txid # tx.txid => Held(o)' = Held(o)
<1>1. ASSUME NEW p \in pending, TakeInput(p), NEW o, o # p
      PROVE  Held(o)' = Held(o)
  <2>1. CASE p \in DOMAIN balances
    <3>1. balances' = [q \in DOMAIN balances \ {p} |-> balances[q]]
      BY <1>1, <2>1 DEF TakeInput, WithoutRow
    <3> QED BY <1>1, <3>1 DEF Held
  <2>2. CASE p \notin DOMAIN balances
    BY <1>1, <2>2 DEF TakeInput, Held
  <2> QED BY <2>1, <2>2
<1>2. ASSUME StoreOutput, NEW o, o.txid # tx.txid
      PROVE  Held(o)' = Held(o)
  <2> DEFINE outpoint == [txid |-> tx.txid, vout |-> cursor]
  <2>1. balances' = [q \in DOMAIN balances \cup (IF Stored(cursor) THEN {outpoint} ELSE {}) |->
                       IF Stored(cursor) /\ q = outpoint THEN allocated[cursor] ELSE balances[q]]
    BY <1>2 DEF StoreOutput
  <2>2. o # outpoint
    BY <1>2
  <2> HIDE DEF outpoint
  <2>3. o \in DOMAIN balances' <=> o \in DOMAIN balances
    BY <2>1, <2>2
  <2>4. o \in DOMAIN balances => balances'[o] = balances[o]
    BY <2>1, <2>2
  <2> QED BY <2>3, <2>4 DEF Held
<1> QED BY <1>1, <1>2

\* Of a listed output.
LEMMA ListedFacts ==
  ASSUME NodeInvariant, MineSettled, ListedRight, NEW o \in listed
  PROVE  /\ o \in Owned /\ o \in Outpoint /\ o.txid \in DOMAIN txs /\ Settled(o.txid)
         /\ IsOutput(o) /\ ScriptOf(o) = "plain"
<1>1. o \in Owned /\ o.txid # order.txid /\ phase # "start"
  BY DEF ListedRight
<1>2. o.txid \in DOMAIN txs /\ txs[o.txid].mine # {}
  BY <1>1, OwnedFacts
<1>3. Settled(o.txid)
  BY <1>1, <1>2 DEF MineSettled
<1> QED BY <1>1, <1>3, OwnedFacts

\* What the wallet was told of an output is what it holds, until it is spent.
LEMMA KnownStays ==
  ASSUME NodeInvariant, TypeOK, TablesRight, OrderType, OrderRight, MineSettled, ListedRight, KnownRight, Happens
  PROVE  KnownRight'
<1>1. Growing
  BY StepsGrow
<1>2. \A o : Spent(o) => Spent(o)'
  BY <1>1 DEF Growing, Spent, Indexed, Mined
<1>3. CASE Command_
  <2>1. UNCHANGED balances /\ Changes
    BY <1>3, CommandKeeps, CommandChanges DEF IndexKept, vars, tables
  <2>2. \A o : Held(o)' = Held(o)
    BY <2>1 DEF Held
  <2>3. CASE GetOutputInfo
    <3>1. PICK o \in listed \ DOMAIN known :
            known' = [p \in DOMAIN known \cup {o} |-> IF p = o THEN Held(o) ELSE known[p]]
      BY <2>3 DEF GetOutputInfo
    <3> QED BY <1>2, <2>2, <3>1 DEF KnownRight
  <2>4. CASE ~GetOutputInfo
    BY <1>2, <2>1, <2>2, <2>4 DEF Changes, KnownRight
  <2> QED BY <2>3, <2>4
<1>4. CASE ~Command_
  <2>1. known' = known
    BY <1>4, LocalsElsewhere DEF Elsewhere, locals
  <2> SUFFICES ASSUME NEW o \in DOMAIN known, ~Spent(o)' PROVE Held(o)' = Held(o)
    BY <1>2, <2>1 DEF KnownRight
  <2>2. CASE IndexStep
    <3>1. Working /\ RunesFrames
      BY <2>2, RunesStep DEF IndexStep, RunesFrames, Working
    <3>2. CASE balances' = balances
      BY <3>2 DEF Held
    <3>3. ASSUME NEW p \in pending, TakeInput(p) PROVE Held(o)' = Held(o)
      <4>1. Spent(p)
        BY <3>1 DEF TablesRight, TxRight, Spent
      <4> QED BY <1>2, <3>3, <4>1, HeldChanges
    <3>4. CASE StoreOutput
      <4>1. Settled(o.txid)
        BY ListedFacts DEF ListedRight
      <4>2. o.txid # tx.txid
        BY <3>1, <4>1 DEF Settled
      <4> QED BY <3>4, <4>2, HeldChanges
    <3> QED BY <3>1, <3>2, <3>3, <3>4 DEF RunesFrames
  <2>3. CASE IndexTake
    <3>1. balances' = balances
      BY <2>3, TakeFacts DEF tables
    <3> QED BY <3>1 DEF Held
  <2>4. CASE ~IndexStep /\ ~IndexTake
    <3>1. balances' = balances
      BY <1>4, <2>4 DEF Happens, IndexBegin, BeginBlock, IndexEnd, EndBlock, SendOwn, SendFails, Sending,
        IndexKept, walletVars, vars, tables
    <3> QED BY <3>1 DEF Held
  <2> QED BY <2>2, <2>3, <2>4
<1> QED BY <1>3, <1>4

\* The outputs that hold runes stay locked.
LEMMA LockedStays ==
  ASSUME CommandTypes, LockedRight, Happens
  PROVE  LockedRight'
<1>1. CASE Command_
  <2>1. PhaseMoves /\ Changes
    BY <1>1, CommandMoves, CommandChanges
  <2>2. CASE LockOutputs
    BY <2>2 DEF LockOutputs, locals, LockedRight
  <2>3. CASE ~LockOutputs /\ AfterLock'
    <3>1. phase # "start" => Kind \in {"mint", "send", "convert"}
      BY KindsOfCommands DEF CommandTypes, Kind
    <3>2. ~Synchronize /\ ~GetOutputInfo
      BY <2>3 DEF AfterLock, Synchronize, GetOutputInfo, Request
    <3>3. Kind' = Kind /\ known' = known /\ locked' = locked
      BY <2>1, <2>3, <3>2 DEF Changes, Kind
    <3>4. AfterLock
      BY <2>1, <2>3, <3>1, <3>2, <3>3 DEF PhaseMoves, AfterLock, CommandTypes
    <3> QED BY <3>3, <3>4 DEF LockedRight
  <2> QED BY <2>2, <2>3 DEF LockedRight
<1>2. CASE ~Command_
  <2>1. UNCHANGED <<command, known, locked>> /\ (phase' = phase \/ phase' = "done")
    BY <1>2, LocalsElsewhere DEF Elsewhere, locals
  <2> QED BY <2>1 DEF LockedRight, AfterLock, Kind
<1> QED BY <1>1, <1>2

-----------------------------------------------------------------------------
(* The command: the end of its chain. *)

\* The two rows of the ends are created together.
EndsCreated == \A c, d \in StateChange : lastOutpoint[c] = Missing => lastOutpoint[d] = Missing

(***************************************************************************)
(* A send joins no chain; the end that another command joins is an output  *)
(* with the chain's script, and it stays the end until it is spent.        *)
(***************************************************************************)
EndRight ==
  /\ phase = "start" \/ Kind = "send" => chainEnd = Nowhere
  /\ HasEnd => /\ Settled(chainEnd.at.txid) /\ chainEnd.at.txid \in DOMAIN txs
               /\ IsOutput(chainEnd.at) /\ ScriptOf(chainEnd.at) = EndOf
               /\ Spent(chainEnd.at) \/ lastOutpoint[EndOf] = chainEnd.at

\* The first output of a chain is not missing.
LEMMA FirstIsThere ==
  ASSUME NodeInvariant, TypeOK, TablesRight, Working, NEW c \in StateChange
  PROVE  FirstOutpoint(c) # Missing /\ Null # Missing
<1>1. tx.txid > 0 /\ tx.txid \in Nat
  BY NoOrderIsNone DEF TablesRight, TxRight, Indexed, Mined
<1>2. FirstOutpoint(c) = Null \/ FirstOutpoint(c).txid = tx.txid
  BY DEF FirstOutpoint
<1>3. Null # Missing /\ Missing.txid = 0
  BY DEF Null, Missing
<1> QED BY <1>1, <1>2, <1>3

\* The end of a chain moves when it is spent, or where there is none.
LEMMA EndsMoveOn ==
  ASSUME NodeInvariant, TypeOK, TablesRight, EndsCreated, IndexRunes
  PROVE  /\ EndsCreated'
         /\ \A c \in StateChange : \/ lastOutpoint'[c] = lastOutpoint[c]
                                   \/ lastOutpoint[c] \in {Null, Missing} \cup tx.inputs
<1>1. lastOutpoint \in [StateChange -> Outpoint] /\ Null # Missing
  BY DEF TypeOK, TablesType, Null, Missing
<1>2. Working /\ \A c \in StateChange : FirstOutpoint(c) # Missing
  BY RunesStep, FirstIsThere DEF RunesFrames, Working
<1>3. CASE CreateOutpoints
  <2>1. \A c \in StateChange : lastOutpoint[c] = Missing /\ lastOutpoint'[c] = Null
    BY <1>3 DEF CreateOutpoints, EndsCreated
  <2> QED BY <1>1, <2>1 DEF EndsCreated
<1>4. CASE MoveOutpoints
  <2>1. \A c \in StateChange :
          /\ lastOutpoint[c] # Missing
          /\ lastOutpoint'[c] = IF lastOutpoint[c] \in tx.inputs THEN FirstOutpoint(c) ELSE lastOutpoint[c]
    BY <1>4 DEF MoveOutpoints
  <2>2. \A c \in StateChange : lastOutpoint'[c] # Missing
    BY <1>2, <2>1
  <2> QED BY <2>1, <2>2 DEF EndsCreated
<1>5. CASE Mint \/ ConvertExactInput \/ ConvertExactOutput
  <2>1. \A c \in StateChange : \/ lastOutpoint'[c] = lastOutpoint[c]
                               \/ lastOutpoint[c] = Null /\ lastOutpoint'[c] = FirstOutpoint(c)
    <3>1. CASE Mint
      BY <1>1, <3>1 DEF Mint, StartsMintChain
    <3>2. CASE ConvertExactInput \/ ConvertExactOutput
      BY <1>1, <3>2 DEF ConvertExactInput, ConvertExactOutput, ConnectConversion, StartsConversionChain
    <3> QED BY <1>5, <3>1, <3>2
  <2>2. \A c \in StateChange : lastOutpoint'[c] = Missing <=> lastOutpoint[c] = Missing
    BY <1>1, <1>2, <2>1
  <2> QED BY <2>1, <2>2 DEF EndsCreated
<1>6. CASE (\E o \in pending : TakeInput(o)) \/ NoMint \/ ApplyEdict \/ OverflowEdict
            \/ AllocateRest \/ BurnRest \/ BurnOutput
  BY <1>6 DEF TakeInput, NoMint, ApplyEdict, OverflowEdict, AllocateRest, BurnRest, AfterEdicts,
              BurnOutput, tables, EndsCreated
<1>7. CASE DetectConversion \/ RefuseConversion \/ ReturnInput \/ StoreOutput \/ FinishTransaction
  BY <1>7 DEF DetectConversion, RefuseConversion, ReturnInput, StoreOutput, FinishTransaction, tables,
              EndsCreated
<1> QED BY <1>3, <1>4, <1>5, <1>6, <1>7 DEF IndexRunes

\* Only index_runes moves the ends.
LEMMA EndsRest ==
  ASSUME NodeInvariant, TypeOK, OrderType, Happens, ~IndexStep
  PROVE  lastOutpoint' = lastOutpoint
<1>1. CASE IndexTake
  BY <1>1, TakeFacts DEF tables
<1>2. CASE IndexBegin \/ IndexEnd
  BY <1>2 DEF IndexBegin, BeginBlock, IndexEnd, EndBlock
<1>3. CASE ~IndexTake /\ ~IndexBegin /\ ~IndexEnd
  BY <1>3, CommandKeeps DEF Happens, SendOwn, SendFails, Sending, IndexKept, walletVars, vars, tables
<1> QED BY <1>1, <1>2, <1>3

\* The end that was read is still the end of its chain, or is spent.
LEMMA EndStays ==
  ASSUME NodeInvariant, TypeOK, TablesRight, OrderType, OrderRight, CommandTypes, EndsCreated, EndRight, Happens
  PROVE  EndsCreated' /\ EndRight'
<1>1. Growing
  BY StepsGrow
<1>2. \A o : Spent(o) => Spent(o)'
  BY <1>1 DEF Growing, Spent, Indexed, Mined
<1>3. ASSUME NEW o, Settled(o.txid), o.txid \in DOMAIN txs
      PROVE  /\ Settled(o.txid)' /\ o.txid \in DOMAIN txs'
             /\ (IsOutput(o))' = IsOutput(o) /\ (ScriptOf(o))' = ScriptOf(o)
  BY <1>1, <1>3 DEF Growing, IsOutput, ScriptOf
<1>4. EndsCreated'
  <2>1. CASE IndexStep
    BY <2>1, EndsMoveOn DEF IndexStep
  <2>2. CASE ~IndexStep
    BY <2>2, EndsRest DEF EndsCreated
  <2> QED BY <2>1, <2>2
<1>5. \A c \in StateChange : \A o : o = lastOutpoint[c] /\ o \notin {Null, Missing} =>
        lastOutpoint'[c] = o \/ Spent(o)'
  <2>1. CASE ~IndexStep
    BY <2>1, EndsRest
  <2>2. CASE IndexStep
    <3>1. Working /\ IndexRunes
      BY <2>2, RunesStep DEF IndexStep, RunesFrames, Working
    <3>2. \A o \in tx.inputs : Spent(o)
      BY <3>1 DEF TablesRight, TxRight, Spent
    <3> QED BY <1>2, <3>1, <3>2, EndsMoveOn
  <2> QED BY <2>1, <2>2
<1>6. EndOf \in StateChange
  BY DEF EndOf, StateChange
<1>7. CASE ~Command_ \/ ~(Synchronize \/ GetChainEnd)
  <2>1. Kind' = Kind /\ chainEnd'.at = chainEnd.at /\ EndOf' = EndOf
        /\ (phase' = "start" => phase = "start") /\ (Kind = "send" => chainEnd' = chainEnd)
        /\ (phase = "start" => chainEnd' = chainEnd)
    <3>1. CASE ~Command_
      BY <3>1, LocalsElsewhere DEF Elsewhere, locals, Kind, EndOf
    <3>2. CASE Command_ /\ ~(Synchronize \/ GetChainEnd)
      <4>1. PhaseMoves /\ Changes /\ command' = command
        BY <3>2, CommandMoves, CommandChanges DEF Changes
      <4>2. CASE GetEndValue
        BY <4>1, <4>2 DEF GetEndValue, Request, CommandTypes, Kind, EndOf
      <4>3. CASE ~GetEndValue
        BY <3>2, <4>1, <4>3 DEF Changes, PhaseMoves, Kind, EndOf
      <4> QED BY <4>2, <4>3
    <3> QED BY <1>7, <3>1, <3>2
  <2>2. HasEnd' = HasEnd
    BY <2>1 DEF HasEnd
  <2>4. phase' = "start" \/ Kind' = "send" => chainEnd' = Nowhere
    BY <2>1 DEF EndRight
  <2>5. PICK o : o = chainEnd.at
    OBVIOUS
  <2>6. HasEnd => /\ Settled(o.txid)' /\ o.txid \in DOMAIN txs' /\ (IsOutput(o))' /\ (ScriptOf(o))' = EndOf
                  /\ Spent(o)' \/ lastOutpoint'[EndOf] = o
    <3> SUFFICES ASSUME HasEnd
                 PROVE  /\ Settled(o.txid)' /\ o.txid \in DOMAIN txs' /\ (IsOutput(o))' /\ (ScriptOf(o))' = EndOf
                        /\ Spent(o)' \/ lastOutpoint'[EndOf] = o
      OBVIOUS
    <3>1. /\ Settled(o.txid) /\ o.txid \in DOMAIN txs /\ IsOutput(o) /\ ScriptOf(o) = EndOf
          /\ Spent(o) \/ lastOutpoint[EndOf] = o
          /\ o \notin {Null, Missing}
      BY <2>5 DEF EndRight, HasEnd
    <3> QED BY <1>2, <1>3, <1>5, <1>6, <3>1
  <2>7. o = chainEnd'.at
    BY <2>1, <2>5
  <2>8. /\ Spent(o)' = Spent(chainEnd.at)' /\ (IsOutput(o))' = (IsOutput(chainEnd.at))'
        /\ (ScriptOf(o))' = (ScriptOf(chainEnd.at))' /\ Settled(o.txid)' = Settled(chainEnd.at.txid)'
    BY <2>7 DEF Spent, IsOutput, ScriptOf, Settled
  <2> QED BY <1>4, <2>1, <2>2, <2>4, <2>6, <2>7, <2>8 DEF EndRight
<1>8. CASE Synchronize
  <2>1. chainEnd' = chainEnd /\ chainEnd = Nowhere
    BY <1>8 DEF Synchronize, Request, EndRight
  <2> QED BY <1>4, <2>1 DEF EndRight, HasEnd, Nowhere
<1>9. CASE GetChainEnd
  <2>1. /\ phase = "end" /\ phase' = "value" /\ pc = "idle" /\ UNCHANGED vars /\ command' = command
        /\ chainEnd' = [at |-> lastOutpoint[EndOf], value |-> 0]
    BY <1>9 DEF GetChainEnd, Request
  <2>2. Kind' = Kind /\ Kind # "send" /\ EndOf' = EndOf
    BY <2>1 DEF CommandTypes, Kind, EndOf
  <2>3. PICK o : o = lastOutpoint[EndOf]
    OBVIOUS
  <2>4. o = chainEnd'.at /\ o = lastOutpoint'[EndOf]
    BY <2>1, <2>3 DEF vars, tables
  <2>5. HasEnd' => o \notin {Null, Missing}
    BY <2>4 DEF HasEnd
  <2>6. o \notin {Null, Missing} => Settled(o.txid) /\ o.txid \in DOMAIN txs /\ IsOutput(o) /\ ScriptOf(o) = EndOf
    BY <1>6, <2>1, <2>3 DEF TablesRight, EndsRight, Settled, Working, Indexed, Mined
  <2>7. o \notin {Null, Missing} => Settled(o.txid)' /\ o.txid \in DOMAIN txs' /\ (IsOutput(o))' /\ (ScriptOf(o))' = EndOf
    BY <1>3, <2>6
  <2>8. /\ Spent(o)' = Spent(chainEnd.at)' /\ (IsOutput(o))' = (IsOutput(chainEnd.at))'
        /\ (ScriptOf(o))' = (ScriptOf(chainEnd.at))' /\ Settled(o.txid)' = Settled(chainEnd.at.txid)'
    BY <2>4 DEF Spent, IsOutput, ScriptOf, Settled
  <2> QED BY <1>4, <2>1, <2>2, <2>4, <2>5, <2>7, <2>8 DEF EndRight
<1> QED BY <1>7, <1>8, <1>9

-----------------------------------------------------------------------------
(* The command: the transactions it builds. *)

\* Balances of finitely many outputs.
Balances(F) == IsFiniteSet(DOMAIN F) /\ \A o \in DOMAIN F : F[o] \in [Rune -> Nat]

\* Totals of some of the outputs.
LEMMA TotalType ==
  ASSUME NEW F, Balances(F), NEW S, S \subseteq DOMAIN F, NEW r \in Rune
  PROVE  /\ IsFiniteSet(S) /\ Total(F, S, r) \in Nat
         /\ \A T : T \subseteq S => Total(F, T, r) <= Total(F, S, r) /\ Total(F, T, r) \in Nat
<1>1. IsFiniteSet(S) /\ \A o \in S : F[o][r] \in Nat
  BY FS_Subset DEF Balances
<1>2. Total(F, S, r) \in Nat
  BY <1>1, TotalRemove
<1>3. ASSUME NEW T, T \subseteq S
      PROVE  Total(F, T, r) <= Total(F, S, r) /\ Total(F, T, r) \in Nat
  <2> DEFINE G == [o \in S |-> [q \in Rune |-> IF o \in T THEN F[o][r] ELSE 0]]
             D == [o \in S |-> [q \in Rune |-> IF o \in T THEN 0 ELSE F[o][r]]]
  <2>1. \A o \in S : /\ G[o][r] = IF o \in T THEN F[o][r] ELSE 0
                     /\ D[o][r] = IF o \in T THEN 0 ELSE F[o][r]
    OBVIOUS
  <2> HIDE DEF G, D
  <2>2. Grows(G, D, F, S, r)
    BY <1>1, <2>1 DEF Grows
  <2>3. Total(F, S, r) = Total(G, S, r) + Total(D, S, r)
    BY <1>1, <2>2, TotalPlus
  <2>4. \A o \in S : G[o][r] \in Nat /\ D[o][r] \in Nat
    BY <1>1, <2>1
  <2>5. Total(G, S, r) \in Nat /\ Total(D, S, r) \in Nat
    BY <1>1, <2>4, TotalRemove
  <2>6. Total(G, S, r) = Total(G, T, r)
    <3>1. (\A o \in T : G[o][r] \in Nat) /\ (\A o \in S \ T : G[o][r] = 0)
      BY <1>3, <2>1, <2>4
    <3> QED BY <1>1, <1>3, <3>1, TotalWithin
  <2>7. Total(G, T, r) = Total(F, T, r)
    <3>1. IsFiniteSet(T) /\ \A o \in T : G[o][r] = F[o][r]
      BY <1>1, <1>3, <2>1, FS_Subset
    <3> QED BY <3>1, TotalSame
  <2> QED BY <2>3, <2>5, <2>6, <2>7
<1> QED BY <1>1, <1>2, <1>3

\* What is selected is among what is visited.
LEMMA SelectedFacts ==
  ASSUME NEW F, NEW r, NEW amount
  PROVE  /\ Selected(F, r, amount) \subseteq Visited(F, r, amount)
         /\ Visited(F, r, amount) \subseteq DOMAIN F
  BY DEF Selected, Visited, Runic

\* The scripts, edicts and artifacts of the transactions.
LEMMA WalletOutputType ==
  ASSUME NEW s \in Script
  PROVE  WalletOutput(s) \in Output /\ WalletOutput(s).script = s
  BY DEF WalletOutput, Output

\* The shape of a transaction before it is funded.
LEMMA UnfundedFacts ==
  ASSUME NEW inputs \in SUBSET Outpoint, NEW scripts \in Seq(Script), NEW artifact \in Artifact,
         NEW mine \in SUBSET Nat
  PROVE  LET t == Unfunded(inputs, scripts, artifact, mine)
         IN  /\ t \in Transaction
             /\ t.inputs = inputs /\ t.mine = mine /\ t.template.artifact = artifact
             /\ ~t.template.coinbase /\ t.template.rbf
             /\ t.template.outputs \in Seq(Output) /\ Len(t.template.outputs) = Len(scripts)
             /\ \A v \in 1..Len(scripts) : t.template.outputs[v].script = scripts[v]
<1> DEFINE t == Unfunded(inputs, scripts, artifact, mine)
           outputs == [v \in DOMAIN scripts |-> WalletOutput(scripts[v])]
<1>1. DOMAIN scripts = 1..Len(scripts) /\ Len(scripts) \in Nat
      /\ \A v \in 1..Len(scripts) : scripts[v] \in Script
  BY LenProperties, ElementOfSeq
<1>2. /\ DOMAIN outputs = 1..Len(scripts)
      /\ \A v \in 1..Len(scripts) : outputs[v] \in Output /\ outputs[v].script = scripts[v]
  BY <1>1, WalletOutputType
<1>3. outputs \in [1..Len(scripts) -> Output]
  BY <1>2
<1> HIDE DEF outputs
<1>4. outputs \in Seq(Output) /\ Len(outputs) = Len(scripts)
  <2>1. outputs \in Seq(Output)
    BY <1>1, <1>3
  <2> QED BY <1>1, <1>2, <2>1, LenProperties
<1>5. t = [inputs |-> inputs, mine |-> mine,
           template |-> [coinbase |-> FALSE, rbf |-> TRUE, outputs |-> outputs, artifact |-> artifact]]
  BY DEF Unfunded, outputs
<1> HIDE DEF t
<1>6. t.template \in Template
  BY <1>4, <1>5 DEF Template
<1>7. t \in Transaction
  BY <1>5, <1>6 DEF Transaction
<1> QED BY <1>2, <1>4, <1>5, <1>7 DEF t

\* Funded with a coin, and joined to the end of a chain.
Joined(t, coin, ends) == [Funded(t, coin) EXCEPT !.inputs = @ \cup ends]

\* The shape of a transaction that is funded: a coin, the ends of the chains
\* and one change output more.
LEMMA JoinedFacts ==
  ASSUME NEW t \in Transaction, NEW coin \in Outpoint, NEW ends \in SUBSET Outpoint
  PROVE  LET j == Joined(t, coin, ends)
             n == Len(t.template.outputs)
         IN  /\ j \in Transaction
             /\ j.inputs = (t.inputs \cup {coin}) \cup ends
             /\ j.mine = t.mine \cup {n + 1} /\ n \in Nat
             /\ j.template.artifact = t.template.artifact
             /\ j.template.coinbase = t.template.coinbase /\ j.template.rbf = t.template.rbf
             /\ j.template.outputs \in Seq(Output) /\ Len(j.template.outputs) = n + 1
             /\ \A v \in 1..n : j.template.outputs[v] = t.template.outputs[v]
             /\ j.template.outputs[n + 1].script = "plain"
<1> DEFINE j == Joined(t, coin, ends)
           n == Len(t.template.outputs)
           outputs == Append(t.template.outputs, WalletOutput("plain"))
<1>1. /\ t.template \in Template /\ t.template.outputs \in Seq(Output)
      /\ t.inputs \subseteq Outpoint /\ t.mine \subseteq Nat
      /\ t = [inputs |-> t.inputs, mine |-> t.mine, template |-> t.template]
  BY DEF Transaction, Template
<1>2. n \in Nat
  BY <1>1, LenProperties
<1>3. WalletOutput("plain") \in Output /\ WalletOutput("plain").script = "plain"
  BY WalletOutputType DEF Script
<1>4. /\ outputs \in Seq(Output) /\ Len(outputs) = n + 1
      /\ \A v \in 1..n : outputs[v] = t.template.outputs[v]
      /\ outputs[n + 1] = WalletOutput("plain")
  BY <1>1, <1>3, AppendProperties
<1> HIDE DEF n, outputs
<1>5. j = [inputs |-> (t.inputs \cup {coin}) \cup ends, mine |-> t.mine \cup {n + 1},
           template |-> [t.template EXCEPT !.outputs = outputs]]
  <2>1. Funded(t, coin) = [inputs |-> t.inputs \cup {coin}, mine |-> t.mine \cup {n + 1},
                           template |-> [t.template EXCEPT !.outputs = outputs]]
    BY DEF Funded, n, outputs
  <2>2. PICK c : c = [t.template EXCEPT !.outputs = outputs]
    OBVIOUS
  <2>3. PICK f : f = Funded(t, coin)
    OBVIOUS
  <2>4. f = [inputs |-> t.inputs \cup {coin}, mine |-> t.mine \cup {n + 1}, template |-> c]
    BY <2>1, <2>2, <2>3
  <2>5. [f EXCEPT !.inputs = @ \cup ends]
        = [inputs |-> (t.inputs \cup {coin}) \cup ends, mine |-> t.mine \cup {n + 1}, template |-> c]
    BY <2>4
  <2> QED BY <2>2, <2>3, <2>5 DEF Joined
<1> HIDE DEF j
<1>6. /\ j.template \in Template /\ j.template.outputs = outputs
      /\ j.template.artifact = t.template.artifact
      /\ j.template.coinbase = t.template.coinbase /\ j.template.rbf = t.template.rbf
  BY <1>1, <1>4, <1>5 DEF Template
<1>7. j \in Transaction
  BY <1>1, <1>2, <1>5, <1>6 DEF Transaction
<1>8. /\ j \in Transaction
      /\ j.inputs = (t.inputs \cup {coin}) \cup ends
      /\ j.mine = t.mine \cup {n + 1} /\ n \in Nat
      /\ j.template.artifact = t.template.artifact
      /\ j.template.coinbase = t.template.coinbase /\ j.template.rbf = t.template.rbf
      /\ j.template.outputs \in Seq(Output) /\ Len(j.template.outputs) = n + 1
      /\ \A v \in 1..n : j.template.outputs[v] = t.template.outputs[v]
      /\ j.template.outputs[n + 1].script = "plain"
  BY <1>2, <1>3, <1>4, <1>5, <1>6, <1>7
<1> QED BY <1>8, Zenon DEF j, n

\* The artifacts.
LEMMA EdictType ==
  ASSUME NEW a \in Nat, NEW id \in Rune, NEW o \in Nat \ {0}
  PROVE  Of(a, id, o) \in Edict
  BY DEF Of, Edict

\* The artifacts that the commands write are artifacts.
LEMMA SpendType ==
  ASSUME NEW edicts \in Seq(Edict), NEW pointer \in Nat
  PROVE  Spend(edicts, pointer) \in Artifact /\ NoArtifact \in Artifact
<1>1. NoArtifact \in Artifact
  BY EmptySeq DEF NoArtifact, Artifact
<1> QED BY <1>1 DEF Spend, Artifact

\* Short sequences.
LEMMA JoinTuples ==
  ASSUME NEW S, NEW a \in S, NEW b \in S, NEW c \in S
  PROVE  /\ <<a>> \o <<b>> = <<a, b>>
         /\ <<a>> \o <<b, c>> = <<a, b, c>>
         /\ << >> \o <<a>> = <<a>> /\ << >> \o <<a, b>> = <<a, b>>
         /\ <<a>> \o (<<b>> \o <<c>>) = <<a, b, c>>
         /\ (<<a>> \o <<b>>) \o <<c>> = <<a, b, c>>
         /\ <<a>> \in Seq(S) /\ <<a, b>> \in Seq(S) /\ <<a, b, c>> \in Seq(S) /\ << >> \in Seq(S)
<1>1. <<a>> \in Seq(S) /\ <<b>> \in Seq(S) /\ <<c>> \in Seq(S) /\ <<a, b>> \in Seq(S)
      /\ <<b, c>> \in Seq(S) /\ <<a, b, c>> \in Seq(S) /\ << >> \in Seq(S)
  BY EmptySeq
<1>2. ASSUME NEW x \in S, NEW y \in S PROVE <<x>> \o <<y>> = <<x, y>>
  <2>1. <<x>> \in Seq(S) /\ <<y>> \in Seq(S)
    OBVIOUS
  <2>2. /\ <<x>> \o <<y>> \in Seq(S)
        /\ Len(<<x>> \o <<y>>) = Len(<<x>>) + Len(<<y>>)
        /\ \A i \in 1..(Len(<<x>>) + Len(<<y>>)) :
             (<<x>> \o <<y>>)[i] = IF i <= Len(<<x>>) THEN <<x>>[i] ELSE <<y>>[i - Len(<<x>>)]
    BY <2>1, ConcatProperties
  <2>3. PICK s : s = <<x>> \o <<y>>
    OBVIOUS
  <2>4. s \in Seq(S) /\ Len(s) = 2 /\ s[1] = x /\ s[2] = y
    BY <2>2, <2>3
  <2>5. s = <<x, y>>
    BY <2>4
  <2> QED BY <2>3, <2>5
<1>3. <<a>> \o <<b, c>> = <<a, b, c>>
  <2>2. /\ <<a>> \o <<b, c>> \in Seq(S)
        /\ Len(<<a>> \o <<b, c>>) = Len(<<a>>) + Len(<<b, c>>)
        /\ \A i \in 1..(Len(<<a>>) + Len(<<b, c>>)) :
             (<<a>> \o <<b, c>>)[i] = IF i <= Len(<<a>>) THEN <<a>>[i] ELSE <<b, c>>[i - Len(<<a>>)]
    BY <1>1, ConcatProperties
  <2>3. PICK s : s = <<a>> \o <<b, c>>
    OBVIOUS
  <2>4. s \in Seq(S) /\ Len(s) = 3 /\ s[1] = a /\ s[2] = b /\ s[3] = c
    BY <2>2, <2>3
  <2>5. s = <<a, b, c>>
    BY <2>4
  <2> QED BY <2>3, <2>5
<1>4. << >> \o <<a>> = <<a>> /\ << >> \o <<a, b>> = <<a, b>>
  BY <1>1, ConcatEmptySeq
<1>5. (<<a>> \o <<b>>) \o <<c>> = <<a>> \o (<<b>> \o <<c>>)
  BY <1>1, ConcatAssociative
<1> QED BY <1>1, <1>2, <1>3, <1>4, <1>5

\* mint.rs and send.rs.
LEMMA MintFacts ==
  LET t == MintTransaction
  IN  /\ t \in Transaction /\ t.inputs = {} /\ t.mine = {2}
      /\ t.template.artifact = Spend(<< >>, 0) /\ ~t.template.coinbase /\ t.template.rbf
      /\ Len(t.template.outputs) = 3
      /\ t.template.outputs[1].script = "mint" /\ t.template.outputs[2].script = "plain"
      /\ t.template.outputs[3].script = "op_return"
<1> DEFINE scripts == <<"mint", "plain", "op_return">>
<1>1. scripts \in Seq(Script) /\ Len(scripts) = 3
      /\ scripts[1] = "mint" /\ scripts[2] = "plain" /\ scripts[3] = "op_return"
  BY DEF Script, StateChange
<1>2. Spend(<< >>, 0) \in Artifact
  BY SpendType, EmptySeq
<1>3. MintTransaction = Unfunded({}, scripts, Spend(<< >>, 0), {2})
  BY DEF MintTransaction
<1> HIDE DEF scripts
<1> QED BY <1>1, <1>2, <1>3, UnfundedFacts

\* A transaction that sends an amount of a rune from inputs with that balance of it.
SendShape(t, inputs, balance, id, amount) ==
  /\ t \in Transaction /\ t.inputs = inputs
  /\ ~t.template.coinbase /\ t.template.rbf
  /\ balance > amount =>
       /\ t.mine = {2} /\ t.template.artifact = Spend(<<Of(amount, id, 3)>>, 0)
       /\ Len(t.template.outputs) = 3
       /\ t.template.outputs[1].script = "op_return"
       /\ t.template.outputs[2].script = "plain" /\ t.template.outputs[3].script = "plain"
  /\ ~(balance > amount) =>
       /\ t.mine = {} /\ t.template.artifact = NoArtifact
       /\ Len(t.template.outputs) = 1 /\ t.template.outputs[1].script = "plain"

\* What a send carries: its inputs hold the amount, and its edict gives it.
LEMMA SendFacts ==
  ASSUME NEW F, DOMAIN F \subseteq Outpoint, NEW id \in Rune, NEW amount \in Nat,
         NEW t, t = SendTransaction(F, id, amount), NEW inputs, inputs = Selected(F, id, amount)
  PROVE  SendShape(t, inputs, Total(F, inputs, id), id, amount)
<1> USE DEF SendShape
<1> DEFINE three == <<"op_return", "plain", "plain">>
           one == <<"plain">>
           stone == Spend(<<Of(amount, id, 3)>>, 0)
<1>1. inputs \in SUBSET Outpoint
  BY SelectedFacts
<1>2. /\ three \in Seq(Script) /\ Len(three) = 3
      /\ three[1] = "op_return" /\ three[2] = "plain" /\ three[3] = "plain"
      /\ one \in Seq(Script) /\ Len(one) = 1 /\ one[1] = "plain"
      /\ {2} \in SUBSET Nat /\ {} \in SUBSET Nat
  BY DEF Script, StateChange
<1>3. stone \in Artifact /\ NoArtifact \in Artifact
  <2>1. <<Of(amount, id, 3)>> \in Seq(Edict)
    BY EdictType, JoinTuples
  <2> QED BY <2>1, SpendType
<1>4. t = IF Total(F, inputs, id) > amount
        THEN Unfunded(inputs, three, stone, {2}) ELSE Unfunded(inputs, one, NoArtifact, {})
  BY DEF SendTransaction
<1> HIDE DEF three, one, stone
<1>5. CASE Total(F, inputs, id) > amount
  <2>1. t = Unfunded(inputs, three, stone, {2})
    BY <1>4, <1>5
  <2>2. /\ t \in Transaction /\ t.inputs = inputs
        /\ ~t.template.coinbase /\ t.template.rbf
        /\ t.mine = {2} /\ t.template.artifact = stone
        /\ Len(t.template.outputs) = 3
        /\ t.template.outputs[1].script = "op_return"
        /\ t.template.outputs[2].script = "plain" /\ t.template.outputs[3].script = "plain"
    <3>1. /\ t \in Transaction /\ t.inputs = inputs
          /\ ~t.template.coinbase /\ t.template.rbf
          /\ t.mine = {2} /\ t.template.artifact = stone
          /\ Len(t.template.outputs) = Len(three)
          /\ \A v \in 1..Len(three) : t.template.outputs[v].script = three[v]
      BY <1>1, <1>2, <1>3, <2>1, UnfundedFacts
    <3> QED BY <1>2, <3>1
  <2> QED BY <1>4, <1>5, <2>1, <2>2 DEF stone
<1>6. CASE ~(Total(F, inputs, id) > amount)
  <2>1. t = Unfunded(inputs, one, NoArtifact, {})
    BY <1>4, <1>6
  <2>2. /\ t \in Transaction /\ t.inputs = inputs
        /\ ~t.template.coinbase /\ t.template.rbf
        /\ t.mine = {} /\ t.template.artifact = NoArtifact
        /\ Len(t.template.outputs) = 1 /\ t.template.outputs[1].script = "plain"
    <3>1. /\ t \in Transaction /\ t.inputs = inputs
          /\ ~t.template.coinbase /\ t.template.rbf
          /\ t.mine = {} /\ t.template.artifact = NoArtifact
          /\ Len(t.template.outputs) = Len(one)
          /\ \A v \in 1..Len(one) : t.template.outputs[v].script = one[v]
      BY <1>1, <1>2, <1>3, <2>1, UnfundedFacts
    <3> QED BY <1>2, <3>1
  <2> QED BY <1>4, <1>6, <2>1, <2>2
<1> QED BY <1>5, <1>6

\* Of edicts.
LEMMA EdictTuples ==
  /\ \A a \in Edict : <<a>> \in Seq(Edict) /\ << >> \o <<a>> = <<a>>
  /\ \A a, b \in Edict : /\ <<a, b>> \in Seq(Edict) /\ <<a>> \o <<b>> = <<a, b>>
                         /\ << >> \o <<a, b>> = <<a, b>>
  /\ \A a, b, c \in Edict : /\ <<a, b, c>> \in Seq(Edict) /\ <<a>> \o <<b, c>> = <<a, b, c>>
                            /\ <<a>> \o (<<b>> \o <<c>>) = <<a, b, c>>
<1>1. ASSUME NEW a \in Edict, NEW b \in Edict, NEW c \in Edict
      PROVE  /\ <<a>> \in Seq(Edict) /\ << >> \o <<a>> = <<a>>
             /\ <<a, b>> \in Seq(Edict) /\ <<a>> \o <<b>> = <<a, b>> /\ << >> \o <<a, b>> = <<a, b>>
             /\ <<a, b, c>> \in Seq(Edict) /\ <<a>> \o <<b, c>> = <<a, b, c>>
             /\ <<a>> \o (<<b>> \o <<c>>) = <<a, b, c>>
  BY JoinTuples
<1> QED BY <1>1

\* convert.rs: the runestones it writes.
Stones(exactInput, connected, id, max, min, inputBalance, outputBalance) ==
  LET out == Other(id)
      change == inputBalance > max
      wanted == Of(outputBalance + min, out, 3)
      unit == Of(1, out, 3)
      all == Of(0, out, 3)
      burn == Of(max, id, 1)
      rest == Of(IF connected THEN 1 ELSE inputBalance - max, id, 3)
      keeps == outputBalance > 0
  IN  CASE exactInput /\ change /\ connected /\ keeps -> Spend(<<burn, all, unit>>, 0)
        [] exactInput /\ change /\ connected /\ ~keeps -> Spend(<<burn, unit>>, 0)
        [] exactInput /\ change /\ ~connected -> Spend(<<burn, wanted>>, 0)
        [] exactInput /\ ~change /\ connected /\ keeps -> Spend(<<all, unit>>, 1)
        [] exactInput /\ ~change /\ connected /\ ~keeps -> Spend(<<unit>>, 1)
        [] exactInput /\ ~change /\ ~connected -> Spend(<<wanted>>, 1)
        [] ~exactInput /\ change -> Spend(<<wanted, rest>>, 1)
        [] ~exactInput /\ ~change -> Spend(<<wanted, Of(0, id, 1), Of(0, id, 3)>>, 0)

\* The runestone of a conversion, case by case.
LEMMA StoneFacts ==
  ASSUME NEW exactInput \in BOOLEAN, NEW connected \in BOOLEAN, NEW id \in Rune, NEW max \in Nat,
         NEW min \in Nat, NEW inputBalance \in Nat, NEW outputBalance \in Nat
  PROVE  /\ ConvertStone(exactInput, connected, id, max, min, inputBalance, outputBalance)
              = Stones(exactInput, connected, id, max, min, inputBalance, outputBalance)
         /\ Stones(exactInput, connected, id, max, min, inputBalance, outputBalance) \in Artifact
         /\ Stones(exactInput, connected, id, max, min, inputBalance, outputBalance).kind = "runestone"
<1> DEFINE out == Other(id)
           change == inputBalance > max
           wanted == Of(outputBalance + min, out, 3)
           unit == Of(1, out, 3)
           all == Of(0, out, 3)
           burn == Of(max, id, 1)
           rest == Of(IF connected THEN 1 ELSE inputBalance - max, id, 3)
           keeps == outputBalance > 0
           stone == ConvertStone(exactInput, connected, id, max, min, inputBalance, outputBalance)
           one == Of(0, id, 1)
           three == Of(0, id, 3)
<1>1. out \in Rune
  BY DEF Other, Rune
<1>2. /\ wanted \in Edict /\ unit \in Edict /\ all \in Edict /\ burn \in Edict
      /\ one \in Edict /\ three \in Edict
      /\ change => rest \in Edict
  <2>1. outputBalance + min \in Nat /\ (change => (IF connected THEN 1 ELSE inputBalance - max) \in Nat)
    OBVIOUS
  <2>2. wanted \in Edict /\ unit \in Edict /\ all \in Edict
    BY <1>1, <2>1, EdictType
  <2>3. burn \in Edict /\ one \in Edict /\ three \in Edict
    BY EdictType
  <2>4. change => rest \in Edict
    BY <2>1, EdictType
  <2> QED BY <2>2, <2>3, <2>4
<1>3. stone =
        IF exactInput
        THEN Spend((IF change THEN <<burn>> ELSE << >>) \o
                     (IF connected THEN (IF keeps THEN <<all>> ELSE << >>) \o <<unit>> ELSE <<wanted>>),
                   IF change THEN 0 ELSE 1)
        ELSE IF change THEN Spend(<<wanted, rest>>, 1)
        ELSE Spend(<<wanted>> \o <<one, three>>, 0)
  BY DEF ConvertStone, Keep, Wanted, BurnAndReturn
<1>4. PICK st : st = Stones(exactInput, connected, id, max, min, inputBalance, outputBalance)
  OBVIOUS
<1>41. st =
      CASE exactInput /\ change /\ connected /\ keeps -> Spend(<<burn, all, unit>>, 0)
        [] exactInput /\ change /\ connected /\ ~keeps -> Spend(<<burn, unit>>, 0)
        [] exactInput /\ change /\ ~connected -> Spend(<<burn, wanted>>, 0)
        [] exactInput /\ ~change /\ connected /\ keeps -> Spend(<<all, unit>>, 1)
        [] exactInput /\ ~change /\ connected /\ ~keeps -> Spend(<<unit>>, 1)
        [] exactInput /\ ~change /\ ~connected -> Spend(<<wanted>>, 1)
        [] ~exactInput /\ change -> Spend(<<wanted, rest>>, 1)
        [] ~exactInput /\ ~change -> Spend(<<wanted, one, three>>, 0)
  BY <1>4 DEF Stones
<1> HIDE DEF out, change, wanted, unit, all, burn, rest, keeps, one, three, stone
<1>5. Spend(<<wanted, one, three>>, 0) \in Artifact /\ <<wanted>> \o <<one, three>> = <<wanted, one, three>>
  <2>1. <<wanted, one, three>> \in Seq(Edict) /\ <<wanted>> \o <<one, three>> = <<wanted, one, three>>
    BY <1>2, EdictTuples, Zenon
  <2> QED BY <2>1, SpendType
<1>6. ASSUME change PROVE Spend(<<wanted, rest>>, 1) \in Artifact
  <2>1. wanted \in Edict /\ rest \in Edict
    BY <1>2, <1>6
  <2>2. <<wanted, rest>> \in Seq(Edict)
    BY <2>1, EdictTuples
  <2> QED BY <2>2, SpendType
<1>7. /\ <<burn>> \o (<<all>> \o <<unit>>) = <<burn, all, unit>>
      /\ <<burn>> \o (<< >> \o <<unit>>) = <<burn, unit>>
      /\ <<burn>> \o <<wanted>> = <<burn, wanted>>
      /\ << >> \o (<<all>> \o <<unit>>) = <<all, unit>>
      /\ << >> \o (<< >> \o <<unit>>) = <<unit>>
      /\ << >> \o <<wanted>> = <<wanted>>
  <2>1. <<burn>> \o (<<all>> \o <<unit>>) = <<burn, all, unit>>
    BY <1>2, EdictTuples, Zenon
  <2>2. << >> \o <<unit>> = <<unit>> /\ << >> \o <<wanted>> = <<wanted>>
    BY <1>2, EdictTuples, Zenon
  <2>3. <<burn>> \o <<unit>> = <<burn, unit>> /\ <<burn>> \o <<wanted>> = <<burn, wanted>>
    BY <1>2, EdictTuples, Zenon
  <2>4. <<all>> \o <<unit>> = <<all, unit>> /\ << >> \o <<all, unit>> = <<all, unit>>
    BY <1>2, EdictTuples, Zenon
  <2> QED BY <2>1, <2>2, <2>3, <2>4
<1>8. /\ Spend(<<burn, all, unit>>, 0) \in Artifact
      /\ Spend(<<burn, unit>>, 0) \in Artifact
      /\ Spend(<<burn, wanted>>, 0) \in Artifact
      /\ Spend(<<all, unit>>, 1) \in Artifact
      /\ Spend(<<unit>>, 1) \in Artifact
      /\ Spend(<<wanted>>, 1) \in Artifact
  BY <1>2, EdictTuples, SpendType
<1>9. \A e, p : Spend(e, p).kind = "runestone"
  BY DEF Spend
<1>10. ASSUME exactInput, change PROVE stone = st /\ stone \in Artifact /\ stone.kind = "runestone"
  <2>1. CASE connected /\ keeps
    BY <1>3, <1>41, <1>7, <1>8, <1>9, <1>10, <2>1
  <2>2. CASE connected /\ ~keeps
    BY <1>3, <1>41, <1>7, <1>8, <1>9, <1>10, <2>2
  <2>3. CASE ~connected
    BY <1>3, <1>41, <1>7, <1>8, <1>9, <1>10, <2>3
  <2> QED BY <2>1, <2>2, <2>3 
<1>11. ASSUME exactInput, ~change PROVE stone = st /\ stone \in Artifact /\ stone.kind = "runestone"
  <2>1. CASE connected /\ keeps
    BY <1>3, <1>41, <1>7, <1>8, <1>9, <1>11, <2>1
  <2>2. CASE connected /\ ~keeps
    BY <1>3, <1>41, <1>7, <1>8, <1>9, <1>11, <2>2
  <2>3. CASE ~connected
    BY <1>3, <1>41, <1>7, <1>8, <1>9, <1>11, <2>3
  <2> QED BY <2>1, <2>2, <2>3
<1>12. ASSUME ~exactInput PROVE stone = st /\ stone \in Artifact /\ stone.kind = "runestone"
  <2>1. CASE change
    BY <1>3, <1>41, <1>6, <1>9, <1>12, <2>1
  <2>2. CASE ~change
    BY <1>3, <1>41, <1>5, <1>9, <1>12, <2>2
  <2> QED BY <2>1, <2>2
<1>13. stone = st /\ st \in Artifact /\ st.kind = "runestone"
  BY <1>10, <1>11, <1>12
<1> QED BY <1>4, <1>13, Zenon DEF stone

\* What a conversion carries: its inputs, its outputs and its runestone.
LEMMA ConvertFacts ==
  ASSUME NEW F, Balances(F), DOMAIN F \subseteq Outpoint, NEW c, c.id \in Rune, c.exactInput \in BOOLEAN,
         NEW connected \in BOOLEAN, NEW limits, limits.max \in Nat, limits.min \in Nat
  PROVE  LET t == ConvertTransaction(F, c, connected, limits)
             visited == Visited(F, c.id, limits.max)
             inputs == Selected(F, c.id, limits.max)
             inputBalance == Total(F, inputs, c.id)
             outputBalance == Total(F, visited, Other(c.id))
         IN  /\ t \in Transaction /\ t.inputs = inputs /\ t.mine = {3}
             /\ inputBalance \in Nat /\ outputBalance \in Nat
             /\ ~t.template.coinbase /\ t.template.rbf
             /\ t.template.artifact = Stones(c.exactInput, connected, c.id, limits.max, limits.min,
                                             inputBalance, outputBalance)
             /\ t.template.artifact.kind = "runestone"
             /\ Len(t.template.outputs) = 3
             /\ t.template.outputs[1].script = "op_return"
             /\ t.template.outputs[2].script = "convert"
             /\ t.template.outputs[3].script = "plain"
<1> DEFINE visited == Visited(F, c.id, limits.max)
           inputs == Selected(F, c.id, limits.max)
           inputBalance == Total(F, inputs, c.id)
           outputBalance == Total(F, visited, Other(c.id))
           scripts == <<"op_return", "convert", "plain">>
           stone == ConvertStone(c.exactInput, connected, c.id, limits.max, limits.min,
                                 inputBalance, outputBalance)
<1>1. inputs \subseteq DOMAIN F /\ visited \subseteq DOMAIN F /\ Other(c.id) \in Rune
  BY SelectedFacts DEF Other, Rune
<1>2. scripts \in Seq(Script) /\ Len(scripts) = 3
      /\ scripts[1] = "op_return" /\ scripts[2] = "convert" /\ scripts[3] = "plain"
  BY DEF Script, StateChange
<1>3. ConvertTransaction(F, c, connected, limits) = Unfunded(inputs, scripts, stone, {3})
  BY DEF ConvertTransaction
<1> HIDE DEF visited, inputs, scripts
<1>4. inputBalance \in Nat /\ outputBalance \in Nat
  BY <1>1, TotalType
<1> HIDE DEF inputBalance, outputBalance
<1>5. /\ stone = Stones(c.exactInput, connected, c.id, limits.max, limits.min, inputBalance, outputBalance)
      /\ stone \in Artifact /\ stone.kind = "runestone"
  <2>1. PICK i, j, k, m, n : /\ i = c.exactInput /\ j = c.id /\ k = limits.max /\ m = limits.min
                             /\ n = inputBalance
    OBVIOUS
  <2>2. PICK o : o = outputBalance
    OBVIOUS
  <2>3. /\ i \in BOOLEAN /\ j \in Rune /\ k \in Nat /\ m \in Nat /\ n \in Nat /\ o \in Nat
        /\ stone = ConvertStone(i, connected, j, k, m, n, o)
    BY <1>4, <2>1, <2>2
  <2>4. stone = Stones(i, connected, j, k, m, n, o) /\ stone \in Artifact /\ stone.kind = "runestone"
    <3>1. /\ ConvertStone(i, connected, j, k, m, n, o) = Stones(i, connected, j, k, m, n, o)
          /\ Stones(i, connected, j, k, m, n, o) \in Artifact
          /\ Stones(i, connected, j, k, m, n, o).kind = "runestone"
      BY <2>3, StoneFacts
    <3> HIDE DEF stone
    <3> QED BY <2>3, <3>1, Zenon
  <2> QED BY <2>1, <2>2, <2>4
<1> HIDE DEF stone
<1>6. PICK t : t = Unfunded(inputs, scripts, stone, {3})
  OBVIOUS
<1>7. /\ t \in Transaction /\ t.inputs = inputs /\ t.mine = {3}
      /\ ~t.template.coinbase /\ t.template.rbf
      /\ t.template.artifact = stone
      /\ Len(t.template.outputs) = 3
      /\ t.template.outputs[1].script = "op_return"
      /\ t.template.outputs[2].script = "convert"
      /\ t.template.outputs[3].script = "plain"
  <2>1. inputs \in SUBSET Outpoint /\ {3} \in SUBSET Nat
    BY <1>1
  <2> QED BY <1>2, <1>5, <1>6, <2>1, UnfundedFacts
<1>8. /\ t.inputs = Selected(F, c.id, limits.max)
      /\ Total(F, Selected(F, c.id, limits.max), c.id) \in Nat
      /\ Total(F, Visited(F, c.id, limits.max), Other(c.id)) \in Nat
  BY <1>4, <1>7 DEF inputs, visited, inputBalance, outputBalance
<1>9. t.template.artifact
        = Stones(c.exactInput, connected, c.id, limits.max, limits.min,
                 Total(F, Selected(F, c.id, limits.max), c.id),
                 Total(F, Visited(F, c.id, limits.max), Other(c.id)))
  BY <1>5, <1>7, Zenon DEF inputs, visited, inputBalance, outputBalance
<1>10. ConvertTransaction(F, c, connected, limits) = t
  BY <1>3, <1>6, Zenon
<1>11. t.template.artifact.kind = "runestone"
  BY <1>5, <1>7
<1> QED BY <1>7, <1>8, <1>9, <1>10, <1>11

-----------------------------------------------------------------------------
(* The command: what it offers. *)

\* The limits of a conversion are numbers, and an exact input is the input.
LEMMA ParametersType ==
  ASSUME NEW c, c.id \in Rune, c.input \in Nat, c.output \in Nat, NEW connected \in BOOLEAN,
         NEW state \in [Rune -> Nat], NEW supply \in [Rune -> Nat]
  PROVE  /\ Parameters(c, connected, <<state>>, supply).max \in Nat
         /\ Parameters(c, connected, <<state>>, supply).min \in Nat
         /\ c.exactInput => Parameters(c, connected, <<state>>, supply).max = c.input
<1> DEFINE last == {<<state>>[i] : i \in {j \in DOMAIN <<state>> : j + 1 >= Len(<<state>>)}}
           expected == Expected(c, supply, c.input)
           required == IF connected THEN Max({Required(c, s, c.output) : s \in last})
                                    ELSE Required(c, supply, c.output)
<1>1. Other(c.id) \in Rune /\ Width \in Nat \ {0} /\ U128Max \in Nat
  BY WidthAssumption DEF Other, Rune, Width
<1>2. \A s \in [Rune -> Nat] : Required(c, s, c.output) \in Nat /\ Expected(c, s, c.input) \in Nat
  <2> SUFFICES ASSUME NEW s \in [Rune -> Nat]
               PROVE  Required(c, s, c.output) \in Nat /\ Expected(c, s, c.input) \in Nat
    OBVIOUS
  <2>1. s[c.id] \in Nat /\ s[Other(c.id)] \in Nat
    BY <1>1
  <2>2. PICK a, b, i, o : a = s[c.id] /\ b = s[Other(c.id)] /\ i = c.input /\ o = c.output
    OBVIOUS
  <2>3. WrappedYields(Width, a, b, i) \in Nat /\ WrappedCosts(Width, a, b, o) \in Nat
    BY <1>1, <2>1, <2>2, WrappedType
  <2> QED BY <1>1, <2>2, <2>3 DEF Required, Expected, GetRequiredInput, GetExpectedOutput
<1>3. last = {state}
  OBVIOUS
<1>4. \A x \in Nat : Max({x}) = x
  BY DEF Max
<1>5. {Required(c, s, c.output) : s \in last} = {Required(c, state, c.output)}
  BY <1>3
<1>6. required \in Nat /\ expected \in Nat
  BY <1>2, <1>4, <1>5
<1>7. PICK p : p = Parameters(c, connected, <<state>>, supply)
  OBVIOUS
<1>8. p = IF c.exactInput /\ c.output = 0 /\ ~connected
          THEN [ok |-> expected > 0, max |-> c.input, min |-> (expected * 9980) \div 10000]
          ELSE IF ~c.exactInput /\ c.input = 0
          THEN [ok |-> required < U128Max, min |-> c.output,
                max |-> IF connected THEN required ELSE (required * 10000) \div 9980]
          ELSE [ok |-> TRUE, max |-> c.input, min |-> c.output]
  BY <1>7 DEF Parameters
<1> HIDE DEF last, expected, required
<1>9. (expected * 9980) \div 10000 \in Nat /\ (required * 10000) \div 9980 \in Nat
  BY <1>6
<1> QED BY <1>6, <1>7, <1>8, <1>9

Limits == [max |-> offer.max, min |-> offer.min]
Bare ==
  CASE Kind = "mint" -> MintTransaction
    [] Kind = "send" -> SendTransaction(known, command.id, command.amount)
    [] OTHER -> ConvertTransaction(known, command, HasEnd, Limits)
Ends == IF HasEnd /\ Kind # "send" THEN {chainEnd.at} ELSE {}
Offered ==
  /\ Kind = "mint" => offer.pile = [r \in Rune |-> MintPile(read, tip + 1, r)]
  /\ Kind = "send" =>
       /\ Covers(known, command.id, command.amount)
       /\ offer.change <=> Total(known, Selected(known, command.id, command.amount), command.id)
                             > command.amount
  /\ Kind = "convert" =>
       /\ offer.max \in Nat /\ offer.min \in Nat
       /\ Covers(known, command.id, offer.max)
       /\ command.exactInput => offer.max = command.input
       /\ offer.change <=> Total(known, Selected(known, command.id, offer.max), command.id)
                             > offer.max

(***************************************************************************)
(* What the command has built is a function of what it knows and offers,   *)
(* and it is funded with an output without runes.                          *)
(***************************************************************************)
DraftRight ==
  /\ phase = "fund" => Offered /\ draft = Bare
  /\ phase = "send" \/ order.status # "none" =>
       /\ Offered
       /\ \E coin \in DOMAIN known : known[coin] = Zero /\ draft = Joined(Bare, coin, Ends)

\* What a command builds is a transaction that spends known outputs.
LEMMA BareFacts ==
  ASSUME NodeInvariant, CommandTypes, MineSettled, ListedRight, EndRight, Offered, phase # "start"
  PROVE  /\ Bare \in Transaction /\ ~Bare.template.coinbase
         /\ \A v \in Bare.mine : /\ v \in DOMAIN Bare.template.outputs
                                /\ Bare.template.outputs[v].script = "plain"
         /\ Ends \subseteq Outpoint
         /\ Bare.inputs \subseteq DOMAIN known
<1>1. command \in Command /\ Kind \in {"mint", "send", "convert"} /\ HasEnd \in BOOLEAN
  BY KindsOfCommands DEF CommandTypes, Kind, HasEnd
<1>2. DOMAIN known \subseteq Outpoint /\ Balances(known)
  BY ListedFacts DEF ListedRight, Balances
<1>3. Ends \subseteq Outpoint
  BY DEF Ends, CommandTypes
<1>4. CASE Kind = "mint"
  <2>1. Bare = MintTransaction
    BY <1>4 DEF Bare
  <2>2. PICK t : t = MintTransaction
    OBVIOUS
  <2>3. /\ t \in Transaction /\ t.inputs = {} /\ t.mine = {2} /\ ~t.template.coinbase
        /\ Len(t.template.outputs) = 3 /\ t.template.outputs[2].script = "plain"
    BY <2>2, MintFacts
  <2>4. DOMAIN t.template.outputs = 1..3
    BY <2>3, LenProperties DEF Transaction, Template
  <2> QED BY <1>3, <2>1, <2>2, <2>3, <2>4
<1>5. CASE Kind = "send"
  <2>1. command.id \in Rune /\ command.amount \in Nat
    BY <1>1, <1>5, KindsOfCommands DEF Kind
  <2>2. Bare = SendTransaction(known, command.id, command.amount)
    BY <1>5 DEF Bare
  <2>3. PICK t, id, amount : t = SendTransaction(known, id, amount) /\ id = command.id
                             /\ amount = command.amount
    OBVIOUS
  <2>4. /\ t \in Transaction /\ t.inputs \subseteq DOMAIN known /\ ~t.template.coinbase
        /\ \/ t.mine = {2} /\ Len(t.template.outputs) = 3 /\ t.template.outputs[2].script = "plain"
           \/ t.mine = {}
    <3>1. PICK i : i = Selected(known, id, amount)
      OBVIOUS
    <3>2. i \subseteq DOMAIN known
      BY <3>1, SelectedFacts
    <3>3. SendShape(t, i, Total(known, i, id), id, amount)
      BY <1>2, <2>1, <2>3, <3>1, SendFacts
    <3> QED BY <3>2, <3>3 DEF SendShape
  <2>5. DOMAIN t.template.outputs = 1..Len(t.template.outputs)
    BY <2>4, LenProperties DEF Transaction, Template
  <2> QED BY <1>3, <2>2, <2>3, <2>4, <2>5
<1>6. CASE Kind = "convert"
  <2>1. command.id \in Rune /\ command.exactInput \in BOOLEAN
    BY <1>1, <1>6, KindsOfCommands DEF Kind
  <2>2. Bare = ConvertTransaction(known, command, HasEnd, Limits)
        /\ Limits.max \in Nat /\ Limits.min \in Nat
    BY <1>6 DEF Bare, Offered, Limits
  <2>3. PICK t, c, l, e : t = ConvertTransaction(known, c, e, l) /\ c = command /\ l = Limits
                          /\ e = HasEnd
    OBVIOUS
  <2>4. /\ t \in Transaction /\ t.inputs \subseteq DOMAIN known /\ ~t.template.coinbase
        /\ t.mine = {3} /\ Len(t.template.outputs) = 3 /\ t.template.outputs[3].script = "plain"
    BY <1>1, <1>2, <2>1, <2>2, <2>3, ConvertFacts, SelectedFacts
  <2>5. DOMAIN t.template.outputs = 1..3
    BY <2>4, LenProperties DEF Transaction, Template
  <2> QED BY <1>3, <2>2, <2>3, <2>4, <2>5
<1> QED BY <1>1, <1>4, <1>5, <1>6

\* What it has funded can be sent.
LEMMA JoinedSendable ==
  ASSUME NEW t \in Transaction, ~t.template.coinbase,
         \A v \in t.mine : v \in DOMAIN t.template.outputs /\ t.template.outputs[v].script = "plain",
         NEW coin \in Outpoint, NEW ends, ends \subseteq Outpoint
  PROVE  Sendable(Joined(t, coin, ends))
<1>1. PICK j, n : j = Joined(t, coin, ends) /\ n = Len(t.template.outputs)
  OBVIOUS
<1>2. /\ j \in Transaction /\ j.mine = t.mine \cup {n + 1} /\ n \in Nat
      /\ j.template.coinbase = t.template.coinbase
      /\ j.template.outputs \in Seq(Output) /\ Len(j.template.outputs) = n + 1
      /\ \A v \in 1..n : j.template.outputs[v] = t.template.outputs[v]
      /\ j.template.outputs[n + 1].script = "plain"
  BY <1>1, JoinedFacts
<1>3. DOMAIN j.template.outputs = 1..(n + 1) /\ DOMAIN t.template.outputs = 1..n
  BY <1>1, <1>2, LenProperties DEF Transaction, Template
<1>4. ASSUME NEW v \in j.mine PROVE v \in 1..(n + 1) /\ j.template.outputs[v].script = "plain"
  <2>1. CASE v \in t.mine
    BY <1>2, <1>3, <2>1
  <2>2. CASE v = n + 1
    BY <1>2, <2>2
  <2> QED BY <1>2, <2>1, <2>2
<1> QED BY <1>1, <1>2, <1>3, <1>4 DEF Sendable

CommandRight ==
  /\ CommandTypes /\ MineSettled /\ ListedRight /\ KnownRight /\ LockedRight
  /\ EndsCreated /\ EndRight

\* A draft that is to be sent may be sent.
LEMMA DraftIsSendable ==
  ASSUME NodeInvariant, OrderRight, CommandRight, DraftRight, phase = "send" \/ order.status # "none"
  PROVE  Sendable(draft)
<1>1. phase # "start"
  BY DEF OrderRight
<1>2. Offered /\ \E coin \in DOMAIN known : known[coin] = Zero /\ draft = Joined(Bare, coin, Ends)
  BY DEF DraftRight
<1>3. PICK coin \in DOMAIN known : draft = Joined(Bare, coin, Ends)
  BY <1>2
<1>4. coin \in Outpoint
  BY ListedFacts DEF CommandRight, ListedRight
<1>5. /\ Bare \in Transaction /\ ~Bare.template.coinbase
      /\ \A v \in Bare.mine : /\ v \in DOMAIN Bare.template.outputs
                             /\ Bare.template.outputs[v].script = "plain"
      /\ Ends \subseteq Outpoint
  BY <1>1, <1>2, BareFacts DEF CommandRight
<1>6. PICK t, e : t = Bare /\ e = Ends
  OBVIOUS
<1> QED BY <1>3, <1>4, <1>5, <1>6, JoinedSendable

\* What the command builds.
LEMMA Built ==
  ASSUME NodeInvariant, TypeOK, CommandRight, Build, phase' = "fund"
  PROVE  (Offered /\ draft = Bare)'
<1>1. UNCHANGED <<command, known, tip, read, chainEnd>> /\ phase = "build"
  BY DEF Build
<1>2. Kind' = Kind /\ HasEnd' = HasEnd
  BY <1>1 DEF Kind, HasEnd
<1>3. command \in Command /\ Kind \in {"mint", "send", "convert"} /\ HasEnd \in BOOLEAN
  BY <1>1, KindsOfCommands DEF CommandRight, CommandTypes, Kind, HasEnd
<1>4. CASE BuildMint
  <2>1. Kind = "mint" /\ draft' = MintTransaction
        /\ offer' = [pile |-> [r \in Rune |-> MintPile(read, tip + 1, r)]]
    BY <1>4 DEF BuildMint, GiveUp, Kind
  <2> QED BY <1>1, <1>2, <2>1 DEF Offered, Bare
<1>5. CASE BuildSend
  <2>1. Kind = "send" /\ Covers(known, command.id, command.amount)
        /\ draft' = SendTransaction(known, command.id, command.amount)
        /\ offer' = [change |-> draft'.mine # {}]
    BY <1>5 DEF BuildSend, Kind, GiveUp
  <2>2. command.id \in Rune /\ command.amount \in Nat
    BY <1>3, <2>1, KindsOfCommands DEF Kind
  <2>3. DOMAIN known \subseteq Outpoint
    BY ListedFacts DEF CommandRight, ListedRight
  <2>4. PICK t, i, id, amount : /\ t = draft' /\ id = command.id /\ amount = command.amount
                                /\ i = Selected(known, id, amount)
    OBVIOUS
  <2>5. SendShape(t, i, Total(known, i, id), id, amount)
    BY <2>1, <2>2, <2>3, <2>4, SendFacts
  <2>6. t.mine # {} <=> Total(known, i, id) > amount
    BY <2>5 DEF SendShape
  <2>7. offer'.change <=> Total(known, Selected(known, command.id, command.amount), command.id)
                            > command.amount
    BY <2>1, <2>4, <2>6
  <2> QED BY <1>1, <1>2, <2>1, <2>7 DEF Offered, Bare
<1>6. CASE BuildConvert
  <2> DEFINE state == [r \in Rune |-> read[r].supply]
             supply == [r \in Rune |-> entries[r].supply]
  <2>1. PICK limits : limits = Parameters(command, HasEnd, <<state>>, supply)
    OBVIOUS
  <2>2. /\ Kind = "convert" /\ Covers(known, command.id, limits.max)
        /\ draft' = ConvertTransaction(known, command, HasEnd, limits)
        /\ offer' = [max |-> limits.max, min |-> limits.min,
                     change |-> Total(known, Selected(known, command.id, limits.max), command.id) > limits.max]
    BY <1>6, <2>1 DEF BuildConvert, Kind, GiveUp
  <2>3. state \in [Rune -> Nat] /\ supply \in [Rune -> Nat]
    BY DEF CommandRight, CommandTypes, TypeOK, TablesType, Entry
  <2>4. command.id \in Rune /\ command.input \in Nat /\ command.output \in Nat
    BY <1>3, <2>2, KindsOfCommands DEF Kind
  <2> HIDE DEF state, supply
  <2>5. PICK c, e : c = command /\ e = HasEnd
    OBVIOUS
  <2>6. /\ limits.max \in Nat /\ limits.min \in Nat
        /\ c.exactInput => limits.max = c.input
    <3>1. limits = Parameters(c, e, <<state>>, supply) /\ e \in BOOLEAN
      BY <1>3, <2>1, <2>5
    <3> QED BY <2>3, <2>4, <2>5, <3>1, ParametersType
  <2>7. Limits' = [max |-> limits.max, min |-> limits.min]
    BY <2>2 DEF Limits
  <2>8. ConvertTransaction(known, command, HasEnd, limits)
          = ConvertTransaction(known, command, HasEnd, [max |-> limits.max, min |-> limits.min])
    BY DEF ConvertTransaction
  <2>9. draft' = Bare'
    BY <1>1, <1>2, <2>2, <2>7, <2>8 DEF Bare
  <2>10. Offered'
    <3>1. offer'.max = limits.max /\ offer'.min = limits.min
          /\ offer'.change = (Total(known, Selected(known, command.id, limits.max), command.id) > limits.max)
      BY <2>2
    <3> QED BY <1>1, <1>2, <2>2, <2>5, <2>6, <3>1 DEF Offered
  <2> QED BY <2>9, <2>10
<1> QED BY <1>4, <1>5, <1>6 DEF Build

\* The command funds it with an output without runes.
LEMMA FundedRight ==
  ASSUME NodeInvariant, OrderRight, CommandRight, DraftRight, Fund, phase' = "send"
  PROVE  /\ Offered
         /\ \E coin \in DOMAIN known : known[coin] = Zero /\ draft' = Joined(Bare, coin, Ends)
<1>1. phase = "fund"
  BY DEF Fund
<1>2. Offered /\ draft = Bare /\ order.status = "none" /\ AfterLock
  BY <1>1 DEF DraftRight, OrderRight, AfterLock
<1>3. PICK coin \in Coins : FundWith(coin)
  BY DEF Fund, GiveUp
<1>4. draft' = Joined(Bare, coin, Ends)
  BY <1>2, <1>3 DEF FundWith, Joined, Ends, Kind
<1>5. coin \in listed /\ coin \notin locked
  BY <1>1, <1>2, <1>3 DEF Coins, CommandRight, ListedRight
<1>6. coin \in DOMAIN known /\ coin \notin Runic(known)
  BY <1>1, <1>2, <1>5 DEF CommandRight, ListedRight, LockedRight
<1>7. known[coin] \in [Rune -> Nat]
  BY <1>6 DEF CommandRight, ListedRight
<1>8. \A r \in Rune : known[coin][r] = 0
  BY <1>6, <1>7 DEF Runic
<1>9. known[coin] = Zero
  BY <1>7, <1>8 DEF Zero
<1> QED BY <1>2, <1>4, <1>6, <1>9

\* The draft stays as it was built and funded.
LEMMA DraftStays ==
  ASSUME NodeInvariant, TypeOK, TablesRight, OrderType, OrderRight, CommandRight, DraftRight, Happens
  PROVE  DraftRight'
<1>1. ASSUME UNCHANGED <<command, known, tip, read, chainEnd, offer>>
      PROVE  Offered' = Offered /\ Bare' = Bare /\ Ends' = Ends
  BY <1>1 DEF Offered, Bare, Ends, Kind, HasEnd, Limits
<1>2. CASE Command_
  <2>1. PhaseMoves /\ Changes /\ order' = order
    BY <1>2, CommandMoves, CommandChanges, CommandKeeps
  <2>2. phase # "done" /\ order'.status = "none"
    BY <2>1 DEF PhaseMoves, OrderRight
  <2>3. CASE Build
    BY <2>1, <2>2, <2>3, Built DEF DraftRight, PhaseMoves, Build
  <2>4. CASE Fund
    <3>1. UNCHANGED <<command, known, tip, read, chainEnd>> /\ phase = "fund" /\ phase' \in {"send", "done"}
      BY <2>1, <2>4 DEF Fund, PhaseMoves
    <3>2. CASE phase' = "send"
      <4>1. PICK coin \in Coins : FundWith(coin)
        BY <2>4, <3>2 DEF Fund, GiveUp
      <4>2. offer' = offer
        BY <4>1 DEF FundWith
      <4>3. Offered /\ \E coin_1 \in DOMAIN known : known[coin_1] = Zero /\ draft' = Joined(Bare, coin_1, Ends)
        BY <2>4, <3>2, FundedRight
      <4> QED BY <1>1, <3>1, <3>2, <4>2, <4>3 DEF DraftRight
    <3> QED BY <2>2, <3>1, <3>2 DEF DraftRight
  <2>5. CASE ~Build /\ ~Fund
    <3>1. phase' \notin {"fund", "send"}
      BY <2>1, <2>5 DEF PhaseMoves
    <3> QED BY <2>2, <3>1 DEF DraftRight
  <2> QED BY <2>3, <2>4, <2>5
<1>3. CASE ~Command_
  <2>1. UNCHANGED <<command, known, tip, read, chainEnd, offer, draft>>
        /\ (phase' = phase \/ (phase = "send" /\ phase' = "done"))
    BY <1>3, LocalsElsewhere DEF Elsewhere, locals
  <2>2. order'.status # "none" => phase = "send" \/ order.status # "none"
    <3>1. CASE IndexBegin \/ IndexTake \/ IndexStep \/ IndexEnd
      BY <3>1, FollowingKeepsStatus
    <3>2. CASE SendOwn
      BY <3>2 DEF SendOwn
    <3> QED BY <1>3, <3>1, <3>2, LocalsElsewhere
  <2> QED BY <1>1, <2>1, <2>2 DEF DraftRight
<1> QED BY <1>2, <1>3

-----------------------------------------------------------------------------
(* The history of the transaction it sends. *)

\* What the wallet has, over the rows of the index.
LEMMA WalletHasType ==
  ASSUME TypeOK, FiniteRows
  PROVE  WalletHas \in [Rune -> Nat] /\ Balances(balances)
<1>1. Balances(balances)
  BY DEF Balances, FiniteRows, TypeOK, TablesType
<1>2. \A r \in Rune : Total(balances, Owned \cap DOMAIN balances, r) \in Nat
  BY <1>1, TotalType
<1> QED BY <1>1, <1>2 DEF WalletHas

\* The order keeps its types.
LEMMA OrderTypeStays ==
  ASSUME NodeInvariant, Updater, OrderType, Happens
  PROVE  OrderType'
<1>1. WalletHas \in [Rune -> Nat] /\ height \in Nat /\ \A o : Held(o) \in [Rune -> Nat]
  BY WalletHasType, HeldType DEF Updater, UpdaterInvariant, TypeOK, BlockType
<1>2. CASE IndexTake
  <2>1. PICK had, end, n : had = WalletHas /\ end = Held(chainEnd.at) /\ n = Head(block)
    OBVIOUS
  <2>2. order' = IF order.txid = n
                 THEN [order EXCEPT !.had = had, !.end = end, !.at = height] ELSE order
    BY <1>2, <2>1 DEF IndexTake
  <2> QED BY <1>1, <2>1, <2>2 DEF OrderType
<1>3. CASE IndexStep
  <2>1. PICK got, c : /\ got = [r \in Rune |-> WalletHas[r] - order.had[r]]
                      /\ c = (order.converted \/ (pc = "convert" /\ Acceptable /\ Connected))
    OBVIOUS
  <2>2. got \in [Rune -> Int] /\ c \in BOOLEAN
    BY <1>1, <2>1 DEF OrderType
  <2>3. \/ order' = order
        \/ order' = [order EXCEPT !.status = "indexed", !.got = got]
        \/ order' = [order EXCEPT !.converted = c]
    BY <1>3, <2>1 DEF IndexStep
  <2> QED BY <2>2, <2>3 DEF OrderType
<1>4. CASE SendOwn
  <2>1. order' = [order EXCEPT !.status = "sent", !.txid = Len(txs) + 1] /\ Len(txs) + 1 \in Nat
    BY <1>4, LenProperties DEF SendOwn, NodeInvariant, NodeTypes
  <2> QED BY <2>1 DEF OrderType
<1>5. CASE Command_
  BY <1>5, CommandKeeps DEF OrderType
<1>6. CASE order' = order
  BY <1>6 DEF OrderType
<1> QED BY <1>2, <1>3, <1>4, <1>5, <1>6, LocalsElsewhere

\* A step of the index on its transaction.
LEMMA OrderFollows ==
  ASSUME NodeInvariant, Updater, OrderType, OrderRight, TablesRight,
         IndexBegin \/ IndexTake \/ IndexStep \/ IndexEnd
  PROVE  /\ order'.status = "none" => order' = NoOrder
         /\ order'.status = "indexed" => (Settled(order.txid))'
         /\ order'.status = "sent" => ~(Settled(order.txid))'
         /\ order'.txid = order.txid
<1>1. UNCHANGED <<txs, mempool>> /\ order'.txid = order.txid
  BY IndexKeeps
<1>2. CASE IndexBegin \/ IndexEnd
  <2>1. UNCHANGED <<order, block>> /\ ~Working /\ ~Working'
    BY <1>2 DEF IndexBegin, IndexEnd, nodeVars, BeginBlock, EndBlock, Working
  <2>2. Indexed' = Indexed
    BY <1>1, <2>1 DEF Indexed, Mined, Waiting
  <2> QED BY <1>1, <2>1, <2>2 DEF OrderRight, Settled
<1>3. CASE IndexTake
  <2>1. /\ Head(block) \notin Indexed /\ Indexed' = Indexed \cup {Head(block)} /\ pc = "block"
        /\ pc' = "inputs" /\ tx'.txid = Head(block) /\ Head(block) \in DOMAIN txs
    BY <1>3, TakeFacts DEF Updater, UpdaterInvariant
  <2>2. ~Working /\ Working'
    BY <2>1 DEF Working
  <2>3. order'.status = order.status /\ (order.txid = Head(block) \/ order' = order)
    BY <1>3 DEF IndexTake, OrderType
  <2>4. order.status = "none" => order' = NoOrder
    BY <2>1, <2>3, NoOrderIsNone DEF OrderRight
  <2> QED BY <1>1, <2>1, <2>2, <2>3, <2>4 DEF OrderRight, Settled
<1>4. CASE IndexStep
  <2>1. RunesFrames /\ Working /\ block' = block
    BY <1>4, RunesStep DEF IndexStep, RunesFrames, Working, nodeVars
  <2>2. Indexed' = Indexed /\ tx.txid \in Indexed /\ tx.txid \in DOMAIN txs
    BY <1>1, <2>1 DEF Indexed, Mined, Waiting, TablesRight, TxRight
  <2>3. order.txid = tx.txid => order.status = "sent"
    BY <2>1, <2>2, NoOrderIsNone DEF OrderRight, Settled, OrderType
  <2>4. pc' # "block" => Working' /\ tx' = tx
    BY <2>1 DEF RunesFrames, Working, FinishTransaction
  <2>5. pc' = "block" => ~Working'
    BY DEF Working
  <2>6. CASE order.txid # tx.txid
    <3>1. order' = order
      BY <1>4, <2>6 DEF IndexStep
    <3> QED BY <1>1, <2>1, <2>2, <2>4, <2>5, <2>6, <3>1 DEF OrderRight, Settled
  <2>7. CASE order.txid = tx.txid /\ pc' = "block"
    <3>1. order'.status = "indexed"
      BY <1>4, <2>7 DEF IndexStep, OrderType
    <3> QED BY <1>1, <2>2, <2>5, <2>7, <3>1 DEF Settled
  <2>8. CASE order.txid = tx.txid /\ pc' # "block"
    <3>1. order'.status = order.status
      BY <1>4, <2>8 DEF IndexStep, OrderType
    <3> QED BY <1>1, <2>2, <2>3, <2>4, <2>8, <3>1 DEF Settled
  <2> QED BY <2>6, <2>7, <2>8
<1> QED BY <1>1, <1>2, <1>3, <1>4

\* The order stays that of the transaction which was sent.
LEMMA OrderStays ==
  ASSUME NodeInvariant, Updater, OrderType, OrderRight, TablesRight, Happens
  PROVE  OrderRight'
<1>1. Growing
  BY StepsGrow DEF Updater, UpdaterInvariant
<1>2. CASE SendOwn /\ Sendable(draft) /\ order = NoOrder
  <2>1. /\ txs' = Append(txs, draft) /\ mempool' = mempool \cup {Len(txs) + 1} /\ phase' = "done"
        /\ draft' = draft /\ order'.status = "sent" /\ order'.txid = Len(txs) + 1
    BY <1>2 DEF SendOwn, Sending, Broadcast, OrderType, locals
  <2>2. DOMAIN txs' = DOMAIN txs \cup {Len(txs) + 1} /\ txs'[Len(txs) + 1] = draft
    BY <1>2, <2>1, Appended DEF NodeInvariant, NodeTypes, Sendable
  <2>3. ~(Settled(order.txid))'
    BY <2>1 DEF Settled, Indexed, Mined
  <2> QED BY <2>1, <2>2, <2>3 DEF OrderRight
<1>3. ASSUME order'.txid = order.txid, order'.status = "none" <=> order.status = "none",
             order'.status = "none" => order' = NoOrder,
             order'.status = "indexed" => (Settled(order.txid))',
             order'.status = "sent" => ~(Settled(order.txid))',
             phase = "done" => phase' = "done" /\ draft' = draft
      PROVE  OrderRight'
  BY <1>1, <1>3 DEF OrderRight, Growing
<1>4. CASE IndexBegin \/ IndexTake \/ IndexStep \/ IndexEnd
  <2>1. UNCHANGED <<phase, locals>>
    BY <1>4, IndexKeeps
  <2> QED BY <1>3, <1>4, <2>1, OrderFollows, FollowingKeepsStatus DEF locals
<1>5. ASSUME order' = order, Indexed' = Indexed, UNCHANGED vars,
             phase = "done" => phase' = "done" /\ draft' = draft
      PROVE  OrderRight'
  <2>1. \A n : (Settled(n))' = Settled(n)
    BY <1>5 DEF Settled, Working, vars
  <2> QED BY <1>3, <1>5, <2>1 DEF OrderRight
<1>6. CASE Command_ \/ SendFails \/ UNCHANGED walletVars
  <2>1. UNCHANGED <<vars, txs, mempool, block, unspent>> /\ order' = order
    BY <1>6, CommandKeeps DEF SendFails, IndexKept, NodeKept, walletVars, nodeVars
  <2>2. Indexed' = Indexed
    BY <2>1 DEF Indexed, Mined, Waiting
  <2>3. phase = "done" => phase' = "done" /\ draft' = draft
    <3>1. CASE Command_
      BY <3>1, CommandMoves DEF PhaseMoves
    <3>2. CASE SendFails \/ UNCHANGED walletVars
      BY <3>2 DEF SendFails, locals, walletVars, commandVars
    <3> QED BY <1>6, <3>1, <3>2
  <2> QED BY <1>5, <2>1, <2>2, <2>3
<1>7. CASE \E t : /\ Sendable(t) /\ Sending(t) /\ t.mine = {}
                  /\ UNCHANGED <<locked, phase, locals, order>>
  <2>1. PICK t : Sendable(t) /\ Sending(t) /\ t.mine = {} /\ UNCHANGED <<locked, phase, locals, order>>
    BY <1>7
  <2>2. Indexed' = Indexed /\ UNCHANGED vars
    BY <2>1, SendingKeepsNode DEF Sending, IndexKept
  <2> QED BY <1>5, <2>1, <2>2 DEF locals
<1>8. CASE (\E S : Mines(S)) /\ IndexKept /\ UNCHANGED <<locked, phase, locals, order>>
  <2>1. PICK S : Mines(S)
    BY <1>8
  <2>2. Indexed' = Indexed
    BY <1>8, <2>1, MiningKeepsNode
  <2> QED BY <1>5, <1>8, <2>2 DEF IndexKept, locals
<1> QED BY <1>2, <1>4, <1>6, <1>7, <1>8 DEF Happens

(***************************************************************************)
(* The invariant of the wallet with the node and the index.                *)
(***************************************************************************)
WalletInvariant ==
  /\ NodeInvariant /\ Updater /\ IndexInvariant
  /\ OrderType /\ OrderRight
  /\ CommandRight /\ DraftRight

\* Under the invariant, every step is one of those the proofs go through.
LEMMA WalletHappens ==
  ASSUME WalletInvariant, [WalletNext]_walletVars
  PROVE  Happens
<1>1. DraftSendable
  BY DraftIsSendable DEF WalletInvariant, DraftSendable
<1> QED BY <1>1, WhatHappens DEF WalletInvariant

\* The index stays in step with the chain.
LEMMA IndexStays ==
  ASSUME WalletInvariant, Happens
  PROVE  IndexInvariant'
<1> USE DEF WalletInvariant
<1>1. CASE IndexBegin \/ IndexTake \/ IndexStep \/ IndexEnd
  BY <1>1, FollowingKeepsIndex
<1>2. CASE Command_ \/ SendFails \/ UNCHANGED walletVars
  <2>1. UNCHANGED vars /\ NodeKept
    BY <1>2, CommandKeeps DEF SendFails, IndexKept, NodeKept, walletVars, nodeVars
  <2> QED BY <2>1, IndexRests
<1>3. CASE \E t : /\ Sendable(t) /\ Sending(t) /\ t.mine = {}
                  /\ UNCHANGED <<locked, phase, locals, order>>
  BY <1>3, SendingKeepsIndex
<1>4. CASE SendOwn /\ Sendable(draft) /\ order = NoOrder
  <2>1. Sending(draft) /\ order.txid \notin DOMAIN txs /\ order'.txid = Len(txs) + 1
    BY <1>4, NoOrderIsNone DEF SendOwn, OrderType
  <2> QED BY <1>4, <2>1, SendingKeepsIndex
<1>5. CASE (\E S : Mines(S)) /\ IndexKept /\ UNCHANGED <<locked, phase, locals, order>>
  BY <1>5, MiningKeepsIndex
<1> QED BY <1>1, <1>2, <1>3, <1>4, <1>5 DEF Happens

\* No step breaks the invariant.
LEMMA WalletInvariantStays ==
  ASSUME WalletInvariant, [WalletNext]_walletVars
  PROVE  WalletInvariant'
<1>1. Happens
  BY WalletHappens
<1> USE DEF WalletInvariant
<1>2. TypeOK /\ TablesRight
  BY DEF Updater, UpdaterInvariant, IndexInvariant
<1>3. Growing
  BY <1>1, <1>2, StepsGrow
<1>4. Updater' /\ IndexInvariant' /\ OrderType' /\ OrderRight' /\ DraftRight'
  BY <1>1, <1>2, UpdaterKept, IndexStays, OrderTypeStays, OrderStays, DraftStays
<1>5. CommandTypes'
  <2>1. CASE Command_
    BY <1>2, <2>1, CommandKeepsTypes DEF CommandRight
  <2>2. CASE ~Command_
    <3>1. UNCHANGED <<command, tip, read, readAt, chainEnd>> /\ (phase' = phase \/ (phase = "send" /\ phase' = "done"))
      BY <1>1, <2>2, LocalsElsewhere DEF Elsewhere, locals
    <3> QED BY <3>1 DEF CommandRight, CommandTypes, Steps, Kind
  <2> QED BY <2>1, <2>2
<1>6. MineSettled' /\ ListedRight' /\ KnownRight' /\ LockedRight'
  BY <1>1, <1>2, MineStaysSettled, ListedStays, KnownStays, LockedStays DEF CommandRight
<1>7. EndsCreated' /\ EndRight'
  BY <1>1, <1>2, EndStays DEF CommandRight
<1> QED BY <1>3, <1>4, <1>5, <1>6, <1>7 DEF CommandRight, Growing

\* The invariant holds at the start.
LEMMA WalletInvariantStarts == WalletInit => WalletInvariant
<1> SUFFICES ASSUME WalletInit PROVE WalletInvariant
  OBVIOUS
<1>1. NodeInvariant /\ IndexInvariant
  BY NodeInit, IndexInit
<1>2. Init /\ order = NoOrder /\ phase = "start" /\ command = NoCommand
  BY DEF WalletInit
<1>3. Updater
  <2>1. UpdaterInvariant
    BY <1>2, InitInvariant
  <2>2. LocalsFit /\ FiniteRows
    BY <1>2, FS_EmptySet DEF Init, LocalsFit, FiniteRows, Working, NoTx, NoArtifact, Edicts
  <2> QED BY <2>1, <2>2 DEF Updater
<1>4. OrderType /\ OrderRight
  <2>1. 0 \in Int /\ Zero \in [Rune -> Nat] /\ Zero \in [Rune -> Int]
    BY ZeroType DEF Zero
  <2> QED BY <1>2, <2>1 DEF OrderType, OrderRight, NoOrder
<1>5. CommandTypes
  <2>1. entries \in [Rune -> Entry] /\ read = entries /\ tip = 0 /\ readAt = {} /\ chainEnd = Nowhere
    BY <1>3 DEF WalletInit, Updater, UpdaterInvariant, TypeOK, TablesType
  <2>2. chainEnd \in [at : Outpoint, value : Nat]
    BY <2>1 DEF Nowhere, Missing, Outpoint
  <2> QED BY <1>2, <2>1, <2>2 DEF CommandTypes, Steps, Kind
<1>6. MineSettled /\ LockedRight /\ KnownRight
  BY <1>2 DEF WalletInit, MineSettled, LockedRight, AfterLock, KnownRight, NoCommand, Kind
<1>7. ListedRight
  BY <1>2, FS_EmptySet DEF WalletInit, ListedRight
<1>8. EndsCreated /\ EndRight
  BY <1>2 DEF WalletInit, Init, EndsCreated, EndRight, HasEnd, Nowhere
<1>9. DraftRight
  BY <1>2 DEF DraftRight, NoOrder
<1> QED BY <1>1, <1>3, <1>4, <1>5, <1>6, <1>7, <1>8, <1>9 DEF WalletInvariant, CommandRight

(***************************************************************************)
(* The wallet, the node and the index agree: nothing is spent twice, the   *)
(* rows of the index are of outputs that are not spent, what the wallet    *)
(* knows of its outputs holds until they are spent, and the transaction it *)
(* sends is the one it has computed from that.                             *)
(***************************************************************************)
THEOREM WalletAgrees == WalletSpec => []WalletInvariant
<1>1. WalletInvariant /\ [WalletNext]_walletVars => WalletInvariant'
  BY WalletInvariantStays
<1> QED BY <1>1, WalletInvariantStarts, PTL DEF WalletSpec

-----------------------------------------------------------------------------
(* The steps of index_runes, balance by balance. *)

\* What an edict to one output gives of a balance.
Gives(a, b) == IF a = 0 THEN b ELSE Smaller(a, b)
EdictView(e) ==
  /\ pc = "edicts" /\ pc' = "edicts" /\ cursor \in DOMAIN Edicts /\ cursor' = cursor + 1
  /\ lastId' = e.id /\ inputId' = inputId
  /\ UNCHANGED <<tables, tx, pending, entered, txBurned>>
  /\ unallocated'[e.id] = unallocated[e.id] - Gives(e.amount, unallocated[e.id])
  /\ converted'[e.id] = converted[e.id] + Excess(e.amount, unallocated[e.id])
  /\ allocated'[e.output][e.id]
       = allocated[e.output][e.id] + Gives(e.amount, unallocated[e.id])
  /\ allocatedConversion'[e.output][e.id]
       = allocatedConversion[e.output][e.id] + Excess(e.amount, unallocated[e.id])
  /\ \A r \in Rune : r # e.id => unallocated'[r] = unallocated[r] /\ converted'[r] = converted[r]
  /\ \A v \in Vouts : \A r \in Rune : r # e.id \/ v # e.output =>
       /\ allocated'[v][r] = allocated[v][r]
       /\ allocatedConversion'[v][r] = allocatedConversion[v][r]

\* An edict to one output, of a rune that may have no entry.
LEMMA EdictStep ==
  ASSUME Updater, HandsRight, ApplyEdict, NEW e \in Edict, e = Edicts[cursor], e.output \in Vouts
  PROVE  EdictView(e)
<1>1. ~ToEach(e)
  <2>1. e.output \in 1..Len(tx.outputs) /\ Len(tx.outputs) \in Nat
    BY OutputsType DEF Vouts, Updater, UpdaterInvariant, TypeOK, TransactionType
  <2> QED BY <2>1 DEF ToEach
<1>2. /\ unallocated \in [Rune -> Nat] /\ converted \in [Rune -> Nat]
      /\ allocated \in [Vouts -> [Rune -> Nat]] /\ allocatedConversion \in [Vouts -> [Rune -> Nat]]
  BY DEF Updater, UpdaterInvariant, TypeOK, TransactionType
<1>3. e.id \in Rune /\ e.amount \in Nat /\ unallocated[e.id] \in Nat
  BY <1>2 DEF Edict
<1>4. e.id \notin entered => unallocated[e.id] = 0
  BY <1>3 DEF HandsRight, HandsEntered, ApplyEdict
<1>5. PICK effect : effect = Effect(e)
  OBVIOUS
<1>6. PICK give, excess : give = Gives(e.amount, unallocated[e.id])
                          /\ excess = Excess(e.amount, unallocated[e.id])
  OBVIOUS
<1>7. /\ effect.given = give /\ effect.wanted = excess
      /\ \A v \in Vouts : /\ effect.give[v] = IF v = e.output THEN give ELSE 0
                          /\ effect.want[v] = IF v = e.output THEN excess ELSE 0
  <2>1. CASE e.id \notin entered
    <3>1. effect = [give |-> Nothing, given |-> 0,
                    want |-> [v \in Vouts |-> IF v \in {e.output} THEN e.amount ELSE 0],
                    wanted |-> e.amount]
      BY <1>1, <1>5, <2>1 DEF Effect, UnheldEffect
    <3>2. give = 0 /\ excess = e.amount
      BY <1>3, <1>4, <1>6, <2>1 DEF Gives, Excess, Smaller
    <3> QED BY <3>1, <3>2 DEF Nothing
  <2>2. CASE e.id \in entered
    <3>1. effect = SingleEffect(e, unallocated[e.id])
      BY <1>1, <1>5, <2>2 DEF Effect
    <3>2. effect = [give |-> [Nothing EXCEPT ![e.output] = give], given |-> give,
                    want |-> [Nothing EXCEPT ![e.output] = excess], wanted |-> excess]
      BY <1>6, <3>1 DEF SingleEffect, Gives
    <3> QED BY <3>2 DEF Nothing
  <2> QED BY <2>1, <2>2
<1>8. /\ unallocated' = [unallocated EXCEPT ![e.id] = @ - effect.given]
      /\ converted' = [converted EXCEPT ![e.id] = @ + effect.wanted]
      /\ allocated' = [v \in Vouts |-> [allocated[v] EXCEPT ![e.id] = @ + effect.give[v]]]
      /\ allocatedConversion'
           = [v \in Vouts |-> [allocatedConversion[v] EXCEPT ![e.id] = @ + effect.want[v]]]
      /\ pc = "edicts" /\ pc' = "edicts" /\ cursor \in DOMAIN Edicts /\ cursor' = cursor + 1
      /\ lastId' = e.id /\ inputId' = inputId
      /\ UNCHANGED <<tables, tx, pending, entered, txBurned>>
  BY <1>5 DEF ApplyEdict
<1>9. give \in Int /\ excess \in Int
  BY <1>3, <1>6 DEF Gives, Excess, Smaller
<1>10. /\ unallocated'[e.id] = unallocated[e.id] - give /\ converted'[e.id] = converted[e.id] + excess
       /\ \A r \in Rune : r # e.id => unallocated'[r] = unallocated[r] /\ converted'[r] = converted[r]
  BY <1>2, <1>3, <1>7, <1>8
<1>11. ASSUME NEW v \in Vouts, NEW r \in Rune
       PROVE  /\ allocated'[v][r] = IF r = e.id /\ v = e.output THEN allocated[v][r] + give ELSE allocated[v][r]
              /\ allocatedConversion'[v][r] = IF r = e.id /\ v = e.output
                                              THEN allocatedConversion[v][r] + excess
                                              ELSE allocatedConversion[v][r]
  <2>1. /\ allocated'[v] = [allocated[v] EXCEPT ![e.id] = @ + effect.give[v]]
        /\ allocatedConversion'[v] = [allocatedConversion[v] EXCEPT ![e.id] = @ + effect.want[v]]
    BY <1>8
  <2>2. allocated[v] \in [Rune -> Nat] /\ allocatedConversion[v] \in [Rune -> Nat]
    BY <1>2
  <2> QED BY <1>3, <1>7, <1>9, <2>1, <2>2
<1> QED BY <1>3, <1>6, <1>8, <1>10, <1>11 DEF EdictView

\* What the edicts have left over goes to one output.
RestView(d) ==
  /\ pc = "edicts" /\ pc' = "burn" /\ cursor \notin DOMAIN Edicts /\ cursor' = 1
  /\ UNCHANGED <<tables, tx, pending, txBurned, conversion>>
  /\ \A v \in Vouts : \A r \in Rune :
       allocated'[v][r] = IF v = d THEN allocated[v][r] + unallocated[r] ELSE allocated[v][r]

\* What is left goes to the one default output, or is burned.
LEMMA RestStep ==
  ASSUME Updater, AllocateRest \/ BurnRest, NEW d \in Vouts, DefaultOutputs = {d},
         tx.artifact.kind # "cenotaph"
  PROVE  RestView(d)
<1>1. AllocateRest
  BY DEF BurnRest
<1>2. allocated' = [v \in Vouts |-> IF v \in {d} THEN [r \in Rune |-> allocated[v][r] + unallocated[r]]
                                                ELSE allocated[v]]
  BY <1>1 DEF AllocateRest
<1>3. \A v \in Vouts : \A r \in Rune :
        allocated'[v][r] = IF v = d THEN allocated[v][r] + unallocated[r] ELSE allocated[v][r]
  BY <1>2
<1> QED BY <1>1, <1>3 DEF AllocateRest, AfterEdicts, RestView

\* The only output that can be burned is b.
BurnView(b) ==
  /\ pc = "burn" /\ pc' = "burn" /\ cursor \in Vouts /\ cursor' = cursor + 1
  /\ UNCHANGED <<tables, tx, pending, conversion>>
  /\ \A v \in Vouts : v # b \/ cursor # b => allocated'[v] = allocated[v]
  /\ cursor = b => /\ allocated'[b] = Zero
                   /\ \A r \in Rune : txBurned'[r] = txBurned[r] + allocated[b][r]
  /\ cursor # b => txBurned' = txBurned

\* What an OP_RETURN was given is burned.
LEMMA BurnStep ==
  ASSUME Updater, BurnOutput, NEW b, IsOpReturn(cursor) <=> cursor = b
  PROVE  BurnView(b)
<1>1. allocated \in [Vouts -> [Rune -> Nat]]
  BY DEF Updater, UpdaterInvariant, TypeOK, TransactionType
<1>2. CASE cursor = b
  <2>1. /\ txBurned' = [r \in Rune |-> txBurned[r] + allocated[cursor][r]]
        /\ allocated' = [allocated EXCEPT ![cursor] = Zero] /\ cursor \in Vouts
    BY <1>2 DEF BurnOutput
  <2> QED BY <1>1, <1>2, <2>1 DEF BurnOutput, BurnView
<1>3. CASE cursor # b
  BY <1>3 DEF BurnOutput, BurnView
<1> QED BY <1>2, <1>3

\* A conversion that is accepted gives every output at least what it wants.
ConvertView ==
  /\ pc = "convert" /\ pc' = "return" /\ inputId \in Rune
  /\ UNCHANGED <<balances, tx, pending, cursor, conversion>>
  /\ Acceptable /\ Connected
  /\ \A v \in Vouts : \A r \in Rune : allocated'[v][r] >= allocated[v][r]
  /\ \A v \in Vouts : allocated'[v][Other(inputId)]
                        >= allocated[v][Other(inputId)] + allocatedConversion[v][Other(inputId)]

\* A conversion gives each output no less than it had and was promised.
LEMMA ConvertStep ==
  ASSUME Updater, ConvertExactInput \/ ConvertExactOutput
  PROVE  ConvertView
<1> DEFINE out == Other(inputId)
<1>1. /\ pc = "convert" /\ pc' = "return" /\ Acceptable /\ Connected
      /\ UNCHANGED <<balances, tx, pending, cursor, conversion>>
  BY DEF ConvertExactInput, ConvertExactOutput
<1>2. inputId \in Rune /\ out \in Rune
  BY <1>1 DEF Updater, UpdaterInvariant, ConversionFound, Other, Rune
<1>3. /\ allocated \in [Vouts -> [Rune -> Nat]] /\ allocatedConversion \in [Vouts -> [Rune -> Nat]]
      /\ converted \in [Rune -> Nat]
  BY DEF Updater, UpdaterInvariant, TypeOK, TransactionType
<1> HIDE DEF out
<1>4. CASE ConvertExactInput
  <2>1. PICK residual : residual = AmountOut - converted[out]
    OBVIOUS
  <2>2. /\ ExactInput /\ Acceptable
        /\ allocated' = [v \in Vouts |->
                 IF v \in Takers
                 THEN [allocated[v] EXCEPT
                         ![out] = @ + allocatedConversion[v][out]
                                    + (IF v = Min(Takers) THEN residual ELSE 0)]
                 ELSE allocated[v]]
    BY <1>4, <2>1 DEF ConvertExactInput, out
  <2>3. AmountOut \in Nat
    BY <1>2, AmountsType DEF Updater, UpdaterInvariant
  <2>4. residual \in Int /\ residual >= 0
    BY <1>2, <1>3, <2>1, <2>2, <2>3 DEF Acceptable, WantedOut, out
  <2>5. ASSUME NEW v \in Vouts, NEW r \in Rune
        PROVE  /\ allocated'[v][r] >= allocated[v][r]
               /\ allocated'[v][out] >= allocated[v][out] + allocatedConversion[v][out]
    <3>1. allocated[v] \in [Rune -> Nat] /\ allocatedConversion[v][out] \in Nat
      BY <1>2, <1>3
    <3>2. CASE v \in Takers
      <4>1. PICK e : e = (IF v = Min(Takers) THEN residual ELSE 0)
        OBVIOUS
      <4>2. allocated'[v] = [allocated[v] EXCEPT ![out] = @ + allocatedConversion[v][out] + e]
        BY <2>2, <3>2, <4>1
      <4>3. e \in Int /\ e >= 0
        BY <2>4, <4>1
      <4>4. /\ allocated'[v][out] = allocated[v][out] + allocatedConversion[v][out] + e
            /\ r # out => allocated'[v][r] = allocated[v][r]
        BY <1>2, <3>1, <4>2
      <4>5. allocated[v][out] \in Nat /\ allocated[v][r] \in Nat
        BY <1>2, <3>1
      <4> QED BY <3>1, <4>3, <4>4, <4>5
    <3>3. CASE v \notin Takers
      <4>1. allocated'[v] = allocated[v] /\ allocatedConversion[v][out] = 0
        BY <2>2, <3>1, <3>3 DEF Takers, out
      <4>2. allocated[v][out] \in Nat /\ allocated[v][r] \in Nat
        BY <1>2, <3>1
      <4> QED BY <4>1, <4>2
    <3> QED BY <3>2, <3>3
  <2> QED BY <1>1, <1>2, <2>5 DEF ConvertView, out
<1>5. CASE ConvertExactOutput
  <2>1. allocated' = [v \in Vouts |-> [allocated[v] EXCEPT ![out] = @ + allocatedConversion[v][out]]]
    BY <1>5 DEF ConvertExactOutput, out
  <2>2. ASSUME NEW v \in Vouts, NEW r \in Rune
        PROVE  /\ allocated'[v][r] >= allocated[v][r]
               /\ allocated'[v][out] >= allocated[v][out] + allocatedConversion[v][out]
    <3>1. allocated[v] \in [Rune -> Nat] /\ allocatedConversion[v][out] \in Nat
      BY <1>2, <1>3
    <3>2. allocated'[v] = [allocated[v] EXCEPT ![out] = @ + allocatedConversion[v][out]]
      BY <2>1
    <3> QED BY <1>2, <3>1, <3>2
  <2> QED BY <1>1, <1>2, <2>2 DEF ConvertView, out
<1> QED BY <1>4, <1>5

\* What is not converted goes to one output.
ReturnView(d) ==
  /\ pc = "return" /\ pc' = "store" /\ UNCHANGED <<balances, tx, pending, cursor, conversion>>
  /\ \A v \in Vouts : \A r \in Rune : v # d \/ r # inputId => allocated'[v][r] = allocated[v][r]
  /\ allocated'[d][inputId] = allocated[d][inputId] + txBurned[inputId]

\* What a conversion did not use of its input goes to the one return output.
LEMMA ReturnStep ==
  ASSUME Updater, ReturnInput, inputId \in Rune, NEW d \in Vouts, ReturnOutputs = {d}
  PROVE  ReturnView(d)
<1>1. allocated \in [Vouts -> [Rune -> Nat]] /\ txBurned[inputId] \in Nat
  BY DEF Updater, UpdaterInvariant, TypeOK, TransactionType
<1>2. CASE txBurned[inputId] > 0
  <2>1. allocated' = [v \in Vouts |->
                        IF v \in {d} THEN [allocated[v] EXCEPT ![inputId] = @ + txBurned[inputId]]
                        ELSE allocated[v]]
    BY <1>2 DEF ReturnInput
  <2>2. ASSUME NEW v \in Vouts, NEW r \in Rune
        PROVE  allocated'[v][r] = IF v = d /\ r = inputId THEN allocated[v][r] + txBurned[inputId]
                                  ELSE allocated[v][r]
    BY <1>1, <2>1
  <2>3. UNCHANGED <<balances, tx, pending, cursor, conversion>> /\ pc = "return" /\ pc' = "store"
    BY DEF ReturnInput, tables, conversion
  <2> QED BY <1>1, <2>2, <2>3 DEF ReturnView
<1>3. CASE ~(txBurned[inputId] > 0)
  BY <1>1, <1>3 DEF ReturnInput, ReturnView, tables, conversion
<1> QED BY <1>2, <1>3

\* The return takes from no output.
LEMMA ReturnGrows ==
  ASSUME Updater, ReturnInput, inputId \in Rune
  PROVE  /\ pc = "return" /\ pc' = "store" /\ UNCHANGED <<balances, tx, pending, cursor, conversion>>
         /\ \A v \in Vouts : \A r \in Rune : allocated'[v][r] >= allocated[v][r]
<1>1. allocated \in [Vouts -> [Rune -> Nat]] /\ txBurned[inputId] \in Nat
  BY DEF Updater, UpdaterInvariant, TypeOK, TransactionType
<1>2. \/ allocated' = allocated
      \/ allocated' = [v \in Vouts |->
                        IF v \in ReturnOutputs THEN [allocated[v] EXCEPT ![inputId] = @ + txBurned[inputId]]
                        ELSE allocated[v]]
  BY DEF ReturnInput
<1>3. ASSUME NEW v \in Vouts, NEW r \in Rune PROVE allocated'[v][r] >= allocated[v][r]
  <2>1. allocated[v] \in [Rune -> Nat]
    BY <1>1
  <2>2. allocated'[v] = allocated[v] \/ allocated'[v] = [allocated[v] EXCEPT ![inputId] = @ + txBurned[inputId]]
    BY <1>2
  <2>3. allocated[v][r] \in Nat /\ allocated[v][inputId] \in Nat
    BY <2>1
  <2>4. CASE allocated'[v] = [allocated[v] EXCEPT ![inputId] = @ + txBurned[inputId]]
    <3>1. CASE r = inputId
      <4>1. allocated'[v][r] = allocated[v][r] + txBurned[inputId]
        BY <2>1, <2>4, <3>1
      <4> QED BY <1>1, <2>3, <4>1
    <3>2. CASE r # inputId
      BY <2>1, <2>3, <2>4, <3>2
    <3> QED BY <3>1, <3>2
  <2> QED BY <2>2, <2>3, <2>4
<1> QED BY <1>3 DEF ReturnInput, tables, conversion

-----------------------------------------------------------------------------
(* The wallet's transaction, while it is indexed. *)

OwnRun == order.status = "sent" /\ Working /\ tx.txid = order.txid

\* It is taken, a step of index_runes is made on it, and it is done with.
OwnTake ==
  /\ IndexTake /\ order.status = "sent" /\ order.txid = Head(block)
  /\ UNCHANGED <<txs, phase, locals>>
  /\ order'.had = WalletHas /\ order'.end = Held(chainEnd.at) /\ order'.at = height
  /\ order'.converted = order.converted /\ order'.txid = order.txid
OwnStep ==
  /\ OwnRun /\ IndexRunes /\ RunesFrames /\ tx' = tx /\ ~FinishTransaction
  /\ UNCHANGED <<txs, phase, locals>>
  /\ order'.had = order.had /\ order'.end = order.end /\ order'.at = order.at
  /\ order'.converted = (order.converted \/ (pc = "convert" /\ Acceptable /\ Connected))
  /\ order'.txid = order.txid
OwnFinish ==
  /\ OwnRun /\ FinishTransaction
  /\ UNCHANGED <<txs, phase, locals>>
  /\ order'.got = [r \in Rune |-> WalletHas[r] - order.had[r]]
  /\ order'.had = order.had /\ order'.end = order.end /\ order'.at = order.at
  /\ order'.converted = order.converted
OwnRests == OwnRun /\ UNCHANGED <<vars, txs, phase, locals, order>>
OwnOver == order.status = "indexed" /\ UNCHANGED <<locals, order>>
OwnView ==
  /\ OwnRun' => OwnTake \/ OwnStep \/ OwnRests
  /\ order'.status = "indexed" => OwnFinish \/ OwnOver

\* The steps of the index that are about it.
LEMMA OwnFollows ==
  ASSUME WalletInvariant, IndexBegin \/ IndexTake \/ IndexStep \/ IndexEnd
  PROVE  OwnView
<1>1. UNCHANGED <<txs, mempool, unspent, locked, sentBy, phase, locals>> /\ order'.txid = order.txid
  BY IndexKeeps DEF WalletInvariant
<1>2. CASE IndexBegin \/ IndexEnd
  <2>1. ~Working' /\ order' = order
    BY <1>2 DEF IndexBegin, IndexEnd, BeginBlock, EndBlock, Working
  <2> QED BY <1>1, <2>1 DEF OwnView, OwnRun, OwnOver
<1>3. CASE IndexTake
  <2>1. /\ Head(block) \notin Indexed /\ tx'.txid = Head(block) /\ pc = "block"
    BY <1>3, TakeFacts DEF WalletInvariant, Updater, UpdaterInvariant
  <2>2. CASE order.txid = Head(block)
    <3>1. order.status # "indexed"
      BY <2>1, <2>2 DEF WalletInvariant, OrderRight, Settled
    <3>2. PICK had, end : had = WalletHas /\ end = Held(chainEnd.at)
      OBVIOUS
    <3>3. order' = [order EXCEPT !.had = had, !.end = end, !.at = height]
      BY <1>3, <2>2, <3>2 DEF IndexTake
    <3>4. /\ order'.status = order.status /\ order'.had = had /\ order'.end = end /\ order'.at = height
          /\ order'.converted = order.converted
      BY <3>3 DEF WalletInvariant, OrderType
    <3> QED BY <1>1, <1>3, <2>2, <3>1, <3>2, <3>4 DEF OwnView, OwnTake, OwnRun
  <2>3. CASE order.txid # Head(block)
    <3>1. order' = order
      BY <1>3, <2>3 DEF IndexTake
    <3> QED BY <1>1, <2>1, <2>3, <3>1 DEF OwnView, OwnRun, OwnOver
  <2> QED BY <2>2, <2>3
<1>4. CASE IndexStep
  <2>1. RunesFrames /\ Working /\ IndexRunes
    BY <1>4, RunesStep DEF IndexStep, RunesFrames, Working
  <2>2. pc' = "block" <=> FinishTransaction
    BY <2>1 DEF RunesFrames, FinishTransaction
  <2>3. CASE order.txid # tx.txid
    <3>1. order' = order
      BY <1>4, <2>3 DEF IndexStep
    <3>2. ~Working' \/ tx' = tx
      BY <2>1 DEF RunesFrames, FinishTransaction, Working
    <3> QED BY <1>1, <2>3, <3>1, <3>2 DEF OwnView, OwnRun, OwnOver
  <2>4. CASE order.txid = tx.txid /\ ~FinishTransaction
    <3>1. PICK c : c = (order.converted \/ (pc = "convert" /\ Acceptable /\ Connected))
      OBVIOUS
    <3>2. order' = [order EXCEPT !.converted = c]
      BY <1>4, <2>2, <2>4, <3>1 DEF IndexStep
    <3>3. /\ order'.status = order.status /\ order'.had = order.had /\ order'.end = order.end
          /\ order'.at = order.at /\ order'.converted = c
      BY <3>2 DEF WalletInvariant, OrderType
    <3>4. order.status # "indexed"
      BY <2>1, <2>4 DEF WalletInvariant, OrderRight, Settled
    <3>5. tx' = tx
      BY <2>1, <2>4 DEF RunesFrames
    <3> QED BY <1>1, <2>1, <2>4, <3>1, <3>3, <3>4, <3>5 DEF OwnView, OwnRun, OwnStep
  <2>5. CASE order.txid = tx.txid /\ FinishTransaction
    <3>1. PICK got : got = [r \in Rune |-> WalletHas[r] - order.had[r]]
      OBVIOUS
    <3>2. order' = [order EXCEPT !.status = "indexed", !.got = got]
      BY <1>4, <2>2, <2>5, <3>1 DEF IndexStep
    <3>3. /\ order'.status = "indexed" /\ order'.had = order.had /\ order'.end = order.end
          /\ order'.at = order.at /\ order'.converted = order.converted /\ order'.got = got
      BY <3>2 DEF WalletInvariant, OrderType
    <3>4. order.status = "sent"
      <4>1. tx.txid \in Indexed /\ tx.txid \in DOMAIN txs
        BY <2>1 DEF WalletInvariant, IndexInvariant, TablesRight, TxRight, Indexed, Mined
      <4> QED BY <2>1, <2>5, <4>1, NoOrderIsNone DEF WalletInvariant, OrderRight, Settled, OrderType
    <3> QED BY <1>1, <2>1, <2>5, <3>1, <3>3, <3>4 DEF OwnView, OwnRun, OwnFinish
  <2> QED BY <2>3, <2>4, <2>5
<1> QED BY <1>2, <1>3, <1>4

\* All steps.
LEMMA OwnSteps ==
  ASSUME WalletInvariant, [WalletNext]_walletVars
  PROVE  OwnView
<1>1. Happens
  BY WalletHappens
<1>2. CASE Command_ \/ SendFails
  <2>1. phase # "done" /\ order' = order
    <3>1. CASE Command_
      BY <3>1, CommandMoves, CommandKeeps DEF PhaseMoves
    <3>2. CASE SendFails
      BY <3>2 DEF SendFails
    <3> QED BY <1>2, <3>1, <3>2
  <2>2. order.status = "none"
    BY <2>1 DEF WalletInvariant, OrderRight
  <2> QED BY <2>1, <2>2 DEF OwnView, OwnRun
<1>3. CASE SendOwn
  <2>1. pc = "idle" /\ pc' = pc /\ order' = [order EXCEPT !.status = "sent", !.txid = Len(txs) + 1]
    BY <1>3 DEF SendOwn, Sending, IndexKept, vars
  <2>2. order'.status = "sent" /\ ~Working'
    BY <2>1 DEF WalletInvariant, OrderType, Working
  <2> QED BY <2>2 DEF OwnView, OwnRun
<1>4. CASE IndexKept /\ UNCHANGED <<locked, phase, locals, order>>
  <2>1. ~Working'
    BY <1>4 DEF IndexKept, Working, vars
  <2> QED BY <1>4, <2>1 DEF OwnView, OwnRun, OwnOver
<1>5. CASE UNCHANGED walletVars
  <2>1. UNCHANGED <<vars, txs, phase, locals, order>> /\ (OwnRun' <=> OwnRun)
    BY <1>5 DEF walletVars, nodeVars, commandVars, OwnRun, Working, vars
  <2> QED BY <2>1 DEF OwnView, OwnRests, OwnOver
<1> QED BY <1>1, <1>2, <1>3, <1>4, <1>5, OwnFollows DEF Happens, Sending

\* A conversion is accepted once, in the run.
OwnFresh == order.status = "sent" /\ ~(OwnRun /\ pc \in {"return", "store"}) => ~order.converted

\* The order is not called converted before its conversion is.
LEMMA OwnFreshStays ==
  ASSUME WalletInvariant, OwnFresh, [WalletNext]_walletVars
  PROVE  OwnFresh'
<1> SUFFICES ASSUME order'.status = "sent", ~(OwnRun' /\ pc' \in {"return", "store"})
             PROVE  ~order'.converted
  BY DEF OwnFresh
<1>1. Happens
  BY WalletHappens
<1>2. CASE Command_ \/ SendFails
  <2>1. phase # "done" /\ order' = order
    <3>1. CASE Command_
      BY <3>1, CommandMoves, CommandKeeps DEF PhaseMoves
    <3>2. CASE SendFails
      BY <3>2 DEF SendFails
    <3> QED BY <1>2, <3>1, <3>2
  <2> QED BY <2>1 DEF WalletInvariant, OrderRight
<1>3. CASE SendOwn /\ order = NoOrder
  BY <1>3 DEF SendOwn, NoOrder
<1>4. CASE IndexKept /\ order' = order
  <2>1. ~OwnRun
    BY <1>4 DEF IndexKept, Working, OwnRun
  <2> QED BY <1>4, <2>1 DEF OwnFresh
<1>5. CASE IndexBegin \/ IndexEnd
  <2>1. ~Working /\ order' = order
    BY <1>5 DEF IndexBegin, IndexEnd, BeginBlock, EndBlock, Working
  <2> QED BY <2>1 DEF OwnFresh, OwnRun
<1>6. CASE IndexTake
  <2>1. pc = "block"
    BY <1>6 DEF IndexTake, Take
  <2>2. order'.converted = order.converted /\ order'.status = order.status
    BY <1>6 DEF IndexTake, WalletInvariant, OrderType
  <2> QED BY <2>1, <2>2 DEF OwnFresh, OwnRun, Working
<1>7. CASE IndexStep
  <2>1. RunesFrames /\ Working /\ IndexRunes
    BY <1>7, RunesStep DEF IndexStep, RunesFrames, Working
  <2>2. CASE order.txid # tx.txid
    <3>1. order' = order
      BY <1>7, <2>2 DEF IndexStep
    <3> QED BY <2>2, <3>1 DEF OwnFresh, OwnRun
  <2>3. CASE order.txid = tx.txid /\ pc' = "block"
    BY <1>7, <2>3 DEF IndexStep, WalletInvariant, OrderType
  <2>4. CASE order.txid = tx.txid /\ pc' # "block"
    <3>1. PICK c : c = (order.converted \/ (pc = "convert" /\ Acceptable /\ Connected))
      OBVIOUS
    <3>2. order' = [order EXCEPT !.converted = c]
      BY <1>7, <2>4, <3>1 DEF IndexStep
    <3>3. order'.status = order.status /\ order'.converted = c /\ order'.txid = order.txid
      BY <3>2 DEF WalletInvariant, OrderType
    <3>4. tx' = tx /\ Working'
      BY <2>1, <2>4 DEF RunesFrames, Working, FinishTransaction
    <3>5. OwnRun /\ OwnRun'
      BY <2>1, <2>4, <3>3, <3>4 DEF OwnRun
    <3>6. pc' \notin {"return", "store"}
      BY <3>5
    <3>7. pc \notin {"return", "store", "convert"}
      BY <2>1, <2>4, <3>6 DEF IndexRunes, TakeInput, CreateOutpoints, MoveOutpoints, Mint, NoMint, ApplyEdict,
         OverflowEdict, AllocateRest, BurnRest, AfterEdicts, BurnOutput, DetectConversion, ConvertExactInput,
         ConvertExactOutput, RefuseConversion, ReturnInput, StoreOutput, FinishTransaction
    <3> QED BY <3>1, <3>3, <3>5, <3>7 DEF OwnFresh
  <2> QED BY <2>2, <2>3, <2>4
<1>8. CASE UNCHANGED walletVars
  <2>1. UNCHANGED <<vars, order>>
    BY <1>8 DEF walletVars
  <2> QED BY <2>1 DEF OwnFresh, OwnRun, Working, vars
<1>9. Sending(draft) => IndexKept
  BY DEF Sending
<1> QED BY <1>1, <1>2, <1>3, <1>4, <1>5, <1>6, <1>7, <1>8 DEF Happens, Sending

-----------------------------------------------------------------------------
(* The wallet's transaction: what it spends. *)

\* What it spends of the listed outputs, and what they held.
OwnInputs == draft.inputs \cap DOMAIN known
OwnIn(r) == Total(known, OwnInputs, r)
\* The end of the chain brings nothing.
Exact == order.end = Zero \/ Ends = {}

\* What it spends besides is the end of the chain.
OwnSpends ==
  /\ order.txid \in DOMAIN txs /\ txs[order.txid] = draft /\ phase = "done"
  /\ draft.inputs \subseteq Outpoint
  /\ Offered
  /\ Balances(known) /\ OwnInputs \subseteq DOMAIN known /\ IsFiniteSet(OwnInputs)
  /\ \A o \in OwnInputs : o \in Owned /\ o \in draft.inputs /\ ScriptOf(o) = "plain"
  /\ \A o \in draft.inputs \ OwnInputs : o \in Ends /\ o = chainEnd.at
  /\ \A o \in Ends : o \notin Owned
  /\ \A r \in Rune : OwnIn(r) = Total(known, Bare.inputs, r) /\ OwnIn(r) \in Nat

\* The known runes of the own inputs are those of the inputs that the index
\* takes.
LEMMA OwnSpending ==
  ASSUME WalletInvariant, order.status # "none"
  PROVE  OwnSpends
<1>1. order.txid \in DOMAIN txs /\ txs[order.txid] = draft /\ phase = "done"
  BY DEF WalletInvariant, OrderRight
<1>2. /\ NodeInvariant /\ CommandTypes /\ MineSettled /\ ListedRight /\ EndRight /\ DraftRight
  BY DEF WalletInvariant, CommandRight
<1>3. Offered
  BY <1>2 DEF DraftRight
<1>4. Bare \in Transaction /\ Ends \subseteq Outpoint /\ Bare.inputs \subseteq DOMAIN known
  BY <1>1, <1>2, <1>3, BareFacts
<1>5. PICK coin \in DOMAIN known : known[coin] = Zero /\ draft = Joined(Bare, coin, Ends)
  BY <1>2 DEF DraftRight
<1>6. DOMAIN known \subseteq listed /\ Balances(known)
  BY <1>2 DEF ListedRight, Balances
<1>7. coin \in Outpoint
  BY <1>2, <1>5, <1>6, ListedFacts
<1>8. draft.inputs = (Bare.inputs \cup {coin}) \cup Ends /\ draft \in Transaction
  <2>1. PICK t : t = Bare
    OBVIOUS
  <2>2. PICK ends : ends = Ends
    OBVIOUS
  <2>3. Joined(t, coin, ends) \in Transaction
        /\ Joined(t, coin, ends).inputs = (t.inputs \cup {coin}) \cup ends
    BY <1>4, <1>7, <2>1, <2>2, JoinedFacts
  <2> QED BY <1>5, <2>1, <2>2, <2>3
<1>9. \A o \in Ends : o \notin Owned /\ o = chainEnd.at
  <2> SUFFICES ASSUME NEW o \in Ends PROVE o \notin Owned /\ o = chainEnd.at
    OBVIOUS
  <2>1. HasEnd /\ o = chainEnd.at
    BY DEF Ends
  <2>2. ScriptOf(o) # "plain"
    BY <1>2, <2>1 DEF EndRight, EndOf
  <2> QED BY <1>2, <2>1, <2>2, OwnedFacts
<1>10. \A o \in OwnInputs : o \in Owned /\ ScriptOf(o) = "plain"
  BY <1>2, <1>6, ListedFacts DEF OwnInputs
<1>11. IsFiniteSet(OwnInputs) /\ OwnInputs \subseteq DOMAIN known
  BY <1>6, FS_Subset DEF OwnInputs, Balances
<1>12. draft.inputs \subseteq Outpoint
  BY <1>8 DEF Transaction
<1>13. ASSUME NEW r \in Rune PROVE OwnIn(r) = Total(known, Bare.inputs, r) /\ OwnIn(r) \in Nat
  <2>1. Bare.inputs \subseteq OwnInputs
    BY <1>4, <1>8 DEF OwnInputs
  <2>2. ASSUME NEW o \in OwnInputs \ Bare.inputs PROVE known[o][r] = 0
    <3>1. o = coin
      BY <1>8, <1>9, <1>10 DEF OwnInputs
    <3> QED BY <1>5, <3>1 DEF Zero
  <2>3. PICK K, B : K = OwnInputs /\ B = Bare.inputs
    OBVIOUS
  <2>4. \A x \in K : known[x][r] \in Nat
    BY <1>6, <1>11, <2>3 DEF Balances
  <2>5. Total(known, K, r) = Total(known, B, r)
    BY <1>11, <2>1, <2>2, <2>3, <2>4, TotalWithin
  <2>6. Total(known, K, r) \in Nat
    BY <1>11, <2>3, <2>4, TotalRemove
  <2> QED BY <2>3, <2>5, <2>6 DEF OwnIn
<1>14. \A o \in draft.inputs \ OwnInputs : o \in Ends /\ o = chainEnd.at
  BY <1>4, <1>8, <1>9 DEF OwnInputs
<1>15. \A o \in OwnInputs : o \in draft.inputs
  BY DEF OwnInputs
<1> QED BY <1>1, <1>3, <1>6, <1>9, <1>10, <1>11, <1>12, <1>13, <1>14, <1>15 DEF OwnSpends

\* An input is taken.
TakenView(o) ==
  \A r \in Rune : /\ WalletHas[r] = WalletHas'[r] + (IF o \in Owned THEN Held(o)[r] ELSE 0)
                  /\ unallocated'[r] = unallocated[r] + Held(o)[r]
                  /\ WalletHas'[r] \in Nat

\* Taking an input moves its runes from the wallet to the hand.
LEMMA InputTaken ==
  ASSUME TypeOK, FiniteRows, NEW o, TakeInput(o), txs' = txs
  PROVE  TakenView(o)
<1>1. Balances(balances) /\ unallocated \in [Rune -> Nat]
  BY WalletHasType DEF TypeOK, TransactionType
<1>2. Owned' = Owned
  BY DEF Owned, Mine
<1> SUFFICES ASSUME NEW r \in Rune
             PROVE  /\ WalletHas[r] = WalletHas'[r] + (IF o \in Owned THEN Held(o)[r] ELSE 0)
                    /\ unallocated'[r] = unallocated[r] + Held(o)[r]
                    /\ WalletHas'[r] \in Nat
  BY DEF TakenView
<1>3. PICK S : S = Owned \cap DOMAIN balances
  OBVIOUS
<1>4. /\ S \subseteq DOMAIN balances /\ IsFiniteSet(S) /\ \A x \in S : balances[x][r] \in Nat
      /\ WalletHas[r] = Total(balances, S, r)
  BY <1>1, <1>3, FS_Subset DEF Balances, WalletHas
<1>5. WalletHas'[r] = Total(balances', Owned \cap DOMAIN balances', r)
  BY <1>2 DEF WalletHas
<1>6. CASE o \notin DOMAIN balances
  <2>1. balances' = balances /\ unallocated' = unallocated
    BY <1>6 DEF TakeInput
  <2>2. Held(o)[r] = 0
    BY <1>6 DEF Held, Zero
  <2>3. WalletHas'[r] = WalletHas[r] /\ Total(balances, S, r) \in Nat
    BY <1>3, <1>4, <1>5, <2>1, TotalRemove
  <2>4. unallocated[r] \in Nat /\ WalletHas[r] \in Nat
    BY <1>1, <1>4, <2>3
  <2> QED BY <2>1, <2>2, <2>3, <2>4
<1>7. CASE o \in DOMAIN balances
  <2>1. /\ balances' = [p \in DOMAIN balances \ {o} |-> balances[p]]
        /\ unallocated' = [q \in Rune |-> unallocated[q] + balances[o][q]]
    BY <1>7 DEF TakeInput, WithoutRow
  <2>2. Held(o) = balances[o] /\ balances[o][r] \in Nat
    BY <1>1, <1>7 DEF Held, Balances
  <2>3. PICK U : U = S \ {o}
    OBVIOUS
  <2>4. Owned \cap DOMAIN balances' = U /\ IsFiniteSet(U) /\ \A x \in U : balances'[x][r] = balances[x][r]
    BY <1>3, <1>4, <2>1, <2>3, FS_Subset
  <2>5. Total(balances', U, r) = Total(balances, U, r)
    <3>1. PICK F, G : F = balances' /\ G = balances
      OBVIOUS
    <3>2. Total(F, U, r) = Total(G, U, r)
      BY <2>4, <3>1, TotalSame
    <3> QED BY <3>1, <3>2
  <2>6. Total(balances, U, r) \in Nat
    BY <1>4, <2>3, <2>4, TotalRemove
  <2>7. CASE o \in Owned
    <3>1. o \in S
      BY <1>3, <1>7, <2>7
    <3>2. Total(balances, S, r) = balances[o][r] + Total(balances, S \ {o}, r)
      BY <1>4, <3>1, TotalRemove
    <3>3. WalletHas'[r] = Total(balances, U, r) /\ WalletHas[r] = balances[o][r] + Total(balances, U, r)
      BY <1>4, <1>5, <2>3, <2>4, <2>5, <3>2
    <3>4. unallocated'[r] = unallocated[r] + Held(o)[r]
      BY <2>1, <2>2
    <3> QED BY <2>2, <2>6, <2>7, <3>3, <3>4
  <2>8. CASE o \notin Owned
    <3>1. U = S
      BY <1>3, <2>3, <2>8
    <3>2. WalletHas'[r] = Total(balances, U, r) /\ WalletHas[r] = Total(balances, U, r)
      BY <1>4, <1>5, <2>4, <2>5, <3>1
    <3>3. unallocated'[r] = unallocated[r] + Held(o)[r]
      BY <2>1, <2>2
    <3> QED BY <2>2, <2>6, <2>8, <3>2, <3>3
  <2> QED BY <2>7, <2>8
<1> QED BY <1>6, <1>7

(***************************************************************************)
(* While its inputs are taken, the wallet has what it had without those    *)
(* taken, and the transaction has what the wallet knew of them in hand, or *)
(* more when the end of the chain brings some; after that, the wallet has  *)
(* what it had without its inputs, until the outputs are stored.           *)
(***************************************************************************)
OwnTaking ==
  pc = "inputs" =>
    /\ \A o \in OwnInputs \cap pending : known[o] = Held(o)
    /\ \A o \in pending \ OwnInputs : Exact => Held(o) = Zero
    /\ \A r \in Rune :
         /\ WalletHas[r] + Total(known, OwnInputs \ pending, r) = order.had[r]
         /\ unallocated[r] >= Total(known, OwnInputs \ pending, r)
         /\ Exact => unallocated[r] = Total(known, OwnInputs \ pending, r)
OwnTaken ==
  pc = "mint" =>
    \A r \in Rune : unallocated[r] >= OwnIn(r) /\ (Exact => unallocated[r] = OwnIn(r))
OwnGone ==
  pc \in {"mint", "edicts", "burn", "convert", "return"} \/ (pc = "store" /\ cursor = 1) =>
    \A r \in Rune : WalletHas[r] + OwnIn(r) = order.had[r]
OwnStored == pc = "store" => cursor >= 1 /\ \A v \in Vouts : v < cursor => allocated[v] = Zero
Accounted == OwnRun => OwnTaking /\ OwnTaken /\ OwnGone /\ OwnStored

\* What stays the same while the command waits.
LEMMA OwnLocals ==
  ASSUME locals' = locals
  PROVE  /\ OwnInputs' = OwnInputs /\ Ends' = Ends /\ Bare' = Bare /\ known' = known /\ Kind' = Kind
         /\ draft' = draft /\ offer' = offer /\ command' = command /\ chainEnd' = chainEnd
         /\ HasEnd' = HasEnd /\ Limits' = Limits
         /\ \A r : (OwnIn(r))' = OwnIn(r)
<1>1. /\ known' = known /\ draft' = draft /\ offer' = offer /\ command' = command /\ chainEnd' = chainEnd
  BY DEF locals
<1>2. OwnInputs' = OwnInputs /\ Ends' = Ends /\ Kind' = Kind /\ HasEnd' = HasEnd /\ Limits' = Limits
  BY <1>1 DEF OwnInputs, Ends, HasEnd, Kind, Limits
<1>3. Bare' = Bare
  BY <1>1, <1>2 DEF Bare
<1>4. \A r : (OwnIn(r))' = OwnIn(r)
  BY <1>1, <1>2 DEF OwnIn
<1> QED BY <1>1, <1>2, <1>3, <1>4

\* It is taken with all its inputs that have a row.
LEMMA TakeAccounts ==
  ASSUME WalletInvariant, OwnTake
  PROVE  Accounted'
<1> DEFINE n == Head(block)
<1>1. OwnSpends
  BY OwnSpending DEF OwnTake
<1>2. /\ n \in DOMAIN txs /\ n \notin Indexed /\ pc = "block" /\ pc' = "inputs"
      /\ tx'.inputs = {u.at : u \in SpentNow} /\ tx'.inputs \subseteq txs[n].inputs
      /\ pending' = tx'.inputs /\ balances' = balances /\ unallocated' = unallocated
  <2>1. UNCHANGED <<tables, unallocated>>
    BY DEF OwnTake, IndexTake, Take
  <2> QED BY <2>1, TakeFacts DEF WalletInvariant, Updater, UpdaterInvariant, OwnTake, tables
<1>3. /\ OwnInputs' = OwnInputs /\ Ends' = Ends /\ known' = known /\ chainEnd' = chainEnd
      /\ Owned' = Owned /\ WalletHas' = WalletHas /\ \A o : Held(o)' = Held(o)
  BY <1>2, OwnLocals DEF OwnTake, Owned, Mine, WalletHas, Held
<1>4. /\ order'.had = WalletHas /\ order'.end = Held(chainEnd.at) /\ order.txid = n
  BY DEF OwnTake
<1>5. txs[n] = draft
  BY <1>1, <1>4 DEF OwnSpends
<1>6. ASSUME NEW o \in OwnInputs
      PROVE  known[o] = Held(o) /\ (o \notin pending' => Held(o) = Zero)
  <2>1. o \in txs[n].inputs /\ o \in DOMAIN known /\ o \in Owned /\ ScriptOf(o) = "plain"
    BY <1>1, <1>5 DEF OwnSpends
  <2>2. ~Spent(o)
    <3>1. SUFFICES ASSUME NEW m \in Indexed, o \in txs[m].inputs PROVE FALSE
      BY DEF Spent
    <3>2. m \in DOMAIN txs
      BY DEF Indexed, Mined
    <3>3. m = n
      BY <1>2, <2>1, <3>1, <3>2 DEF WalletInvariant, NodeInvariant, OneSpender
    <3> QED BY <1>2, <3>3
  <2>3. known[o] = Held(o)
    BY <2>1, <2>2 DEF WalletInvariant, CommandRight, KnownRight
  <2>4. ASSUME o \in DOMAIN balances PROVE o \in pending'
    <3>1. pending = {}
      BY <1>2 DEF WalletInvariant, IndexInvariant, HandsRight, HandsEntered
    <3>2. IsUnspent(o) /\ ~txs[o.txid].template.coinbase
      BY <2>4, <3>1 DEF WalletInvariant, IndexInvariant, TablesRight, RowsRight
    <3>3. PICK u \in utxos : u.at = o
      BY <3>2 DEF IsUnspent
    <3>4. u.script = "plain" /\ ~u.coinbase
      BY <2>1, <3>2, <3>3 DEF WalletInvariant, IndexInvariant, TablesRight, UtxosRight
    <3>5. u \in SpentNow
      BY <2>1, <2>4, <3>3, <3>4 DEF SpentNow, Spendable
    <3> QED BY <1>2, <3>3, <3>5
  <2> QED BY <2>3, <2>4 DEF Held
<1>7. ASSUME NEW o \in pending' \ OwnInputs, order'.end = Zero \/ Ends = {} PROVE Held(o) = Zero
  <2>1. o \in draft.inputs
    BY <1>2, <1>5
  <2>2. o \in Ends /\ o = chainEnd.at
    BY <1>1, <1>7, <2>1 DEF OwnSpends
  <2> QED BY <1>4, <1>7, <2>2
<1>8. ASSUME NEW r \in Rune
      PROVE  /\ Total(known, OwnInputs \ pending', r) = 0 /\ unallocated[r] = 0 /\ WalletHas[r] \in Nat
  <2>1. PICK U : U = OwnInputs \ pending'
    OBVIOUS
  <2>2. IsFiniteSet(U)
    BY <1>1, <2>1, FS_Subset DEF OwnSpends
  <2>3. \A x \in U : known[x][r] = 0
    BY <1>6, <2>1 DEF Zero
  <2>4. Total(known, U, r) = 0
    BY <2>2, <2>3, TotalZero
  <2>5. unallocated = Zero
    BY <1>2 DEF WalletInvariant, IndexInvariant, HandsRight, HandsEntered
  <2>6. WalletHas \in [Rune -> Nat]
    BY WalletHasType DEF WalletInvariant, Updater, UpdaterInvariant
  <2> QED BY <2>1, <2>4, <2>5, <2>6 DEF Zero
<1>9. OwnTaking'
  <2> SUFFICES /\ \A o \in OwnInputs' \cap pending' : known'[o] = Held(o)'
               /\ \A o \in pending' \ OwnInputs' : Exact' => Held(o)' = Zero
               /\ \A r \in Rune :
                    /\ WalletHas'[r] + Total(known', OwnInputs' \ pending', r) = order'.had[r]
                    /\ unallocated'[r] >= Total(known', OwnInputs' \ pending', r)
                    /\ Exact' => unallocated'[r] = Total(known', OwnInputs' \ pending', r)
    BY DEF OwnTaking
  <2>1. Exact' => order'.end = Zero \/ Ends = {}
    BY <1>3 DEF Exact
  <2> QED BY <1>2, <1>3, <1>4, <1>6, <1>7, <1>8, <2>1
<1> QED BY <1>2, <1>9 DEF Accounted, OwnTaken, OwnGone, OwnStored

\* An input is taken.
LEMMA InputAccounts ==
  ASSUME WalletInvariant, Accounted, OwnStep, NEW p \in pending, TakeInput(p)
  PROVE  Accounted'
<1>1. OwnSpends
  BY OwnSpending DEF OwnStep, OwnRun
<1>2. /\ pc = "inputs" /\ pc' = pc /\ pending' = pending \ {p}
      /\ OwnInputs' = OwnInputs /\ known' = known /\ Owned' = Owned
      /\ order'.had = order.had /\ Exact' = Exact
  BY OwnLocals DEF OwnStep, TakeInput, Owned, Mine, Exact
<1>3. OwnTaking /\ TypeOK /\ FiniteRows
  BY <1>2 DEF Accounted, OwnStep, WalletInvariant, Updater, UpdaterInvariant
<1>4. TakenView(p)
  BY <1>3, InputTaken DEF OwnStep
<1>5. \A o : o # p => Held(o)' = Held(o)
  BY <1>3, HeldChanges
<1>6. p \in draft.inputs
  <2>1. pending \subseteq txs[order.txid].inputs
    BY DEF OwnStep, OwnRun, WalletInvariant, IndexInvariant, TablesRight, TxRight
  <2> QED BY <1>1, <2>1 DEF OwnSpends
<1>7. Held(p) \in [Rune -> Nat]
  BY <1>3, HeldType
<1>8. ASSUME NEW r \in Rune
      PROVE  /\ WalletHas'[r] + Total(known, OwnInputs \ pending', r) = order.had[r]
             /\ unallocated'[r] >= Total(known, OwnInputs \ pending', r)
             /\ Exact => unallocated'[r] = Total(known, OwnInputs \ pending', r)
  <2>1. PICK U, T : U = OwnInputs \ pending /\ T = OwnInputs \ pending'
    OBVIOUS
  <2>2. IsFiniteSet(U) /\ IsFiniteSet(T) /\ \A x \in OwnInputs : known[x][r] \in Nat
    BY <1>1, <2>1, FS_Subset DEF OwnSpends, Balances
  <2>3. /\ Total(known, U, r) \in Nat /\ Total(known, T, r) \in Nat
    BY <2>1, <2>2, TotalRemove
  <2>4. /\ WalletHas[r] + Total(known, U, r) = order.had[r]
        /\ unallocated[r] >= Total(known, U, r)
        /\ Exact => unallocated[r] = Total(known, U, r)
    BY <1>2, <1>3, <2>1 DEF OwnTaking
  <2>5. /\ WalletHas[r] = WalletHas'[r] + (IF p \in Owned THEN Held(p)[r] ELSE 0)
        /\ unallocated'[r] = unallocated[r] + Held(p)[r]
        /\ WalletHas'[r] \in Nat
    BY <1>4 DEF TakenView
  <2>6. Held(p)[r] \in Nat /\ unallocated[r] \in Nat
    BY <1>3, <1>7 DEF TypeOK, TransactionType
  <2>7. CASE p \in OwnInputs
    <3>1. known[p] = Held(p) /\ p \in Owned
      BY <1>1, <1>2, <1>3, <2>7 DEF OwnTaking, OwnSpends
    <3>2. T = U \cup {p} /\ p \notin U
      BY <1>2, <2>1, <2>7
    <3>3. \A y \in U \cup {p} : known[y][r] \in Nat
      BY <2>1, <2>2, <2>7
    <3>4. Total(known, U \cup {p}, r) = known[p][r] + Total(known, U, r)
      <4>1. IsFiniteSet(U) /\ p \notin U
        BY <2>2, <3>2
      <4> QED BY <3>3, <4>1, TotalAdd, Zenon
    <3>5. /\ Total(known, T, r) = Held(p)[r] + Total(known, U, r)
          /\ WalletHas[r] = WalletHas'[r] + Held(p)[r]
      BY <2>5, <3>1, <3>2, <3>4
    <3> QED BY <2>1, <2>3, <2>4, <2>5, <2>6, <3>5
  <2>8. CASE p \notin OwnInputs
    <3>1. T = U /\ p \notin Owned
      BY <1>1, <1>2, <1>6, <2>1, <2>8 DEF OwnSpends
    <3>2. Exact => Held(p)[r] = 0
      BY <1>2, <1>3, <2>8 DEF OwnTaking, Zero
    <3>3. WalletHas'[r] = WalletHas[r]
      BY <2>5, <3>1
    <3> QED BY <2>1, <2>3, <2>4, <2>5, <2>6, <3>1, <3>2, <3>3
  <2> QED BY <2>7, <2>8
<1>9. OwnTaking'
  <2> SUFFICES /\ \A o \in OwnInputs' \cap pending' : known'[o] = Held(o)'
               /\ \A o \in pending' \ OwnInputs' : Exact' => Held(o)' = Zero
               /\ \A r \in Rune :
                    /\ WalletHas'[r] + Total(known', OwnInputs' \ pending', r) = order'.had[r]
                    /\ unallocated'[r] >= Total(known', OwnInputs' \ pending', r)
                    /\ Exact' => unallocated'[r] = Total(known', OwnInputs' \ pending', r)
    BY DEF OwnTaking
  <2>1. \A o \in OwnInputs \cap pending' : known[o] = Held(o)'
    BY <1>2, <1>3, <1>5 DEF OwnTaking
  <2>2. \A o \in pending' \ OwnInputs : Exact => Held(o)' = Zero
    BY <1>2, <1>3, <1>5 DEF OwnTaking
  <2> QED BY <1>2, <1>8, <2>1, <2>2
<1> QED BY <1>2, <1>9 DEF Accounted, OwnTaken, OwnGone, OwnStored

\* The other steps.
LEMMA OwnAccounts ==
  ASSUME WalletInvariant, Accounted, OwnStep, ~(\E o \in pending : TakeInput(o))
  PROVE  Accounted'
<1>1. OwnSpends /\ OwnRun
  BY OwnSpending DEF OwnStep, OwnRun
<1>2. RunesFrames /\ Working /\ tx' = tx /\ pc' # "inputs" /\ cursor \in Nat
  BY DEF OwnStep, RunesFrames, Working, WalletInvariant, Updater, UpdaterInvariant, TypeOK, TransactionType
<1>3. /\ OwnInputs' = OwnInputs /\ known' = known /\ Owned' = Owned
      /\ order'.had = order.had /\ Exact' = Exact /\ \A r : (OwnIn(r))' = OwnIn(r)
  BY OwnLocals DEF OwnStep, Owned, Mine, Exact
<1>4. OwnTaken'
  <2> SUFFICES ASSUME pc' = "mint"
               PROVE  \A r \in Rune : /\ unallocated'[r] >= (OwnIn(r))'
                                      /\ Exact' => unallocated'[r] = (OwnIn(r))'
    BY DEF OwnTaken
  <2>1. pc = "inputs" /\ pending = {} /\ unallocated' = unallocated
    BY <1>2 DEF RunesFrames, CreateOutpoints, MoveOutpoints, allocation
  <2>2. OwnInputs \ pending = OwnInputs
    BY <2>1
  <2> QED BY <1>1, <1>3, <2>1, <2>2 DEF Accounted, OwnTaking, OwnIn
<1>5. OwnGone'
  <2> SUFFICES ASSUME pc' \in {"mint", "edicts", "burn", "convert", "return"}
                      \/ (pc' = "store" /\ cursor' = 1)
               PROVE  \A r \in Rune : WalletHas'[r] + (OwnIn(r))' = order'.had[r]
    BY DEF OwnGone
  <2>1. ~StoreOutput
    <3> SUFFICES ASSUME StoreOutput PROVE FALSE
      OBVIOUS
    <3>1. pc = "store" /\ cursor \in Vouts /\ cursor' = cursor + 1 /\ pc' = pc
      BY DEF StoreOutput
    <3>2. cursor' = 1 /\ cursor >= 1
      <4>1. tx \in Tx
        BY DEF WalletInvariant, Updater, UpdaterInvariant, TypeOK, TransactionType
      <4>2. Vouts \subseteq Nat \ {0}
        BY <4>1, OutputsType
      <4> QED BY <1>2, <3>1, <4>2
    <3> QED BY <1>2, <3>1, <3>2
  <2>2. WalletHas' = WalletHas
    <3>1. balances' = balances
      BY <1>2, <2>1 DEF OwnStep, RunesFrames
    <3> QED BY <1>3, <3>1 DEF WalletHas
  <2>3. CASE pc = "inputs"
    <3>1. pc' = "mint" \/ \E o \in pending : TakeInput(o)
      BY <2>3 DEF OwnStep, IndexRunes, TakeInput, CreateOutpoints, MoveOutpoints, Mint, NoMint, ApplyEdict,
         OverflowEdict, AllocateRest, BurnRest, AfterEdicts, BurnOutput, DetectConversion, ConvertExactInput,
         ConvertExactOutput, RefuseConversion, ReturnInput, StoreOutput, FinishTransaction
    <3>2. pending = {} /\ OwnInputs \ pending = OwnInputs
      BY <1>2, <3>1 DEF RunesFrames, CreateOutpoints, MoveOutpoints
    <3> QED BY <1>1, <1>3, <2>2, <2>3, <3>2 DEF Accounted, OwnTaking, OwnIn
  <2>4. CASE pc \in {"mint", "edicts", "burn", "convert", "return"}
    BY <1>1, <1>3, <2>2, <2>4 DEF Accounted, OwnGone
  <2>5. CASE pc \notin {"inputs", "mint", "edicts", "burn", "convert", "return"}
    BY <2>1, <2>5 DEF OwnStep, IndexRunes, TakeInput, CreateOutpoints, MoveOutpoints, Mint, NoMint, ApplyEdict,
       OverflowEdict, AllocateRest, BurnRest, AfterEdicts, BurnOutput, DetectConversion, ConvertExactInput,
       ConvertExactOutput, RefuseConversion, ReturnInput, StoreOutput, FinishTransaction
  <2> QED BY <2>3, <2>4, <2>5
<1>6. OwnStored'
  <2> SUFFICES ASSUME pc' = "store"
               PROVE  cursor' >= 1 /\ \A v \in Vouts' : v < cursor' => allocated'[v] = Zero
    BY DEF OwnStored
  <2>1. Vouts' = Vouts
    BY <1>2 DEF Vouts
  <2>2. \A v \in Vouts : v \in Nat /\ v >= 1
    BY OutputsType DEF WalletInvariant, Updater, UpdaterInvariant, TypeOK, TransactionType
  <2>3. CASE DetectConversion \/ ReturnInput
    <3>1. cursor' = 1
      BY <2>3 DEF DetectConversion, ReturnInput, WalletInvariant, Updater, LocalsFit
    <3> QED BY <2>1, <2>2, <3>1
  <2>4. CASE StoreOutput
    <3>1. /\ pc = "store" /\ cursor' = cursor + 1 /\ allocated' = [allocated EXCEPT ![cursor] = Zero]
          /\ allocated \in [Vouts -> [Rune -> Nat]]
      BY <2>4 DEF StoreOutput, WalletInvariant, Updater, UpdaterInvariant, TypeOK, TransactionType
    <3>2. OwnStored
      BY <1>1 DEF Accounted
    <3>3. ASSUME NEW v \in Vouts, v < cursor' PROVE allocated'[v] = Zero
      <4>1. v = cursor \/ v < cursor
        BY <1>2, <2>2, <3>1, <3>3
      <4> QED BY <3>1, <3>2, <4>1 DEF OwnStored
    <3> QED BY <1>2, <2>1, <3>1, <3>2, <3>3 DEF OwnStored
  <2> QED BY <1>2, <2>3, <2>4 DEF RunesFrames
<1> QED BY <1>2, <1>4, <1>5, <1>6 DEF Accounted, OwnTaking

\* What the wallet holds is what it had, less its inputs, with what it was
\* given since.
LEMMA AccountedStays ==
  ASSUME WalletInvariant, Accounted, [WalletNext]_walletVars
  PROVE  Accounted'
<1>1. OwnView
  BY OwnSteps
<1>2. CASE OwnRests
  <2>1. /\ OwnInputs' = OwnInputs /\ known' = known /\ \A r : (OwnIn(r))' = OwnIn(r)
        /\ Owned' = Owned /\ Exact' = Exact /\ UNCHANGED <<vars, order>>
    BY <1>2, OwnLocals DEF OwnRests, Owned, Mine, Exact
  <2>2. UNCHANGED <<pc, pending, unallocated, balances, cursor, allocated, tx>>
    BY <2>1 DEF vars, tables, allocation
  <2>3. WalletHas' = WalletHas /\ Vouts' = Vouts /\ \A o : Held(o)' = Held(o)
    BY <2>1, <2>2 DEF WalletHas, Held, Vouts
  <2>4. OwnTaking' = OwnTaking
    BY <2>1, <2>2, <2>3 DEF OwnTaking
  <2>5. OwnTaken' = OwnTaken /\ OwnGone' = OwnGone /\ OwnStored' = OwnStored
    BY <2>1, <2>2, <2>3 DEF OwnTaken, OwnGone, OwnStored
  <2>6. OwnRun' = OwnRun
    BY <2>1, <2>2 DEF OwnRun, Working
  <2> QED BY <2>4, <2>5, <2>6 DEF Accounted
<1>3. CASE ~OwnRun'
  BY <1>3 DEF Accounted
<1> QED BY <1>1, <1>2, <1>3, TakeAccounts, InputAccounts, OwnAccounts DEF OwnView

-----------------------------------------------------------------------------
(* The wallet's transaction: what it gives. *)

\* What its outputs have been given, and what the wallet will have gained.
Given(r) == Total(allocated, draft.mine, r)
Due(r) == WalletHas[r] + Given(r) - order.had[r]

\* The transaction that is indexed is the draft.
OwnOutputs ==
  /\ tx.outputs = draft.template.outputs /\ tx.artifact = draft.template.artifact
  /\ tx.rbf = draft.template.rbf
  /\ Vouts \subseteq Nat \ {0} /\ IsFiniteSet(draft.mine) /\ draft.mine \subseteq Vouts
  /\ \A v \in draft.mine : tx.outputs[v].script = "plain"
  /\ allocated \in [Vouts -> [Rune -> Nat]]
  /\ \A v \in Nat : [txid |-> tx.txid, vout |-> v] \in Owned <=> v \in draft.mine

\* The outputs of the own transaction that the wallet owns.
LEMMA OwnShape ==
  ASSUME WalletInvariant, OwnRun
  PROVE  OwnOutputs
<1>1. OwnSpends
  BY OwnSpending DEF OwnRun
<1>2. txs[tx.txid] = draft /\ tx.txid \in DOMAIN txs
  BY <1>1 DEF OwnSpends, OwnRun
<1>3. /\ tx.outputs = draft.template.outputs /\ tx.artifact = draft.template.artifact
      /\ tx.rbf = draft.template.rbf
  BY <1>2 DEF OwnRun, WalletInvariant, IndexInvariant, TablesRight, TxRight
<1>4. tx \in Tx /\ allocated \in [Vouts -> [Rune -> Nat]]
  BY DEF WalletInvariant, Updater, UpdaterInvariant, TypeOK, TransactionType
<1>5. Vouts \subseteq Nat \ {0} /\ IsFiniteSet(Vouts)
  BY <1>4, OutputsType, FiniteOutputs
<1>6. \A v \in draft.mine : v \in DOMAIN tx.outputs /\ tx.outputs[v].script = "plain"
  BY <1>2, <1>3 DEF WalletInvariant, NodeInvariant, MinePlain
<1>7. DOMAIN tx.outputs = Vouts
  BY <1>4, LenProperties DEF Tx, Vouts
<1>8. draft.mine \subseteq Vouts /\ IsFiniteSet(draft.mine)
  BY <1>5, <1>6, <1>7, FS_Subset
<1>9. ASSUME NEW v \in Nat PROVE [txid |-> tx.txid, vout |-> v] \in Owned <=> v \in draft.mine
  <2>1. PICK o : o = [txid |-> tx.txid, vout |-> v]
    OBVIOUS
  <2>2. o.txid = tx.txid /\ o.vout = v
    BY <2>1
  <2>3. ASSUME o \in Owned PROVE v \in draft.mine
    <3>1. PICK n \in DOMAIN txs : o \in Mine(n)
      BY <2>3 DEF Owned
    <3>2. PICK w \in txs[n].mine : o = [txid |-> n, vout |-> w]
      BY <3>1 DEF Mine
    <3> QED BY <1>2, <2>2, <3>2
  <2>4. ASSUME v \in draft.mine PROVE o \in Owned
    <3>1. o \in Mine(tx.txid)
      BY <1>2, <2>1, <2>4 DEF Mine
    <3> QED BY <1>2, <3>1 DEF Owned
  <2> QED BY <2>1, <2>3, <2>4
<1> QED BY <1>3, <1>4, <1>5, <1>6, <1>8, <1>9 DEF OwnOutputs

\* What is due to the wallet is a number.
LEMMA DueType ==
  ASSUME WalletInvariant, OwnRun, NEW r \in Rune
  PROVE  WalletHas[r] \in Nat /\ Given(r) \in Nat /\ order.had[r] \in Nat /\ Due(r) \in Int
<1>1. WalletHas[r] \in Nat /\ order.had[r] \in Nat
  BY WalletHasType DEF WalletInvariant, Updater, UpdaterInvariant, OrderType
<1>2. PICK F, M : F = allocated /\ M = draft.mine
  OBVIOUS
<1>3. IsFiniteSet(M) /\ \A v \in M : F[v][r] \in Nat
  BY <1>2, OwnShape DEF OwnOutputs
<1>4. Total(F, M, r) \in Nat
  BY <1>3, TotalRemove
<1> QED BY <1>1, <1>2, <1>4 DEF Given, Due

\* Before anything is stored.
LEMMA DueBefore ==
  ASSUME WalletInvariant, Accounted, OwnRun,
         pc \in {"mint", "edicts", "burn", "convert", "return"} \/ (pc = "store" /\ cursor = 1),
         NEW r \in Rune
  PROVE  Due(r) = Given(r) - OwnIn(r) /\ Given(r) \in Nat /\ OwnIn(r) \in Nat
<1>1. WalletHas[r] + OwnIn(r) = order.had[r]
  BY DEF Accounted, OwnGone
<1>2. OwnIn(r) \in Nat
  BY OwnSpending DEF OwnSpends, OwnRun
<1>3. WalletHas[r] \in Nat /\ Given(r) \in Nat
  BY DueType
<1> QED BY <1>1, <1>2, <1>3 DEF Due

\* An output is stored.
StoredView(r) == Due(r)' = Due(r)

\* Storing an output pays what was due for it.
LEMMA DueKept ==
  ASSUME WalletInvariant, OwnStep, StoreOutput, NEW r \in Rune
  PROVE  StoredView(r)
<1> DEFINE op == [txid |-> tx.txid, vout |-> cursor]
<1>1. OwnRun /\ OwnOutputs
  BY OwnShape DEF OwnStep
<1>2. /\ pc = "store" /\ cursor \in Vouts /\ cursor \in Nat
      /\ allocated' = [allocated EXCEPT ![cursor] = Zero]
      /\ balances' = [o \in DOMAIN balances \cup (IF Stored(cursor) THEN {op} ELSE {}) |->
                        IF Stored(cursor) /\ o = op THEN allocated[cursor] ELSE balances[o]]
  BY <1>1 DEF StoreOutput, OwnOutputs
<1>3. draft' = draft /\ Owned' = Owned /\ order'.had = order.had
  BY OwnLocals DEF OwnStep, Owned, Mine
<1>4. op \notin DOMAIN balances
  <2>1. op.txid = tx.txid /\ op.vout = cursor
    OBVIOUS
  <2>2. ~(cursor < cursor)
    BY <1>2
  <2> HIDE DEF op
  <2> QED BY <1>1, <2>1, <2>2 DEF OwnRun, WalletInvariant, IndexInvariant, TablesRight, RowsRight
<1>5. op \in Owned <=> cursor \in draft.mine
  BY <1>1, <1>2 DEF OwnOutputs
<1>6. Balances(balances) /\ allocated[cursor] \in [Rune -> Nat]
  BY <1>1, <1>2, WalletHasType DEF OwnOutputs, WalletInvariant, Updater, UpdaterInvariant
<1> HIDE DEF op
<1>7. PICK S, M, F, G, A, B : /\ S = Owned \cap DOMAIN balances /\ M = draft.mine
                              /\ F = balances /\ G = balances' /\ A = allocated /\ B = allocated'
  OBVIOUS
<1>8. /\ IsFiniteSet(S) /\ \A x \in S : F[x][r] \in Nat
      /\ WalletHas[r] = Total(F, S, r) /\ Given(r) = Total(A, M, r)
      /\ WalletHas'[r] = Total(G, Owned \cap DOMAIN G, r) /\ Given(r)' = Total(B, M, r)
  BY <1>3, <1>6, <1>7, FS_Subset DEF Balances, WalletHas, Given
<1>9. IsFiniteSet(M) /\ \A v \in M : A[v][r] \in Nat
  BY <1>1, <1>7 DEF OwnOutputs
<1>10. Total(F, S, r) \in Nat /\ Total(A, M, r) \in Nat /\ order.had[r] \in Nat
  BY <1>1, <1>8, <1>9, TotalRemove, DueType
<1>11. \A x \in S : G[x][r] = F[x][r]
  BY <1>2, <1>4, <1>7
<1>12. CASE cursor \in M /\ Stored(cursor)
  <2>1. Owned \cap DOMAIN G = S \cup {op} /\ op \notin S /\ G[op] = allocated[cursor]
    BY <1>2, <1>4, <1>5, <1>7, <1>12
  <2>2. \A y \in S \cup {op} : G[y][r] \in Nat
    BY <1>6, <1>8, <1>11, <2>1
  <2>3. Total(G, S \cup {op}, r) = G[op][r] + Total(G, S, r)
    <3>1. PICK x : x = op
      OBVIOUS
    <3>2. IsFiniteSet(S) /\ x \notin S /\ \A y \in S \cup {x} : G[y][r] \in Nat
      BY <1>8, <2>1, <2>2, <3>1
    <3>3. Total(G, S \cup {x}, r) = G[x][r] + Total(G, S, r)
      BY <3>2, TotalAdd
    <3> QED BY <3>1, <3>3
  <2>4. Total(G, S, r) = Total(F, S, r)
    BY <1>8, <1>11, TotalSame
  <2>5. /\ \A y \in M : A[y][r] \in Nat /\ B[y][r] \in Nat
        /\ \A y \in M \ {cursor} : A[y][r] = B[y][r]
        /\ B[cursor][r] = 0 /\ A[cursor][r] = allocated[cursor][r] /\ A[cursor][r] \in Nat
    BY <1>1, <1>2, <1>6, <1>7, <1>9 DEF OwnOutputs, Zero
  <2>6. Total(B, M, r) + A[cursor][r] = Total(A, M, r) + B[cursor][r]
    BY <1>9, <1>12, <2>5, TotalChange
  <2>7. Total(B, M, r) \in Nat
    BY <1>9, <2>5, TotalRemove
  <2>8. WalletHas'[r] = WalletHas[r] + A[cursor][r] /\ Given(r) = Given(r)' + A[cursor][r]
    <3>1. WalletHas'[r] = G[op][r] + Total(F, S, r) /\ G[op][r] = A[cursor][r]
      BY <1>8, <2>1, <2>3, <2>4, <2>5
    <3>2. Total(B, M, r) + A[cursor][r] = Total(A, M, r)
      BY <1>10, <2>5, <2>6, <2>7
    <3> QED BY <1>8, <1>10, <2>5, <2>7, <3>1, <3>2
  <2> QED BY <1>3, <1>8, <1>10, <2>5, <2>7, <2>8 DEF Due, StoredView
<1>13. CASE ~(cursor \in M /\ Stored(cursor))
  <2>1. Owned \cap DOMAIN G = S
    <3>1. CASE cursor \notin M
      BY <1>2, <1>5, <1>7, <3>1
    <3>2. CASE ~Stored(cursor)
      BY <1>2, <1>7, <3>2
    <3> QED BY <1>13, <3>1, <3>2
  <2>2. Total(G, S, r) = Total(F, S, r)
    BY <1>8, <1>11, TotalSame
  <2>3. \A y \in M : A[y][r] = B[y][r]
    <3>1. CASE cursor \notin M
      BY <1>1, <1>2, <1>7, <3>1 DEF OwnOutputs
    <3>2. CASE cursor \in M
      <4>1. allocated[cursor] = Zero
        BY <1>1, <1>7, <1>13, <3>2 DEF OwnOutputs, Stored, IsOpReturn
      <4> QED BY <1>1, <1>2, <1>7, <4>1 DEF OwnOutputs
    <3> QED BY <3>1, <3>2
  <2>4. Total(A, M, r) = Total(B, M, r)
    BY <1>9, <2>3, TotalSame
  <2> QED BY <1>3, <1>8, <2>1, <2>2, <2>4 DEF Due, StoredView
<1> QED BY <1>12, <1>13

\* When all are stored, the wallet has what was due.
LEMMA DueGot ==
  ASSUME WalletInvariant, Accounted, OwnFinish, NEW r \in Rune
  PROVE  order'.got[r] = Due(r)
<1>1. OwnRun /\ OwnOutputs
  BY OwnShape DEF OwnFinish
<1>2. order'.got[r] = WalletHas[r] - order.had[r]
  BY DEF OwnFinish
<1>3. ASSUME NEW v \in draft.mine PROVE allocated[v][r] = 0
  <2>1. pc = "store" /\ cursor \notin Vouts
    BY DEF OwnFinish, FinishTransaction
  <2>2. cursor >= 1 /\ cursor \in Nat /\ Len(tx.outputs) \in Nat /\ v \in Vouts
    BY <1>1, <2>1, OutputsType DEF Accounted, OwnStored, OwnOutputs, WalletInvariant, Updater, UpdaterInvariant,
       TypeOK, TransactionType
  <2>3. v < cursor
    BY <2>1, <2>2 DEF Vouts
  <2>4. allocated[v] = Zero
    BY <1>1, <2>1, <2>2, <2>3 DEF Accounted, OwnStored
  <2> QED BY <2>4 DEF Zero
<1>4. Given(r) = 0
  <2>1. PICK F, M : F = allocated /\ M = draft.mine
    OBVIOUS
  <2>2. Total(F, M, r) = 0
    BY <1>1, <1>3, <2>1, TotalZero DEF OwnOutputs
  <2> QED BY <2>1, <2>2 DEF Given
<1>5. WalletHas[r] \in Nat /\ order.had[r] \in Nat
  BY <1>1, DueType
<1> QED BY <1>2, <1>4, <1>5 DEF Due

\* Of one output, and of two.
LEMMA TotalOne ==
  ASSUME NEW F, NEW S, NEW a \in S, S \ {a} = {}, NEW r, F[a][r] \in Nat
  PROVE  Total(F, S, r) = F[a][r]
<1>0. S = {a}
  OBVIOUS
<1>1. IsFiniteSet(S) /\ a \in S /\ \A x \in S : F[x][r] \in Nat
  BY <1>0, FS_Singleton
<1>2. Total(F, S, r) = F[a][r] + Total(F, S \ {a}, r)
  BY <1>1, TotalRemove
<1>3. Total(F, S \ {a}, r) = 0
  BY TotalEmpty
<1> QED BY <1>2, <1>3

\* A total over two outputs.
LEMMA TotalTwo ==
  ASSUME NEW F, NEW S, NEW a \in S, NEW b \in S, a # b, (S \ {a}) \ {b} = {}, NEW r,
         F[a][r] \in Nat, F[b][r] \in Nat
  PROVE  Total(F, S, r) = F[a][r] + F[b][r]
<1>1. PICK T : T = S \ {a}
  OBVIOUS
<1>2. b \in T /\ T \ {b} = {} /\ T = {b} /\ a \notin T /\ T \cup {a} = S
  BY <1>1
<1>3. IsFiniteSet(T) /\ \A x \in T \cup {a} : F[x][r] \in Nat
  BY <1>2, FS_Singleton
<1>4. Total(F, T \cup {a}, r) = F[a][r] + Total(F, T, r)
  BY <1>2, <1>3, TotalAdd
<1>5. Total(F, T, r) = F[b][r]
  BY <1>2, TotalOne
<1> QED BY <1>2, <1>4, <1>5

\* The draft is what the command has built, with the output of the change.
OwnJoin(n) ==
  /\ n \in Nat /\ n = Len(Bare.template.outputs)
  /\ draft.mine = Bare.mine \cup {n + 1}
  /\ draft.template.artifact = Bare.template.artifact
  /\ draft.template.rbf = Bare.template.rbf
  /\ Len(draft.template.outputs) = n + 1
  /\ \A v \in 1..n : draft.template.outputs[v] = Bare.template.outputs[v]
  /\ draft.template.outputs[n + 1].script = "plain"

\* What was sent is the transaction that was built, funded.
LEMMA OwnJoined ==
  ASSUME WalletInvariant, order.status # "none"
  PROVE  \E n : OwnJoin(n)
<1>1. phase = "done" /\ NodeInvariant /\ CommandTypes /\ MineSettled /\ ListedRight /\ EndRight /\ DraftRight
  BY DEF WalletInvariant, CommandRight, OrderRight
<1>2. Offered
  BY <1>1 DEF DraftRight
<1>3. PICK coin \in DOMAIN known : known[coin] = Zero /\ draft = Joined(Bare, coin, Ends)
  BY <1>1 DEF DraftRight
<1>4. PICK t, ends : t = Bare /\ ends = Ends
  OBVIOUS
<1>5. t \in Transaction /\ ends \in SUBSET Outpoint /\ coin \in Outpoint
  BY <1>1, <1>2, <1>4, BareFacts, ListedFacts DEF ListedRight
<1>6. PICK n : n = Len(t.template.outputs)
  OBVIOUS
<1>7. LET j == Joined(t, coin, ends)
      IN  /\ j.mine = t.mine \cup {n + 1} /\ n \in Nat
          /\ j.template.artifact = t.template.artifact /\ j.template.rbf = t.template.rbf
          /\ Len(j.template.outputs) = n + 1
          /\ \A v \in 1..n : j.template.outputs[v] = t.template.outputs[v]
          /\ j.template.outputs[n + 1].script = "plain"
  BY <1>5, <1>6, JoinedFacts
<1>8. OwnJoin(n)
  BY <1>3, <1>4, <1>6, <1>7 DEF OwnJoin
<1> QED BY <1>8

\* Without an output for the chain of mints it does not mint.
LEMMA NoOwnMint ==
  ASSUME WalletInvariant, OwnRun, \A v \in Vouts : tx.outputs[v].script # "mint"
  PROVE  ~Mint
<1> SUFFICES ASSUME Mint PROVE FALSE
  OBVIOUS
<1>1. OwnOutputs /\ OwnSpends
  BY OwnShape, OwnSpending DEF OwnRun
<1>2. ChainOutputs("mint") = {}
  BY DEF ChainOutputs
<1>3. lastOutpoint["mint"] # Null /\ lastOutpoint["mint"].txid = tx.txid
  BY <1>2 DEF Mint, MayMint, StartsMintChain
<1>4. tx.txid \in DOMAIN txs /\ txs[tx.txid] = draft
  BY <1>1 DEF OwnSpends, OwnRun
<1>5. tx.txid \in Nat /\ tx.txid > 0 /\ draft.template.outputs \in Seq(Output)
  BY <1>4, TransactionFacts DEF WalletInvariant, NodeInvariant, NodeTypes
<1>6. lastOutpoint["mint"] \notin {Null, Missing}
  BY <1>3, <1>5, NullIsNoTransaction
<1>7. PICK o : o = lastOutpoint["mint"]
  OBVIOUS
<1>8. IsOutput(o) /\ ScriptOf(o) = "mint"
  <2>1. "mint" \in StateChange
    BY DEF StateChange
  <2> QED BY <1>6, <1>7, <2>1 DEF WalletInvariant, IndexInvariant, TablesRight, EndsRight
<1>9. o.vout \in DOMAIN draft.template.outputs /\ draft.template.outputs[o.vout].script = "mint"
  <2>1. txs[o.txid] = draft
    BY <1>3, <1>4, <1>7
  <2>2. o \in Created(draft, o.txid) /\ draft.template.outputs[o.vout].script = "mint"
    BY <1>8, <2>1 DEF IsOutput, ScriptOf
  <2>3. PICK v \in DOMAIN draft.template.outputs : o = [txid |-> o.txid, vout |-> v]
    BY <2>2 DEF Created
  <2>4. o.vout = v
    BY <2>3
  <2> QED BY <2>2, <2>3, <2>4
<1>10. o.vout \in Vouts
  BY <1>1, <1>5, <1>9, LenProperties DEF OwnOutputs, Vouts
<1> QED BY <1>1, <1>9, <1>10 DEF OwnOutputs

\* Where a step of index_runes on it leads from.
OwnCases ==
  \/ pc = "inputs" /\ pc' \in {"inputs", "mint"}
  \/ Mint \/ NoMint
  \/ ApplyEdict \/ pc' = "panicked"
  \/ AllocateRest \/ BurnRest
  \/ BurnOutput \/ DetectConversion
  \/ ConvertExactInput \/ ConvertExactOutput \/ RefuseConversion
  \/ ReturnInput \/ StoreOutput

\* The steps of the own transaction, once its inputs are taken.
LEMMA OwnCase ==
  ASSUME OwnStep
  PROVE  OwnCases
<1>1. (\E o \in pending : TakeInput(o)) => pc = "inputs" /\ pc' \in {"inputs", "mint"}
  BY DEF TakeInput
<1>2. CreateOutpoints \/ MoveOutpoints => pc = "inputs" /\ pc' \in {"inputs", "mint"}
  BY DEF CreateOutpoints, MoveOutpoints
<1>3. OverflowEdict => pc' = "panicked"
  BY DEF OverflowEdict
<1> QED BY <1>1, <1>2, <1>3 DEF OwnStep, IndexRunes, OwnCases

\* What changes in no row and in no allocation of the wallet's outputs.
LEMMA DueSame ==
  ASSUME WalletInvariant, OwnStep, balances' = balances,
         \A v \in draft.mine : allocated'[v] = allocated[v], NEW r \in Rune
  PROVE  Due(r)' = Due(r) /\ Given(r)' = Given(r)
<1>1. draft' = draft /\ Owned' = Owned /\ order'.had = order.had
  BY OwnLocals DEF OwnStep, Owned, Mine
<1>2. WalletHas' = WalletHas
  BY <1>1 DEF WalletHas
<1>3. PICK F, G, M : F = allocated /\ G = allocated' /\ M = draft.mine
  OBVIOUS
<1>4. IsFiniteSet(M) /\ \A v \in M : F[v][r] = G[v][r]
  BY <1>3, OwnShape DEF OwnStep, OwnOutputs
<1>5. Total(F, M, r) = Total(G, M, r)
  BY <1>4, TotalSame
<1>6. Given(r)' = Given(r)
  BY <1>1, <1>3, <1>5 DEF Given
<1> QED BY <1>1, <1>2, <1>6 DEF Due

\* Only allocations to OP_RETURN outputs are burned.
LEMMA BurnSpares ==
  ASSUME WalletInvariant, OwnStep, BurnOutput
  PROVE  /\ \A v \in draft.mine : allocated'[v] = allocated[v]
         /\ \A r \in Rune : Due(r)' = Due(r) /\ Given(r)' = Given(r)
<1>1. OwnOutputs
  BY OwnShape DEF OwnStep
<1>2. \A v \in draft.mine : allocated'[v] = allocated[v]
  BY <1>1 DEF BurnOutput, OwnOutputs, IsOpReturn
<1>3. balances' = balances
  BY DEF BurnOutput, tables
<1>4. \A r \in Rune : Due(r)' = Due(r) /\ Given(r)' = Given(r)
  BY <1>2, <1>3, DueSame
<1> QED BY <1>2, <1>4

\* The least of some outputs.
LEMMA MinIs ==
  ASSUME NEW S, S \subseteq Nat, NEW m \in S, \A n \in S : m <= n
  PROVE  Min(S) = m
<1>1. S \in SUBSET Nat /\ S # {}
  OBVIOUS
<1>2. Min(S) \in S /\ Min(S) <= m
  BY <1>1, MinExists
<1>3. m <= Min(S) /\ Min(S) \in Nat /\ m \in Nat
  BY <1>2
<1> QED BY <1>2, <1>3

\* The invariant, with what is known of the run of the wallet's transaction.
RunInvariant == WalletInvariant /\ OwnFresh /\ Accounted

\* The invariant of the own run holds at the start.
LEMMA RunInvariantStarts == WalletInit => RunInvariant
<1> SUFFICES ASSUME WalletInit PROVE RunInvariant
  OBVIOUS
<1>1. order.status = "none"
  BY DEF WalletInit, NoOrder
<1> QED BY <1>1, WalletInvariantStarts DEF RunInvariant, OwnFresh, Accounted, OwnRun

\* No step breaks it.
LEMMA RunInvariantStays ==
  ASSUME RunInvariant, [WalletNext]_walletVars
  PROVE  RunInvariant'
BY WalletInvariantStays, OwnFreshStays, AccountedStays DEF RunInvariant

\* It always holds.
LEMMA RunInvariance == WalletSpec => []RunInvariant
<1>1. RunInvariant /\ [WalletNext]_walletVars => RunInvariant'
  BY RunInvariantStays
<1> QED BY <1>1, RunInvariantStarts, PTL DEF WalletSpec

\* What is due after a step that changes no row.
LEMMA DueNext ==
  ASSUME RunInvariant, OwnStep, balances' = balances,
         pc \in {"mint", "edicts", "burn", "convert", "return"}, NEW r \in Rune,
         NEW g \in Int, Given(r)' = g
  PROVE  Due(r)' = g - OwnIn(r)
<1>1. draft' = draft /\ Owned' = Owned /\ order'.had = order.had
  BY OwnLocals DEF OwnStep, Owned, Mine
<1>2. WalletHas' = WalletHas
  BY <1>1 DEF WalletHas
<1>3. OwnRun /\ OwnSpends
  BY OwnSpending DEF RunInvariant, OwnStep, OwnRun
<1>4. WalletHas[r] + OwnIn(r) = order.had[r] /\ OwnIn(r) \in Nat
  BY <1>3 DEF RunInvariant, Accounted, OwnGone, OwnSpends
<1>5. WalletHas[r] \in Nat
  BY <1>3, DueType DEF RunInvariant
<1> QED BY <1>1, <1>2, <1>4, <1>5 DEF Due

\* What the wallet is given where one output is its own.
LEMMA GivenOne ==
  ASSUME OwnStep, NEW a, draft.mine = {a}, NEW r \in Rune, allocated'[a][r] \in Nat
  PROVE  Given(r)' = allocated'[a][r]
<1>1. draft' = draft
  BY OwnLocals DEF OwnStep
<1>2. PICK F, S : F = allocated' /\ S = draft.mine
  OBVIOUS
<1>3. a \in S /\ S \ {a} = {}
  BY <1>2
<1>5. F[a][r] \in Nat
  BY <1>2
<1>4. Total(F, S, r) = F[a][r]
  <2>1. Total(F, S \ {a}, r) = 0
    BY <1>3, TotalEmpty
  <2>2. IsFiniteSet(S) /\ S = {a} /\ \A x \in S : F[x][r] \in Nat
    BY <1>2, <1>5, FS_Singleton
  <2>3. Total(F, S, r) = F[a][r] + Total(F, S \ {a}, r)
    BY <1>3, <2>2, TotalRemove
  <2> QED BY <1>5, <2>1, <2>3
<1> QED BY <1>1, <1>2, <1>4 DEF Given

\* What the wallet is given where two outputs are its own.
LEMMA GivenTwo ==
  ASSUME OwnStep, NEW a \in draft.mine, NEW b \in draft.mine, a # b,
         (draft.mine \ {a}) \ {b} = {}, NEW r \in Rune,
         allocated'[a][r] \in Nat, allocated'[b][r] \in Nat
  PROVE  Given(r)' = allocated'[a][r] + allocated'[b][r]
<1>1. draft' = draft
  BY OwnLocals DEF OwnStep
<1>2. PICK F, S : F = allocated' /\ S = draft.mine
  OBVIOUS
<1>3. a \in S /\ b \in S /\ (S \ {a}) \ {b} = {} /\ F[a][r] \in Nat /\ F[b][r] \in Nat
  BY <1>2
<1>4. Total(F, S, r) = F[a][r] + F[b][r]
  BY <1>3, TotalTwo
<1> QED BY <1>1, <1>2, <1>4 DEF Given

\* Of the rune of a command and the other one.
LEMMA BothRunes ==
  ASSUME NEW id \in Rune
  PROVE  Other(id) \in Rune /\ Other(id) # id /\ (\A r \in Rune : r = id \/ r = Other(id))
         /\ Other(Other(id)) = id
BY DEF Other, Rune, ID0, ID1

-----------------------------------------------------------------------------
(* A send. *)

SendingShape ==
  /\ command.id \in Rune /\ Out \in Rune /\ Out # command.id
  /\ \A r \in Rune : r = command.id \/ r = Out
  /\ command.amount \in Nat /\ Exact
  /\ \A r \in Rune : OwnIn(r) \in Nat
  /\ OwnIn(command.id) >= command.amount
  /\ offer.change <=> OwnIn(command.id) > command.amount
  /\ \A v \in Vouts : tx.outputs[v].script # "mint"
  /\ offer.change =>
       /\ tx.artifact = Spend(<<Of(command.amount, command.id, 3)>>, 0)
       /\ Vouts = 1..4 /\ draft.mine = {2, 4}
       /\ ValidDestinations = 2..4
  /\ ~offer.change =>
       /\ tx.artifact = NoArtifact
       /\ Vouts = 1..2 /\ draft.mine = {2}
       /\ ValidDestinations = 1..2

\* The transaction of a send has the shape of a send when it is indexed.
LEMMA Sends ==
  ASSUME WalletInvariant, OwnRun, Kind = "send"
  PROVE  SendingShape
<1>1. OwnSpends /\ OwnOutputs
  BY OwnSpending, OwnShape DEF OwnRun
<1>2. command \in Command /\ DOMAIN known \subseteq Outpoint
  BY <1>1, ListedFacts DEF OwnSpends, WalletInvariant, CommandRight, CommandTypes, ListedRight
<1>3. command.id \in Rune /\ command.amount \in Nat
  BY <1>2, KindsOfCommands DEF Kind
<1>4. /\ Covers(known, command.id, command.amount)
      /\ offer.change <=> Total(known, Selected(known, command.id, command.amount), command.id)
                            > command.amount
  BY <1>1 DEF OwnSpends, Offered
<1>5. Exact
  BY DEF Exact, Ends
<1>6. PICK n : OwnJoin(n)
  BY OwnJoined DEF OwnRun
<1>7. PICK t, i, id, amount : /\ t = SendTransaction(known, id, amount) /\ i = Selected(known, id, amount)
                              /\ id = command.id /\ amount = command.amount
  OBVIOUS
<1>8. Bare = t
  BY <1>7 DEF Bare
<1>9. SendShape(t, i, Total(known, i, id), id, amount)
  BY <1>2, <1>3, <1>7, SendFacts
<1>10. Total(known, i, id) = OwnIn(id) /\ \A r \in Rune : OwnIn(r) \in Nat
  BY <1>1, <1>3, <1>7, <1>8, <1>9 DEF OwnSpends, SendShape
<1>11. OwnIn(id) >= amount /\ (offer.change <=> OwnIn(id) > amount)
  BY <1>4, <1>7, <1>10 DEF Covers
<1>12. Vouts = 1..(n + 1) /\ tx.outputs = draft.template.outputs /\ tx.artifact = t.template.artifact
  BY <1>1, <1>6, <1>8 DEF OwnOutputs, OwnJoin, Vouts
<1>13. CASE offer.change
  <2>1. /\ n = 3 /\ t.mine = {2} /\ t.template.artifact = Spend(<<Of(amount, id, 3)>>, 0)
        /\ t.template.outputs[1].script = "op_return"
        /\ t.template.outputs[2].script = "plain" /\ t.template.outputs[3].script = "plain"
    BY <1>6, <1>8, <1>9, <1>10, <1>11, <1>13 DEF SendShape, OwnJoin
  <2>6. n + 1 = 4 /\ 1 \in 1..n /\ 2 \in 1..n /\ 3 \in 1..n
    BY <2>1
  <2>7. Vouts = 1..4
    BY <1>12, <2>6
  <2>8. draft.mine = {2, 4}
    <3>1. draft.mine = t.mine \cup {n + 1}
      BY <1>6, <1>8 DEF OwnJoin
    <3> QED BY <2>1, <2>6, <3>1
  <2>2. Vouts = 1..4 /\ draft.mine = {2, 4}
    BY <2>7, <2>8
  <2>3. /\ tx.outputs[1].script = "op_return" /\ tx.outputs[2].script = "plain"
        /\ tx.outputs[3].script = "plain" /\ tx.outputs[4].script = "plain"
    <3>1. /\ draft.template.outputs[1] = t.template.outputs[1]
          /\ draft.template.outputs[2] = t.template.outputs[2]
          /\ draft.template.outputs[3] = t.template.outputs[3]
          /\ draft.template.outputs[n + 1].script = "plain"
      BY <1>6, <1>8, <2>6 DEF OwnJoin
    <3> QED BY <1>12, <2>1, <2>6, <3>1
  <2>4. \A v \in 1..4 : v = 1 \/ v = 2 \/ v = 3 \/ v = 4
    OBVIOUS
  <2>5. ValidDestinations = 2..4 /\ \A v \in Vouts : tx.outputs[v].script # "mint"
    BY <2>2, <2>3, <2>4 DEF ValidDestinations
  <2> QED BY <1>3, <1>5, <1>7, <1>10, <1>11, <1>12, <1>13, <2>1, <2>2, <2>5, BothRunes DEF SendingShape, Out
<1>14. CASE ~offer.change
  <2>1. /\ n = 1 /\ t.mine = {} /\ t.template.artifact = NoArtifact
        /\ t.template.outputs[1].script = "plain"
    BY <1>6, <1>8, <1>9, <1>10, <1>11, <1>14 DEF SendShape, OwnJoin
  <2>2. n + 1 = 2 /\ 1 \in 1..n
    BY <2>1
  <2>6. Vouts = 1..2
    BY <1>12, <2>1, <2>2
  <2>7. draft.mine = {2}
    <3>1. draft.mine = t.mine \cup {n + 1}
      BY <1>6, <1>8 DEF OwnJoin
    <3> QED BY <2>1, <2>2, <3>1
  <2>3. tx.outputs[1].script = "plain" /\ tx.outputs[2].script = "plain"
    <3>1. draft.template.outputs[1] = t.template.outputs[1] /\ draft.template.outputs[n + 1].script = "plain"
      BY <1>6, <1>8, <2>2 DEF OwnJoin
    <3> QED BY <1>12, <2>1, <2>2, <3>1
  <2>4. \A v \in 1..2 : v = 1 \/ v = 2
    OBVIOUS
  <2>5. ValidDestinations = 1..2 /\ \A v \in Vouts : tx.outputs[v].script # "mint"
    BY <2>6, <2>3, <2>4 DEF ValidDestinations
  <2> QED BY <1>3, <1>5, <1>7, <1>10, <1>11, <1>12, <1>14, <2>1, <2>6, <2>7, <2>5, BothRunes DEF SendingShape, Out
<1> QED BY <1>13, <1>14

\* What index_runes has in hand.
HandTypes ==
  /\ unallocated \in [Rune -> Nat] /\ converted \in [Rune -> Nat] /\ txBurned \in [Rune -> Nat]
  /\ allocated \in [Vouts -> [Rune -> Nat]] /\ allocatedConversion \in [Vouts -> [Rune -> Nat]]

\* What is in hand has its types.
LEMMA HandsTyped ==
  ASSUME WalletInvariant
  PROVE  HandTypes
<1>1. TypeOK
  BY DEF WalletInvariant, Updater, UpdaterInvariant
<1> QED BY <1>1 DEF TypeOK, TransactionType, HandTypes

(***************************************************************************)
(* What is sent leaves the change in hand, all of it goes to the change    *)
(* output, and nothing is burned.                                          *)
(***************************************************************************)
SendEdicts ==
  pc = "edicts" =>
    /\ \A v \in draft.mine : \A r \in Rune : allocated[v][r] = 0
    /\ cursor = 1 => \A r \in Rune : unallocated[r] = OwnIn(r)
    /\ cursor # 1 =>
         /\ offer.change /\ cursor = 2
         /\ \A r \in Rune :
              unallocated[r] = OwnIn(r) - (IF r = command.id THEN command.amount ELSE 0)
SendDue ==
  pc \in {"burn", "store"} =>
    \A r \in Rune : /\ r = command.id => Due(r) = -command.amount
                    /\ r # command.id /\ offer.change => Due(r) = 0
SendState ==
  /\ pc \notin {"convert", "return"}
  /\ pc \in {"edicts", "burn"} => \A r \in Rune : converted[r] = 0
  /\ SendEdicts
  /\ SendDue
SendRight == OwnRun /\ Kind = "send" /\ command.amount > 0 => SendState

\* The edicts begin.
LEMMA SendBegins ==
  ASSUME RunInvariant, OwnStep, SendingShape, Mint \/ NoMint
  PROVE  SendState'
<1>1. WalletInvariant /\ Accounted /\ OwnRun
  BY DEF RunInvariant, OwnStep
<1>2. NoMint
  BY <1>1, NoOwnMint DEF SendingShape
<1>3. pc = "mint" /\ pc' = "edicts" /\ cursor' = cursor /\ allocated' = allocated
      /\ unallocated' = unallocated /\ converted' = converted
  BY <1>2 DEF NoMint, allocation, conversion
<1>4. HandsFresh /\ OwnOutputs
  BY <1>1, OwnShape DEF WalletInvariant, IndexInvariant, HandsRight
<1>5. cursor = 1 /\ converted = Zero /\ \A v \in Vouts : allocated[v] = Zero
  BY <1>3, <1>4 DEF HandsFresh
<1>6. \A r \in Rune : unallocated[r] = OwnIn(r)
  BY <1>1, <1>3 DEF Accounted, OwnTaken, SendingShape
<1>7. \A r \in Rune : Zero[r] = 0
  BY DEF Zero
<1>8. draft' = draft /\ \A r : (OwnIn(r))' = OwnIn(r)
  BY OwnLocals DEF OwnStep
<1>9. SendEdicts'
  <2>1. \A v \in draft.mine : \A r \in Rune : allocated'[v][r] = 0
    BY <1>3, <1>4, <1>5, <1>7 DEF OwnOutputs
  <2>2. \A r \in Rune : unallocated'[r] = OwnIn(r)'
    BY <1>3, <1>6, <1>8
  <2> QED BY <1>3, <1>5, <1>8, <2>1, <2>2 DEF SendEdicts
<1>10. \A r \in Rune : converted'[r] = 0
  BY <1>3, <1>5, <1>7
<1> QED BY <1>3, <1>9, <1>10 DEF SendState, SendDue

\* The edict for what is sent.
LEMMA SendEdict ==
  ASSUME RunInvariant, OwnStep, SendingShape, SendState, command.amount > 0, ApplyEdict
  PROVE  SendState'
<1>1. WalletInvariant /\ OwnRun /\ pc = "edicts" /\ cursor \in DOMAIN Edicts
  BY DEF RunInvariant, OwnStep, ApplyEdict
<1>2. Updater /\ HandsRight /\ HandTypes /\ OwnOutputs
  BY <1>1, HandsTyped, OwnShape DEF WalletInvariant, IndexInvariant
<1>3. offer.change
  <2>1. ASSUME ~offer.change PROVE FALSE
    <3>1. Edicts = << >>
      BY <2>1 DEF SendingShape, Edicts, NoArtifact
    <3> QED BY <1>1, <3>1
  <2> QED BY <2>1
<1>4. Edicts = <<Of(command.amount, command.id, 3)>> /\ cursor = 1
  <2>1. Edicts = <<Of(command.amount, command.id, 3)>>
    BY <1>3 DEF SendingShape, Edicts, Spend
  <2> QED BY <1>1, <2>1
<1>5. PICK e : e = Of(command.amount, command.id, 3)
  OBVIOUS
<1>6. /\ e = Edicts[cursor] /\ e.id = command.id /\ e.amount = command.amount /\ e.output = 3
      /\ e \in Edict
  BY <1>4, <1>5 DEF Of, SendingShape, Edict
<1>7. 3 \in Vouts /\ 3 \notin draft.mine /\ draft.mine \subseteq Vouts
  BY <1>2, <1>3 DEF SendingShape, OwnOutputs
<1>8. EdictView(e)
  BY <1>2, <1>6, <1>7, EdictStep
<1>9. \A r \in Rune : unallocated[r] = OwnIn(r) /\ OwnIn(r) \in Nat
  BY <1>1, <1>4 DEF SendState, SendEdicts, SendingShape
<1>10. /\ Gives(e.amount, unallocated[e.id]) = command.amount
       /\ Excess(e.amount, unallocated[e.id]) = 0
  BY <1>6, <1>9 DEF Gives, Smaller, Excess, SendingShape
<1>11. draft' = draft /\ offer' = offer /\ command' = command /\ \A r : (OwnIn(r))' = OwnIn(r)
  BY OwnLocals DEF OwnStep
<1>12. \A r \in Rune : converted'[r] = 0
  <2>1. \A r \in Rune : converted[r] = 0
    BY <1>1 DEF SendState
  <2>2. e.id \in Rune
    BY <1>6 DEF SendingShape
  <2> QED BY <1>8, <1>10, <2>1, <2>2 DEF EdictView
<1>13. \A r \in Rune :
         unallocated'[r] = OwnIn(r) - (IF r = command.id THEN command.amount ELSE 0)
  BY <1>6, <1>8, <1>9, <1>10 DEF EdictView
<1>14. \A v \in draft.mine : \A r \in Rune : allocated'[v][r] = 0
  <2>1. \A v \in draft.mine : \A r \in Rune : allocated[v][r] = 0
    BY <1>1 DEF SendState, SendEdicts
  <2> QED BY <1>6, <1>7, <1>8, <2>1 DEF EdictView
<1>15. pc' = "edicts" /\ cursor' = 2
  BY <1>4, <1>8 DEF EdictView
<1>16. SendEdicts'
  BY <1>3, <1>11, <1>13, <1>14, <1>15 DEF SendEdicts
<1> QED BY <1>12, <1>15, <1>16 DEF SendState, SendDue

\* The rest goes to the change output.
LEMMA SendRest ==
  ASSUME RunInvariant, OwnStep, SendingShape, SendState, AllocateRest \/ BurnRest
  PROVE  SendState'
<1>1. WalletInvariant /\ OwnRun /\ pc = "edicts" /\ cursor \notin DOMAIN Edicts
  BY DEF RunInvariant, OwnStep, AllocateRest, BurnRest, AfterEdicts
<1>2. Updater /\ HandTypes /\ OwnOutputs
  BY <1>1, HandsTyped, OwnShape DEF WalletInvariant
<1>3. /\ offer' = offer /\ command' = command
      /\ \A r \in Rune : OwnIn(r) \in Nat
  BY OwnLocals DEF OwnStep, SendingShape
<1>4. \A v \in draft.mine : \A r \in Rune : allocated[v][r] = 0
  BY <1>1 DEF SendState, SendEdicts
<1>5. \A r \in Rune : converted[r] = 0
  BY <1>1 DEF SendState
<1>6. \E d : RestView(d) /\ (offer.change => d = 2) /\ (~offer.change => d = 1)
  <2>1. CASE offer.change
    <3>1. tx.artifact.kind = "runestone" /\ tx.artifact.pointer = 0 /\ 2 \in Vouts
      BY <2>1 DEF SendingShape, Spend
    <3>2. PICK D : D = ValidDestinations
      OBVIOUS
    <3>3. D \subseteq Nat /\ 2 \in D /\ \A n \in D : 2 <= n
      BY <2>1, <3>2 DEF SendingShape
    <3>4. Min(D) = 2 /\ D # {}
      BY <3>3, MinIs
    <3>5. DefaultOutputs = {2}
      BY <3>1, <3>2, <3>4 DEF DefaultOutputs
    <3>6. RestView(2)
      BY <1>2, <3>1, <3>5, RestStep
    <3> QED BY <2>1, <3>6
  <2>2. CASE ~offer.change
    <3>1. tx.artifact.kind # "cenotaph" /\ tx.artifact.pointer = 0 /\ 1 \in Vouts
      BY <2>2 DEF SendingShape, NoArtifact
    <3>2. PICK D : D = ValidDestinations
      OBVIOUS
    <3>3. D \subseteq Nat /\ 1 \in D /\ \A n \in D : 1 <= n
      BY <2>2, <3>2 DEF SendingShape
    <3>4. Min(D) = 1 /\ D # {}
      BY <3>3, MinIs
    <3>5. DefaultOutputs = {1}
      BY <3>1, <3>2, <3>4 DEF DefaultOutputs
    <3>6. RestView(1)
      BY <1>2, <3>1, <3>5, RestStep
    <3> QED BY <2>2, <3>6
  <2> QED BY <2>1, <2>2
<1>7. PICK d : RestView(d) /\ (offer.change => d = 2) /\ (~offer.change => d = 1)
  BY <1>6
<1>8. /\ pc' = "burn" /\ cursor' = 1 /\ balances' = balances
      /\ \A r \in Rune : converted'[r] = 0
  BY <1>5, <1>7 DEF RestView, tables, conversion
<1>9. ASSUME NEW r \in Rune
      PROVE  Due(r)' = IF offer.change THEN unallocated[r] - OwnIn(r) ELSE 0 - OwnIn(r)
  <2>1. CASE offer.change
    <3>1. draft.mine = {2, 4} /\ d = 2 /\ 2 \in Vouts /\ 4 \in Vouts
      BY <1>7, <2>1 DEF SendingShape
    <3>2. allocated[2][r] = 0 /\ allocated[4][r] = 0 /\ unallocated[r] \in Nat
      BY <1>2, <1>4, <3>1 DEF HandTypes
    <3>3. allocated'[2][r] = unallocated[r] /\ allocated'[4][r] = 0
      BY <1>7, <3>1, <3>2 DEF RestView
    <3>4. Given(r)' = allocated'[2][r] + allocated'[4][r]
      <4>1. 2 \in draft.mine /\ 4 \in draft.mine /\ 2 # 4 /\ (draft.mine \ {2}) \ {4} = {}
        BY <3>1
      <4> QED BY <3>2, <3>3, <4>1, GivenTwo
    <3>5. Given(r)' = unallocated[r] /\ unallocated[r] \in Int
      BY <3>2, <3>3, <3>4
    <3>6. Due(r)' = unallocated[r] - OwnIn(r)
      BY <1>1, <1>8, <3>5, DueNext
    <3> QED BY <2>1, <3>6
  <2>2. CASE ~offer.change
    <3>1. draft.mine = {2} /\ d = 1 /\ 2 \in Vouts
      BY <1>7, <2>2 DEF SendingShape
    <3>2. allocated'[2][r] = 0
      BY <1>4, <1>7, <3>1 DEF RestView
    <3>3. Given(r)' = allocated'[2][r]
      BY <3>1, <3>2, GivenOne
    <3>4. Given(r)' = 0 /\ 0 \in Int
      BY <3>2, <3>3
    <3>5. Due(r)' = 0 - OwnIn(r)
      BY <1>1, <1>8, <3>4, DueNext
    <3> QED BY <2>2, <3>5
  <2> QED BY <2>1, <2>2
<1>10. SendDue'
  <2>1. CASE offer.change
    <3>1. cursor # 1
      <4>1. 1 \in DOMAIN Edicts
        BY <2>1 DEF SendingShape, Edicts, Spend
      <4> QED BY <1>1, <4>1
    <3>2. \A r \in Rune :
            unallocated[r] = OwnIn(r) - (IF r = command.id THEN command.amount ELSE 0)
      BY <1>1, <3>1 DEF SendState, SendEdicts
    <3>3. command.amount \in Nat
      BY DEF SendingShape
    <3>4. \A r \in Rune : /\ r = command.id => Due(r)' = -command.amount
                          /\ r # command.id => Due(r)' = 0
      BY <1>3, <1>9, <2>1, <3>2, <3>3
    <3> QED BY <1>3, <3>4 DEF SendDue
  <2>2. CASE ~offer.change
    <3>1. OwnIn(command.id) = command.amount
      BY <1>3, <2>2 DEF SendingShape
    <3>2. \A r \in Rune : r = command.id => Due(r)' = -command.amount
      BY <1>3, <1>9, <2>2, <3>1
    <3> QED BY <1>3, <2>2, <3>2 DEF SendDue
  <2> QED BY <2>1, <2>2
<1> QED BY <1>8, <1>10 DEF SendState, SendEdicts

\* What does not change when nothing is indexed.
StillView ==
  /\ UNCHANGED <<pc, cursor, unallocated, allocated, txBurned, converted, allocatedConversion,
                 lastId, inputId, balances, tx, order, draft, offer, command, chainEnd, known>>
  /\ \A r : Due(r)' = Due(r) /\ (OwnIn(r))' = OwnIn(r)
  /\ OwnRun' = OwnRun /\ Exact' = Exact

\* Elsewhere, what the own run relates rests.
LEMMA OwnStill ==
  ASSUME OwnRests
  PROVE  StillView
<1>1. /\ UNCHANGED <<vars, order>> /\ Owned' = Owned /\ Exact' = Exact
      /\ UNCHANGED <<draft, offer, command, chainEnd, known>> /\ \A r : (OwnIn(r))' = OwnIn(r)
  BY OwnLocals DEF OwnRests, Owned, Mine, Exact
<1>2. UNCHANGED <<pc, cursor, unallocated, allocated, txBurned, converted, allocatedConversion,
                  lastId, inputId, balances, tx>>
  BY <1>1 DEF vars, tables, allocation, conversion
<1>3. WalletHas' = WalletHas
  BY <1>1, <1>2 DEF WalletHas
<1>4. \A r : Due(r)' = Due(r)
  BY <1>1, <1>2, <1>3 DEF Due, Given
<1>5. OwnRun' = OwnRun
  BY <1>1, <1>2 DEF OwnRun, Working
<1> QED BY <1>1, <1>2, <1>4, <1>5 DEF StillView

\* Before it has all its inputs, nothing is asked of what it has in hand.
LEMMA OwnTakes ==
  ASSUME RunInvariant, OwnTake
  PROVE  pc' = "inputs"
BY TakeFacts DEF OwnTake, RunInvariant, WalletInvariant, Updater, UpdaterInvariant

\* A step on what is sent.
LEMMA SendSteps ==
  ASSUME RunInvariant, SendRight, OwnStep, Kind = "send", command.amount > 0
  PROVE  SendState'
<1>1. WalletInvariant /\ OwnRun /\ SendState /\ OwnCases
  BY OwnCase DEF RunInvariant, OwnStep, SendRight
<1>2. SendingShape
  BY <1>1, Sends
<1>3. /\ offer' = offer /\ command' = command
  BY OwnLocals DEF OwnStep
<1>4. CASE BurnOutput
  <2>1. pc = "burn" /\ pc' = "burn" /\ converted' = converted
    BY <1>4 DEF BurnOutput, conversion
  <2>2. \A r \in Rune : Due(r)' = Due(r)
    BY <1>1, <1>4, BurnSpares
  <2> QED BY <1>1, <1>3, <2>1, <2>2 DEF SendState, SendEdicts, SendDue
<1>5. CASE DetectConversion
  <2>1. pc = "burn" /\ \A r \in Rune : converted[r] = 0
    BY <1>1, <1>5 DEF DetectConversion, SendState
  <2>2. ~Convertible(ID0) /\ ~Convertible(ID1)
    BY <2>1 DEF Convertible, Other, Rune, ID0, ID1
  <2>3. inputId' = NoRune /\ pc' = "store" /\ allocated' = allocated /\ balances' = balances
    BY <1>5, <2>2 DEF DetectConversion, ConversionInput, allocation, tables
  <2>4. \A r \in Rune : Due(r)' = Due(r)
    BY <1>1, <2>3, DueSame
  <2> QED BY <1>1, <1>3, <2>1, <2>3, <2>4 DEF SendState, SendEdicts, SendDue
<1>6. CASE StoreOutput
  <2>1. pc = "store" /\ pc' = "store"
    BY <1>6 DEF StoreOutput
  <2>2. \A r \in Rune : Due(r)' = Due(r)
    BY <1>1, <1>6, DueKept DEF StoredView
  <2> QED BY <1>1, <1>3, <2>1, <2>2 DEF SendState, SendEdicts, SendDue
<1>7. CASE ConvertExactInput \/ ConvertExactOutput \/ RefuseConversion \/ ReturnInput
  BY <1>1, <1>7 DEF ConvertExactInput, ConvertExactOutput, RefuseConversion, ReturnInput, SendState
<1>8. CASE pc' \in {"inputs", "mint", "panicked"}
  BY <1>8 DEF SendState, SendEdicts, SendDue
<1> QED BY <1>1, <1>2, <1>4, <1>5, <1>6, <1>7, <1>8, SendBegins, SendEdict, SendRest DEF OwnCases

\* What a send is to give stays due, at every step.
LEMMA SendRightStays ==
  ASSUME RunInvariant, SendRight, [WalletNext]_walletVars
  PROVE  SendRight'
<1>1. OwnView
  BY OwnSteps DEF RunInvariant
<1>2. CASE OwnRests
  <2>1. StillView
    BY <1>2, OwnStill
  <2>2. SendEdicts' = SendEdicts
    BY <2>1 DEF StillView, SendEdicts
  <2>3. SendDue' = SendDue
    BY <2>1 DEF StillView, SendDue
  <2> QED BY <2>1, <2>2, <2>3 DEF StillView, SendRight, SendState, Kind
<1>3. CASE OwnTake
  <2>1. pc' = "inputs"
    BY <1>3, OwnTakes
  <2> QED BY <2>1 DEF SendRight, SendState, SendEdicts, SendDue
<1>4. CASE OwnStep
  <2>1. command' = command
    BY <1>4, OwnLocals DEF OwnStep
  <2> QED BY <1>4, <2>1, SendSteps DEF SendRight, Kind
<1>5. CASE ~OwnRun'
  BY <1>5 DEF SendRight
<1> QED BY <1>1, <1>2, <1>3, <1>4, <1>5 DEF OwnView

\* When it is done with, the wallet has lost what was sent.
LEMMA SendGivesStays ==
  ASSUME RunInvariant, SendRight, SendGivesAmount, [WalletNext]_walletVars
  PROVE  SendGivesAmount'
<1> SUFFICES ASSUME order'.status = "indexed", command'.kind = "send", command'.amount > 0
             PROVE  /\ order'.got[command'.id] = -command'.amount
                    /\ offer'.change => order'.got[Other(command'.id)] = 0
  BY DEF SendGivesAmount, Done, Out
<1>1. WalletInvariant /\ Accounted /\ OwnView
  BY OwnSteps DEF RunInvariant
<1>2. CASE OwnFinish
  <2>1. command' = command /\ offer' = offer /\ OwnRun /\ pc = "store"
    BY <1>2, OwnLocals DEF OwnFinish, FinishTransaction
  <2>2. SendState /\ SendingShape
    BY <1>1, <2>1, Sends DEF SendRight, Kind
  <2>3. \A r \in Rune : order'.got[r] = Due(r)
    BY <1>1, <1>2, DueGot
  <2> QED BY <2>1, <2>2, <2>3 DEF SendState, SendDue, SendingShape, Out
<1>3. CASE OwnOver
  BY <1>3 DEF OwnOver, locals, SendGivesAmount, Done, Out
<1> QED BY <1>1, <1>2, <1>3 DEF OwnView

(***************************************************************************)
(* Whatever the others send and the node mines between the requests of a   *)
(* send, what the wallet loses of the rune is the amount, and nothing of   *)
(* the other rune when there is change.                                    *)
(***************************************************************************)
THEOREM SendGives == WalletSpec => []SendGivesAmount
<1>1. WalletInit => SendRight /\ SendGivesAmount
  BY DEF WalletInit, NoOrder, SendRight, SendGivesAmount, Done, OwnRun
<1>2. RunInvariant /\ SendRight /\ SendGivesAmount /\ [WalletNext]_walletVars
        => SendRight' /\ SendGivesAmount'
  BY SendRightStays, SendGivesStays
<1> QED BY <1>1, <1>2, RunInvariance, PTL DEF WalletSpec

-----------------------------------------------------------------------------
(* A conversion. *)

\* The limits it carries, the outputs, and the runestone, in which what the
\* outputs that were visited have of the other rune is at least what is spent.
Stone(b) == Stones(command.exactInput, HasEnd, command.id, offer.max, offer.min,
                   OwnIn(command.id), b)
ConvertingShape ==
  /\ command.id \in Rune /\ Out \in Rune /\ Out # command.id /\ Other(Out) = command.id
  /\ \A r \in Rune : r = command.id \/ r = Out
  /\ command.exactInput \in BOOLEAN /\ HasEnd \in BOOLEAN
  /\ offer.max \in Nat /\ offer.min \in Nat
  /\ command.exactInput => offer.max = command.input
  /\ \A r \in Rune : OwnIn(r) \in Nat
  /\ OwnIn(command.id) >= offer.max
  /\ offer.change <=> OwnIn(command.id) > offer.max
  /\ Vouts = 1..4 /\ draft.mine = {3, 4} /\ ValidDestinations = 3..4
  /\ \A v \in Vouts : IsOpReturn(v) <=> v = 1
  /\ \A v \in Vouts : tx.outputs[v].script # "mint"
  /\ tx.artifact.kind = "runestone"
  /\ \E b \in Nat : b >= OwnIn(Out) /\ tx.artifact = Stone(b)

\* The transaction of a conversion has the shape of a conversion when it is
\* indexed.
LEMMA ConvertingRight ==
  ASSUME WalletInvariant, OwnRun, Kind = "convert"
  PROVE  ConvertingShape
<1>1. OwnSpends /\ OwnOutputs
  BY OwnSpending, OwnShape DEF OwnRun
<1>2. command \in Command /\ DOMAIN known \subseteq Outpoint /\ HasEnd \in BOOLEAN
  BY <1>1, ListedFacts DEF OwnSpends, WalletInvariant, CommandRight, CommandTypes, ListedRight, HasEnd
<1>3. /\ command.id \in Rune /\ command.exactInput \in BOOLEAN
      /\ offer.max \in Nat /\ offer.min \in Nat
      /\ command.exactInput => offer.max = command.input
      /\ Covers(known, command.id, offer.max)
      /\ offer.change <=> Total(known, Selected(known, command.id, offer.max), command.id)
                            > offer.max
      /\ Balances(known)
  BY <1>1, <1>2, KindsOfCommands DEF Kind, OwnSpends, Offered
<1>4. PICK n : OwnJoin(n)
  BY OwnJoined DEF OwnRun
<1>5. PICK t, inputs, visited, id, max, out :
        /\ t = ConvertTransaction(known, command, HasEnd, Limits)
        /\ id = command.id /\ max = offer.max /\ out = Other(id)
        /\ inputs = Selected(known, id, max) /\ visited = Visited(known, id, max)
  OBVIOUS
<1>6. Bare = t /\ Limits.max = max /\ Limits.min = offer.min
  BY <1>5 DEF Bare, Kind, Limits
<1>7. PICK a, b : a = Total(known, inputs, id) /\ b = Total(known, visited, out)
  OBVIOUS
<1>8. /\ t.inputs = inputs /\ t.mine = {3}
      /\ a \in Nat /\ b \in Nat
      /\ t.template.artifact = Stones(command.exactInput, HasEnd, id, max, offer.min, a, b)
      /\ t.template.artifact.kind = "runestone"
      /\ Len(t.template.outputs) = 3
      /\ t.template.outputs[1].script = "op_return"
      /\ t.template.outputs[2].script = "convert"
      /\ t.template.outputs[3].script = "plain"
  <2>1. PICK limits : limits = Limits
    OBVIOUS
  <2>2. limits.max \in Nat /\ limits.min \in Nat /\ limits.max = max /\ limits.min = offer.min
    BY <1>3, <1>5, <1>6, <2>1
  <2> QED BY <1>2, <1>3, <1>5, <1>7, <2>1, <2>2, ConvertFacts
<1>9. a = OwnIn(id) /\ \A r \in Rune : OwnIn(r) \in Nat /\ OwnIn(r) = Total(known, inputs, r)
  BY <1>1, <1>3, <1>5, <1>6, <1>7, <1>8 DEF OwnSpends
<1>10. OwnIn(id) >= max /\ (offer.change <=> OwnIn(id) > max)
  BY <1>3, <1>5, <1>7, <1>9 DEF Covers
<1>11. out \in Rune
  BY <1>3, <1>5, BothRunes
<1>12. b >= OwnIn(out)
  <2>1. inputs \subseteq visited /\ visited \subseteq DOMAIN known
    BY <1>5, SelectedFacts
  <2>2. PICK F : F = known
    OBVIOUS
  <2>3. Total(known, inputs, out) <= Total(known, visited, out)
    BY <1>3, <1>11, <2>1, <2>2, TotalType
  <2> QED BY <1>7, <1>8, <1>9, <1>11, <2>3
<1>13. /\ n = 3 /\ Vouts = 1..4 /\ tx.artifact = t.template.artifact
       /\ tx.outputs = draft.template.outputs
  <2>1. n = 3 /\ tx.artifact = t.template.artifact /\ tx.outputs = draft.template.outputs
    BY <1>1, <1>4, <1>6, <1>8 DEF OwnOutputs, OwnJoin
  <2>2. Len(tx.outputs) = 4
    BY <1>4, <2>1 DEF OwnJoin
  <2> QED BY <2>1, <2>2 DEF Vouts
<1>14. draft.mine = {3, 4}
  <2>2. n + 1 = 4
    BY <1>13
  <2>1. draft.mine = t.mine \cup {n + 1}
    BY <1>4, <1>6 DEF OwnJoin
  <2> QED BY <1>8, <2>1, <2>2
<1>15. /\ tx.outputs[1].script = "op_return" /\ tx.outputs[2].script = "convert"
       /\ tx.outputs[3].script = "plain" /\ tx.outputs[4].script = "plain"
  <2>1. n + 1 = 4 /\ 1 \in 1..n /\ 2 \in 1..n /\ 3 \in 1..n
    BY <1>13
  <2>2. /\ tx.outputs[1] = t.template.outputs[1] /\ tx.outputs[2] = t.template.outputs[2]
        /\ tx.outputs[3] = t.template.outputs[3] /\ tx.outputs[n + 1].script = "plain"
    BY <1>4, <1>6, <1>13, <2>1 DEF OwnJoin
  <2> QED BY <1>8, <2>1, <2>2
<1>16. /\ ValidDestinations = 3..4
       /\ \A v \in Vouts : IsOpReturn(v) <=> v = 1
       /\ \A v \in Vouts : tx.outputs[v].script # "mint"
  <2>1. \A v \in 1..4 : v = 1 \/ v = 2 \/ v = 3 \/ v = 4
    OBVIOUS
  <2> QED BY <1>13, <1>15, <2>1 DEF ValidDestinations, IsOpReturn
<1>17. tx.artifact.kind = "runestone" /\ tx.artifact = Stone(b)
  BY <1>5, <1>8, <1>9, <1>13 DEF Stone
<1>18. /\ Out = out /\ Out # command.id /\ Other(Out) = command.id
       /\ \A r \in Rune : r = command.id \/ r = Out
  BY <1>3, <1>5, BothRunes DEF Out
<1> QED BY <1>2, <1>3, <1>5, <1>8, <1>9, <1>10, <1>11, <1>12, <1>13, <1>14, <1>16, <1>17, <1>18
        DEF ConvertingShape

\* The runestones, and where what the edicts leave over goes.
StoneIs(b) ==
  LET wanted == Of(b + offer.min, Out, 3)
      unit == Of(1, Out, 3)
      all == Of(0, Out, 3)
      burn == Of(offer.max, command.id, 1)
      rest == Of(IF HasEnd THEN 1 ELSE OwnIn(command.id) - offer.max, command.id, 3)
      in == command.exactInput
  IN  \/ in /\ offer.change /\ HasEnd /\ b > 0 /\ Edicts = <<burn, all, unit>>
      \/ in /\ offer.change /\ HasEnd /\ b = 0 /\ Edicts = <<burn, unit>>
      \/ in /\ offer.change /\ ~HasEnd /\ Edicts = <<burn, wanted>>
      \/ in /\ ~offer.change /\ HasEnd /\ b > 0 /\ Edicts = <<all, unit>>
      \/ in /\ ~offer.change /\ HasEnd /\ b = 0 /\ Edicts = <<unit>>
      \/ in /\ ~offer.change /\ ~HasEnd /\ Edicts = <<wanted>>
      \/ ~in /\ offer.change /\ Edicts = <<wanted, rest>>
      \/ ~in /\ ~offer.change /\ Edicts = <<wanted, Of(0, command.id, 1), Of(0, command.id, 3)>>
RestTo == IF command.exactInput <=> offer.change THEN 3 ELSE 1

\* The edicts of a conversion and where it leaves the rest.
LEMMA StoneListed ==
  ASSUME ConvertingShape
  PROVE  /\ \E b \in Nat : b >= OwnIn(Out) /\ StoneIs(b)
         /\ DefaultOutputs = {RestTo}
<1>1. PICK b \in Nat : b >= OwnIn(Out) /\ tx.artifact = Stone(b)
  BY DEF ConvertingShape
<1>2. PICK st : st = Stone(b)
  OBVIOUS
<1>3. PICK in, connected, change, wanted, unit, all, burn, rest, one, three :
        /\ in = command.exactInput /\ connected = HasEnd /\ change = (OwnIn(command.id) > offer.max)
        /\ wanted = Of(b + offer.min, Out, 3) /\ unit = Of(1, Out, 3) /\ all = Of(0, Out, 3)
        /\ burn = Of(offer.max, command.id, 1)
        /\ rest = Of(IF HasEnd THEN 1 ELSE OwnIn(command.id) - offer.max, command.id, 3)
        /\ one = Of(0, command.id, 1) /\ three = Of(0, command.id, 3)
  OBVIOUS
<1>4. /\ in \in BOOLEAN /\ connected \in BOOLEAN /\ change \in BOOLEAN
      /\ change <=> offer.change
  <2>1. change <=> OwnIn(command.id) > offer.max
    BY <1>3
  <2> QED BY <1>3, <2>1 DEF ConvertingShape
<1>5. st =
      CASE in /\ change /\ connected /\ b > 0 -> Spend(<<burn, all, unit>>, 0)
        [] in /\ change /\ connected /\ ~(b > 0) -> Spend(<<burn, unit>>, 0)
        [] in /\ change /\ ~connected -> Spend(<<burn, wanted>>, 0)
        [] in /\ ~change /\ connected /\ b > 0 -> Spend(<<all, unit>>, 1)
        [] in /\ ~change /\ connected /\ ~(b > 0) -> Spend(<<unit>>, 1)
        [] in /\ ~change /\ ~connected -> Spend(<<wanted>>, 1)
        [] ~in /\ change -> Spend(<<wanted, rest>>, 1)
        [] ~in /\ ~change -> Spend(<<wanted, one, three>>, 0)
  BY <1>2, <1>3, <1>4 DEF Stone, Stones, Out
<1>6. \/ in /\ change /\ connected /\ b > 0 /\ st = Spend(<<burn, all, unit>>, 0)
      \/ in /\ change /\ connected /\ ~(b > 0) /\ st = Spend(<<burn, unit>>, 0)
      \/ in /\ change /\ ~connected /\ st = Spend(<<burn, wanted>>, 0)
      \/ in /\ ~change /\ connected /\ b > 0 /\ st = Spend(<<all, unit>>, 1)
      \/ in /\ ~change /\ connected /\ ~(b > 0) /\ st = Spend(<<unit>>, 1)
      \/ in /\ ~change /\ ~connected /\ st = Spend(<<wanted>>, 1)
      \/ ~in /\ change /\ st = Spend(<<wanted, rest>>, 1)
      \/ ~in /\ ~change /\ st = Spend(<<wanted, one, three>>, 0)
  BY <1>4, <1>5
<1>7. \A edicts, p : st = Spend(edicts, p) => Edicts = edicts /\ tx.artifact.pointer = p
  BY <1>1, <1>2 DEF Spend, Edicts
<1>8. StoneIs(b)
  <2>1. ~(b > 0) <=> b = 0
    OBVIOUS
  <2> QED BY <1>3, <1>4, <1>6, <1>7, <2>1 DEF StoneIs
<1>9. tx.artifact.pointer = IF in <=> change THEN 0 ELSE 1
  BY <1>4, <1>6, <1>7
<1>10. DefaultOutputs = {RestTo}
  <2>1. PICK D : D = ValidDestinations
    OBVIOUS
  <2>2. D \subseteq Nat /\ 3 \in D /\ \A n \in D : 3 <= n
    BY <2>1 DEF ConvertingShape
  <2>3. Min(D) = 3 /\ D # {}
    BY <2>2, MinIs
  <2>4. CASE in <=> change
    BY <1>3, <1>4, <1>9, <2>1, <2>3, <2>4 DEF DefaultOutputs, RestTo
  <2>5. CASE ~(in <=> change)
    BY <1>3, <1>4, <1>9, <2>5 DEF DefaultOutputs, RestTo
  <2> QED BY <2>4, <2>5
<1> QED BY <1>1, <1>8, <1>10

\* More for the wallet's outputs.
LEMMA DueGrows ==
  ASSUME WalletInvariant, OwnStep, balances' = balances, NEW r \in Rune,
         \A v \in draft.mine : allocated'[v][r] \in Nat /\ allocated'[v][r] >= allocated[v][r]
  PROVE  Due(r)' >= Due(r) /\ Due(r)' \in Int
<1>1. draft' = draft /\ Owned' = Owned /\ order'.had = order.had
  BY OwnLocals DEF OwnStep, Owned, Mine
<1>2. WalletHas' = WalletHas
  BY <1>1 DEF WalletHas
<1>3. PICK F, G, M : F = allocated /\ G = allocated' /\ M = draft.mine
  OBVIOUS
<1>4. OwnOutputs
  BY OwnShape DEF OwnStep
<1>5. IsFiniteSet(M) /\ \A v \in M : F[v][r] \in Nat /\ G[v][r] \in Nat /\ G[v][r] >= F[v][r]
  BY <1>3, <1>4 DEF OwnOutputs
<1>6. PICK D : D = [v \in M |-> [q \in Rune |-> G[v][r] - F[v][r]]]
  OBVIOUS
<1>7. \A v \in M : D[v][r] = G[v][r] - F[v][r] /\ D[v][r] \in Nat
  BY <1>5, <1>6
<1>8. Grows(F, D, G, M, r)
  BY <1>5, <1>7 DEF Grows
<1>9. Total(G, M, r) = Total(F, M, r) + Total(D, M, r)
  BY <1>5, <1>8, TotalPlus
<1>10. Total(F, M, r) \in Nat /\ Total(D, M, r) \in Nat
  BY <1>5, <1>7, TotalRemove
<1>11. Given(r)' = Given(r) + Total(D, M, r) /\ Given(r) \in Nat
  BY <1>1, <1>3, <1>9, <1>10 DEF Given
<1>12. WalletHas[r] \in Nat /\ order.had[r] \in Nat
  BY DueType DEF OwnStep
<1> QED BY <1>1, <1>2, <1>10, <1>11, <1>12 DEF Due

(***************************************************************************)
(* The rune that the conversion yields goes to the wallet: the edicts give *)
(* it to one output, the first of them all of what is spent.               *)
(***************************************************************************)
KeepsOut ==
  /\ \A i \in DOMAIN Edicts :
       /\ Edicts[i] \in Edict /\ (Edicts[i].output = 1 \/ Edicts[i].output = 3)
       /\ Edicts[i].id = Out =>
            /\ Edicts[i].output = 3
            /\ \/ Edicts[i].amount = 0
               \/ Edicts[i].amount >= OwnIn(Out)
               \/ \E j \in DOMAIN Edicts : j < i /\ Edicts[j].id = Out
  /\ \E i \in DOMAIN Edicts : Edicts[i].id = Out
  /\ \E n \in Nat : DOMAIN Edicts = 1..n

\* No edict of a conversion sends the output rune away from the wallet.
LEMMA StoneKeepsOut ==
  ASSUME ConvertingShape
  PROVE  KeepsOut
<1>1. PICK b \in Nat : b >= OwnIn(Out) /\ StoneIs(b)
  BY StoneListed
<1>2. PICK id, out, wanted, unit, all, burn, rest, one, three :
        /\ id = command.id /\ out = Out
        /\ wanted = Of(b + offer.min, Out, 3) /\ unit = Of(1, Out, 3) /\ all = Of(0, Out, 3)
        /\ burn = Of(offer.max, command.id, 1)
        /\ rest = Of(IF HasEnd THEN 1 ELSE OwnIn(command.id) - offer.max, command.id, 3)
        /\ one = Of(0, command.id, 1) /\ three = Of(0, command.id, 3)
  OBVIOUS
<1>3. id \in Rune /\ out \in Rune /\ out # id /\ OwnIn(Out) \in Nat /\ offer.max \in Nat
      /\ offer.min \in Nat /\ OwnIn(id) - offer.max \in Nat /\ b + offer.min \in Nat
  BY <1>2 DEF ConvertingShape
<1>4. /\ wanted \in Edict /\ wanted.id = out /\ wanted.output = 3 /\ wanted.amount >= OwnIn(Out)
      /\ unit \in Edict /\ unit.id = out /\ unit.output = 3 /\ unit.amount = 1
      /\ all \in Edict /\ all.id = out /\ all.output = 3 /\ all.amount = 0
      /\ burn \in Edict /\ burn.id # out /\ burn.output = 1
      /\ rest \in Edict /\ rest.id # out /\ rest.output = 3
      /\ one \in Edict /\ one.id # out /\ one.output = 1
      /\ three \in Edict /\ three.id # out /\ three.output = 3
  BY <1>1, <1>2, <1>3 DEF Of, Edict
<1>5. \/ Edicts = <<burn, all, unit>>
      \/ b = 0 /\ Edicts = <<burn, unit>>
      \/ Edicts = <<burn, wanted>>
      \/ Edicts = <<all, unit>>
      \/ b = 0 /\ Edicts = <<unit>>
      \/ Edicts = <<wanted>>
      \/ Edicts = <<wanted, rest>>
      \/ Edicts = <<wanted, one, three>>
  BY <1>1, <1>2 DEF StoneIs
<1>6. out = Out
  BY <1>2
<1>7. CASE Edicts = <<burn, all, unit>>
  BY <1>4, <1>6, <1>7 DEF KeepsOut
<1>8. CASE b = 0 /\ Edicts = <<burn, unit>>
  <2>1. unit.amount >= OwnIn(Out)
    BY <1>1, <1>3, <1>4, <1>8
  <2> QED BY <1>4, <1>6, <1>8, <2>1 DEF KeepsOut
<1>9. CASE Edicts = <<burn, wanted>>
  BY <1>4, <1>6, <1>9 DEF KeepsOut
<1>10. CASE Edicts = <<all, unit>>
  BY <1>4, <1>6, <1>10 DEF KeepsOut
<1>11. CASE b = 0 /\ Edicts = <<unit>>
  <2>1. unit.amount >= OwnIn(Out)
    BY <1>1, <1>3, <1>4, <1>11
  <2> QED BY <1>4, <1>6, <1>11, <2>1 DEF KeepsOut
<1>12. CASE Edicts = <<wanted>>
  BY <1>4, <1>6, <1>12 DEF KeepsOut
<1>13. CASE Edicts = <<wanted, rest>>
  BY <1>4, <1>6, <1>13 DEF KeepsOut
<1>14. CASE Edicts = <<wanted, one, three>>
  BY <1>4, <1>6, <1>14 DEF KeepsOut
<1> QED BY <1>5, <1>7, <1>8, <1>9, <1>10, <1>11, <1>12, <1>13, <1>14

\* An edict of a conversion.
EdictOf(e) ==
  /\ e = Edicts[cursor] /\ cursor \in DOMAIN Edicts /\ cursor \in Nat
  /\ e \in Edict /\ e.id \in Rune /\ e.amount \in Nat /\ e.output \in {1, 3}
  /\ EdictView(e)

\* An edict of a conversion moves what it says, as far as there is.
LEMMA ConvertingEdict ==
  ASSUME RunInvariant, OwnStep, ConvertingShape, ApplyEdict
  PROVE  EdictOf(Edicts[cursor])
<1>1. Updater /\ HandsRight /\ KeepsOut
  BY StoneKeepsOut DEF RunInvariant, WalletInvariant, IndexInvariant
<1>2. PICK e : e = Edicts[cursor]
  OBVIOUS
<1>3. e \in Edict /\ e.output \in {1, 3} /\ cursor \in DOMAIN Edicts
  BY <1>1, <1>2 DEF KeepsOut, ApplyEdict
<1>4. e.output \in Vouts /\ e.id \in Rune /\ e.amount \in Nat /\ cursor \in Nat
  <2>1. Vouts = 1..4
    BY DEF ConvertingShape
  <2>2. PICK n \in Nat : DOMAIN Edicts = 1..n
    BY <1>1 DEF KeepsOut
  <2>3. cursor \in Nat
    BY <1>3, <2>2
  <2>4. e.id \in Rune /\ e.amount \in Nat
    BY <1>3 DEF Edict
  <2>5. e.output \in 1..4
    BY <1>3
  <2> QED BY <2>1, <2>3, <2>4, <2>5
<1>5. EdictView(e)
  BY <1>1, <1>2, <1>3, <1>4, EdictStep
<1> QED BY <1>2, <1>3, <1>4, <1>5 DEF EdictOf

\* What the edicts leave over is given to one output.
LEMMA ConvertingRest ==
  ASSUME RunInvariant, OwnStep, ConvertingShape, AllocateRest \/ BurnRest
  PROVE  RestView(RestTo)
<1>1. Updater /\ DefaultOutputs = {RestTo}
  BY StoneListed DEF RunInvariant, WalletInvariant
<1>2. RestTo \in Vouts /\ tx.artifact.kind # "cenotaph"
  BY DEF RestTo, ConvertingShape
<1> QED BY <1>1, <1>2, RestStep

\* What the wallet is given of the rune that the conversion yields.
KeptEdicts ==
  pc = "edicts" =>
    /\ cursor >= 1
    /\ allocated[3][Out] + unallocated[Out] >= OwnIn(Out)
    /\ \A i \in DOMAIN Edicts :
         i < cursor /\ Edicts[i].id = Out => allocated[3][Out] >= OwnIn(Out)
KeptDue == pc \in {"burn", "convert", "return", "store"} => Due(Out) >= 0
KeptRight == OwnRun /\ Kind = "convert" => KeptEdicts /\ KeptDue

\* Of the outputs of a conversion.
LEMMA ConvertingHands ==
  ASSUME WalletInvariant, OwnStep, ConvertingShape
  PROVE  /\ \A v \in 1..4 : \A r \in Rune : allocated[v][r] \in Nat /\ allocatedConversion[v][r] \in Nat
         /\ \A r \in Rune : /\ unallocated[r] \in Nat /\ converted[r] \in Nat /\ txBurned[r] \in Nat
                            /\ OwnIn(r) \in Nat
         /\ /\ command' = command /\ offer' = offer /\ Out' = Out /\ HasEnd' = HasEnd /\ draft' = draft
            /\ Vouts' = Vouts /\ Edicts' = Edicts /\ \A r : (OwnIn(r))' = OwnIn(r)
         /\ Out \in Rune /\ command.id \in Rune /\ Out # command.id /\ 3 \in Vouts
<1>1. HandTypes
  BY HandsTyped
<1>2. Vouts = 1..4 /\ \A r \in Rune : OwnIn(r) \in Nat
  BY DEF ConvertingShape
<1>3. \A v \in 1..4 : \A r \in Rune : allocated[v][r] \in Nat /\ allocatedConversion[v][r] \in Nat
  BY <1>1, <1>2 DEF HandTypes
<1>4. \A r \in Rune : unallocated[r] \in Nat /\ converted[r] \in Nat /\ txBurned[r] \in Nat
  BY <1>1 DEF HandTypes
<1>5. /\ command' = command /\ offer' = offer /\ HasEnd' = HasEnd /\ draft' = draft
      /\ \A r : (OwnIn(r))' = OwnIn(r)
  BY OwnLocals DEF OwnStep
<1>6. Out' = Out /\ Vouts' = Vouts /\ Edicts' = Edicts
  BY <1>5 DEF Out, OwnStep, Vouts, Edicts
<1> QED BY <1>2, <1>3, <1>4, <1>5, <1>6 DEF ConvertingShape

\* Between the mint and the edicts.
LEMMA ConvertingBegins ==
  ASSUME RunInvariant, OwnStep, ConvertingShape, Mint \/ NoMint
  PROVE  /\ pc = "mint" /\ pc' = "edicts" /\ cursor = 1 /\ cursor' = 1
         /\ \A r \in Rune : /\ unallocated'[r] = unallocated[r] /\ unallocated[r] >= OwnIn(r)
                            /\ Exact => unallocated[r] = OwnIn(r)
                            /\ converted'[r] = 0 /\ txBurned'[r] = 0
         /\ \A v \in 1..4 : \A r \in Rune : allocated'[v][r] = 0 /\ allocatedConversion'[v][r] = 0
<1>1. WalletInvariant /\ Accounted /\ OwnRun
  BY DEF RunInvariant, OwnStep
<1>2. NoMint
  BY <1>1, NoOwnMint DEF ConvertingShape
<1>3. pc = "mint" /\ pc' = "edicts"
      /\ UNCHANGED <<cursor, allocated, unallocated, converted, allocatedConversion, txBurned>>
  BY <1>2 DEF NoMint, allocation, conversion
<1>4. HandsFresh /\ Vouts = 1..4
  BY <1>1 DEF WalletInvariant, IndexInvariant, HandsRight, ConvertingShape
<1>5. cursor = 1 /\ converted = Zero /\ txBurned = Zero
      /\ \A v \in 1..4 : allocated[v] = Zero /\ allocatedConversion[v] = Zero
  BY <1>3, <1>4 DEF HandsFresh
<1>6. \A r \in Rune : unallocated[r] >= OwnIn(r) /\ (Exact => unallocated[r] = OwnIn(r))
  BY <1>1, <1>3 DEF Accounted, OwnTaken
<1>7. \A r \in Rune : Zero[r] = 0
  BY DEF Zero
<1> QED BY <1>3, <1>5, <1>6, <1>7

\* It loses nothing of that rune by any of the steps.
LEMMA KeptByEdict ==
  ASSUME RunInvariant, OwnStep, ConvertingShape, KeptEdicts, ApplyEdict
  PROVE  KeptEdicts' /\ pc' = "edicts"
<1>1. PICK e : e = Edicts[cursor] /\ EdictOf(e)
  BY ConvertingEdict
<1>2. KeepsOut
  BY StoneKeepsOut
<1>3. /\ pc = "edicts" /\ pc' = "edicts" /\ cursor' = cursor + 1 /\ cursor \in Nat
      /\ cursor \in DOMAIN Edicts /\ cursor >= 1
  BY <1>1 DEF EdictOf, EdictView, KeptEdicts
<1>4. /\ \A v \in 1..4 : \A r \in Rune : allocated[v][r] \in Nat
      /\ \A r \in Rune : unallocated[r] \in Nat /\ OwnIn(r) \in Nat
      /\ Out' = Out /\ Edicts' = Edicts /\ (\A r : (OwnIn(r))' = OwnIn(r)) /\ Out \in Rune /\ 3 \in Vouts
  BY ConvertingHands DEF RunInvariant
<1>5. CASE e.id # Out
  <2>1. allocated'[3][Out] = allocated[3][Out] /\ unallocated'[Out] = unallocated[Out]
    BY <1>1, <1>4, <1>5 DEF EdictOf, EdictView
  <2>2. \A i \in DOMAIN Edicts : i < cursor + 1 /\ Edicts[i].id = Out => i < cursor
    BY <1>1, <1>2, <1>3, <1>5 DEF KeepsOut
  <2> QED BY <1>3, <1>4, <2>1, <2>2 DEF KeptEdicts
<1>6. CASE e.id = Out
  <2>1. PICK a, u, g : a = allocated[3][Out] /\ u = unallocated[Out] /\ g = Gives(e.amount, u)
    OBVIOUS
  <2>2. allocated'[3][Out] = a + g /\ unallocated'[Out] = u - g
    BY <1>1, <1>2, <1>4, <1>6, <2>1 DEF EdictOf, EdictView, KeepsOut
  <2>3. a \in Nat /\ u \in Nat /\ e.amount \in Nat /\ a + u >= OwnIn(Out) /\ OwnIn(Out) \in Nat
    BY <1>1, <1>3, <1>4, <2>1 DEF EdictOf, KeptEdicts
  <2>4. g \in Nat /\ g <= u /\ (e.amount = 0 => g = u) /\ (e.amount > 0 => g = u \/ g = e.amount)
    BY <2>1, <2>3 DEF Gives, Smaller
  <2>5. \/ e.amount = 0 \/ e.amount >= OwnIn(Out) \/ a >= OwnIn(Out)
    <3>1. ASSUME NEW j \in DOMAIN Edicts, j < cursor, Edicts[j].id = Out PROVE a >= OwnIn(Out)
      BY <1>3, <2>1, <3>1 DEF KeptEdicts
    <3> QED BY <1>1, <1>2, <1>3, <1>6, <3>1 DEF KeepsOut
  <2>6. a + g >= OwnIn(Out)
    BY <2>3, <2>4, <2>5
  <2>7. (a + g) + (u - g) >= OwnIn(Out)
    BY <2>3, <2>4
  <2> QED BY <1>3, <1>4, <2>2, <2>6, <2>7 DEF KeptEdicts
<1> QED BY <1>3, <1>5, <1>6

\* The rest of the output rune goes to the wallet.
LEMMA KeptByRest ==
  ASSUME RunInvariant, OwnStep, ConvertingShape, KeptEdicts, AllocateRest \/ BurnRest
  PROVE  KeptDue' /\ pc' = "burn"
<1>1. RestView(RestTo) /\ KeepsOut
  BY ConvertingRest, StoneKeepsOut
<1>2. /\ pc = "edicts" /\ pc' = "burn" /\ cursor \notin DOMAIN Edicts /\ balances' = balances
      /\ cursor >= 1 /\ cursor \in Nat
  BY <1>1 DEF RestView, tables, KeptEdicts, RunInvariant, WalletInvariant, Updater, UpdaterInvariant,
     TypeOK, TransactionType
<1>3. /\ \A v \in 1..4 : \A r \in Rune : allocated[v][r] \in Nat
      /\ \A r \in Rune : unallocated[r] \in Nat /\ OwnIn(r) \in Nat
      /\ Out' = Out /\ Out \in Rune /\ Vouts = 1..4 /\ draft.mine = {3, 4}
  BY ConvertingHands DEF RunInvariant, ConvertingShape
<1>4. allocated[3][Out] >= OwnIn(Out)
  <2>1. PICK i \in DOMAIN Edicts : Edicts[i].id = Out
    BY <1>1 DEF KeepsOut
  <2>2. i < cursor
    BY <1>1, <1>2 DEF KeepsOut
  <2> QED BY <1>2, <2>1, <2>2 DEF KeptEdicts
<1>5. \A v \in {3, 4} : allocated'[v][Out] \in Nat /\ allocated'[v][Out] >= allocated[v][Out]
  BY <1>1, <1>3 DEF RestView
<1>6. Given(Out)' = allocated'[3][Out] + allocated'[4][Out]
  <2>1. PICK r : r = Out
    OBVIOUS
  <2>2. 3 \in draft.mine /\ 4 \in draft.mine /\ 3 # 4 /\ (draft.mine \ {3}) \ {4} = {}
    BY <1>3
  <2>3. r \in Rune /\ allocated'[3][r] \in Nat /\ allocated'[4][r] \in Nat
    BY <1>3, <1>5, <2>1
  <2>4. Given(r)' = allocated'[3][r] + allocated'[4][r]
    BY <2>2, <2>3, GivenTwo
  <2> QED BY <1>3, <2>1, <2>4
<1>7. PICK g, r : g = allocated'[3][Out] + allocated'[4][Out] /\ r = Out
  OBVIOUS
<1>8. g \in Int /\ g >= OwnIn(Out) /\ Given(r)' = g /\ r \in Rune /\ OwnIn(r) \in Nat
  BY <1>3, <1>4, <1>5, <1>6, <1>7
<1>9. Due(r)' = g - OwnIn(r)
  BY <1>2, <1>8, DueNext
<1> QED BY <1>2, <1>3, <1>7, <1>8, <1>9 DEF KeptDue

\* What is due does not shrink after the edicts.
LEMMA DueLater ==
  ASSUME RunInvariant, OwnStep, pc \in {"burn", "convert", "return", "store"},
         pc' \in {"burn", "convert", "return", "store"}
  PROVE  \A r \in Rune : Due(r)' >= Due(r) /\ Due(r)' \in Int /\ Due(r) \in Int
<1>1. WalletInvariant /\ OwnRun /\ Updater /\ OwnOutputs /\ OwnCases
  BY OwnShape, OwnCase DEF RunInvariant, OwnStep, WalletInvariant
<1>2. /\ \A v \in draft.mine : v \in Vouts
      /\ allocated \in [Vouts -> [Rune -> Nat]]
      /\ \A r \in Rune : Due(r) \in Int
  BY <1>1, DueType DEF OwnOutputs
<1>3. Vouts' = Vouts /\ allocated' \in [Vouts -> [Rune -> Nat]]
  <2>1. [Next]_vars
    BY DEF OwnStep, Next
  <2>2. Updater'
    BY <1>1, <2>1, StepKeepsUpdater
  <2>3. TypeOK' /\ tx' = tx
    BY <2>2 DEF Updater, UpdaterInvariant, OwnStep
  <2>4. Vouts' = Vouts
    BY <2>3 DEF Vouts
  <2> QED BY <2>3, <2>4 DEF TypeOK, TransactionType
<1>4. CASE BurnOutput
  BY <1>1, <1>2, <1>4, BurnSpares
<1>5. CASE DetectConversion \/ RefuseConversion
  <2>1. allocated' = allocated /\ balances' = balances
    BY <1>5 DEF DetectConversion, RefuseConversion, allocation, tables
  <2> QED BY <1>1, <1>2, <2>1, DueSame
<1>6. CASE ConvertExactInput \/ ConvertExactOutput
  <2>1. ConvertView
    BY <1>1, <1>6, ConvertStep
  <2>2. balances' = balances /\ \A v \in Vouts : \A r \in Rune : allocated'[v][r] >= allocated[v][r]
    BY <2>1 DEF ConvertView
  <2> QED BY <1>1, <1>2, <1>3, <2>2, DueGrows
<1>7. CASE ReturnInput
  <2>1. inputId \in Rune
    BY <1>1, <1>7 DEF ReturnInput, Updater, UpdaterInvariant, LocalsFit, TypeOK, TransactionType
  <2>2. balances' = balances /\ \A v \in Vouts : \A r \in Rune : allocated'[v][r] >= allocated[v][r]
    BY <1>1, <1>7, <2>1, ReturnGrows
  <2> QED BY <1>1, <1>2, <1>3, <2>2, DueGrows
<1>8. CASE StoreOutput
  BY <1>1, <1>2, <1>8, DueKept DEF StoredView
<1>9. ~Mint /\ ~NoMint /\ ~ApplyEdict /\ ~AllocateRest /\ ~BurnRest
  BY DEF Mint, NoMint, ApplyEdict, AllocateRest, BurnRest, AfterEdicts
<1> QED BY <1>1, <1>4, <1>5, <1>6, <1>7, <1>8, <1>9 DEF OwnCases


\* The steps after the edicts.
LaterCases ==
  \/ BurnOutput \/ DetectConversion
  \/ ConvertExactInput \/ ConvertExactOutput \/ RefuseConversion
  \/ ReturnInput \/ StoreOutput

\* The steps after the edicts.
LEMMA LaterCase ==
  ASSUME LaterCases
  PROVE  /\ pc \in {"burn", "convert", "return", "store"}
         /\ pc' \in {"burn", "convert", "return", "store"}
BY DEF LaterCases, BurnOutput, DetectConversion, ConvertExactInput, ConvertExactOutput, RefuseConversion,
   ReturnInput, StoreOutput

\* Every step of the own run keeps the output rune due to the wallet.
LEMMA KeptSteps ==
  ASSUME RunInvariant, KeptRight, OwnStep, Kind = "convert"
  PROVE  KeptEdicts' /\ KeptDue'
<1>1. WalletInvariant /\ OwnRun /\ KeptEdicts /\ KeptDue /\ OwnCases
  BY OwnCase DEF RunInvariant, OwnStep, KeptRight
<1>2. ConvertingShape
  BY <1>1, ConvertingRight
<1>3. Out' = Out /\ (\A r : (OwnIn(r))' = OwnIn(r)) /\ Out \in Rune /\ 3 \in 1..4
  BY <1>1, <1>2, ConvertingHands
<1>4. CASE Mint \/ NoMint
  <2>1. /\ pc' = "edicts" /\ cursor' = 1 /\ allocated'[3][Out] = 0
        /\ unallocated'[Out] >= OwnIn(Out)
    BY <1>2, <1>3, <1>4, ConvertingBegins
  <2>2. unallocated'[Out] \in Nat /\ OwnIn(Out) \in Nat
    <3>1. unallocated'[Out] = unallocated[Out]
      BY <1>2, <1>3, <1>4, ConvertingBegins
    <3> QED BY <1>1, <1>2, <1>3, <3>1, ConvertingHands
  <2>3. KeepsOut /\ Edicts' = Edicts
    BY <1>1, <1>2, StoneKeepsOut, ConvertingHands
  <2>4. \A i \in DOMAIN Edicts : ~(i < 1)
    BY <2>3 DEF KeepsOut
  <2> QED BY <1>3, <2>1, <2>2, <2>3, <2>4 DEF KeptEdicts, KeptDue
<1>5. CASE ApplyEdict
  BY <1>1, <1>2, <1>5, KeptByEdict DEF KeptDue
<1>6. CASE AllocateRest \/ BurnRest
  BY <1>1, <1>2, <1>6, KeptByRest DEF KeptEdicts
<1>7. CASE pc \in {"burn", "convert", "return", "store"} /\ pc' \in {"burn", "convert", "return", "store"}
  <2>1. PICK r : r = Out
    OBVIOUS
  <2>2. Due(r)' >= Due(r) /\ Due(r)' \in Int /\ Due(r) \in Int
    BY <1>3, <1>7, <2>1, DueLater
  <2>3. Due(r) >= 0
    BY <1>1, <1>7, <2>1 DEF KeptDue
  <2>4. Due(r)' >= 0
    BY <2>2, <2>3
  <2> QED BY <1>3, <1>7, <2>1, <2>4 DEF KeptEdicts, KeptDue
<1>8. CASE pc' \in {"inputs", "mint", "panicked"}
  BY <1>8 DEF KeptEdicts, KeptDue
<1>9. LaterCases => pc \in {"burn", "convert", "return", "store"}
                    /\ pc' \in {"burn", "convert", "return", "store"}
  BY LaterCase DEF OwnStep
<1> QED BY <1>1, <1>4, <1>5, <1>6, <1>7, <1>8, <1>9 DEF OwnCases, LaterCases

\* The output rune stays due, at every step.
LEMMA KeptRightStays ==
  ASSUME RunInvariant, KeptRight, [WalletNext]_walletVars
  PROVE  KeptRight'
<1>1. OwnView
  BY OwnSteps DEF RunInvariant
<1>2. CASE OwnRests
  <2>1. StillView
    BY <1>2, OwnStill
  <2>2. Out' = Out /\ Kind' = Kind
    BY <2>1 DEF StillView, Out, Kind
  <2>3. KeptEdicts' = KeptEdicts
    BY <2>1, <2>2 DEF StillView, KeptEdicts, Edicts
  <2>4. KeptDue' = KeptDue
    <3>1. PICK r : r = Out
      OBVIOUS
    <3> QED BY <2>1, <2>2, <3>1 DEF StillView, KeptDue
  <2> QED BY <2>1, <2>2, <2>3, <2>4 DEF StillView, KeptRight
<1>3. CASE OwnTake
  <2>1. pc' = "inputs"
    BY <1>3, OwnTakes
  <2> QED BY <2>1 DEF KeptRight, KeptEdicts, KeptDue
<1>4. CASE OwnStep
  <2>1. command' = command
    BY <1>4, OwnLocals DEF OwnStep
  <2> QED BY <1>4, <2>1, KeptSteps DEF KeptRight, Kind
<1>5. CASE ~OwnRun'
  BY <1>5 DEF KeptRight
<1> QED BY <1>1, <1>2, <1>3, <1>4, <1>5 DEF OwnView

\* So a conversion never costs the wallet any of the rune it converts to.
LEMMA OutputRuneStays ==
  ASSUME RunInvariant, KeptRight, OutputRuneKept, [WalletNext]_walletVars
  PROVE  OutputRuneKept'
<1> SUFFICES ASSUME order'.status = "indexed", command'.kind = "convert"
             PROVE  order'.got[Other(command'.id)] >= 0
  BY DEF OutputRuneKept, Done, Out
<1>1. WalletInvariant /\ Accounted /\ OwnView
  BY OwnSteps DEF RunInvariant
<1>2. CASE OwnFinish
  <2>1. command' = command /\ OwnRun /\ pc = "store"
    BY <1>2, OwnLocals DEF OwnFinish, FinishTransaction
  <2>2. KeptDue /\ ConvertingShape
    BY <1>1, <2>1, ConvertingRight DEF KeptRight, Kind
  <2>3. PICK r : r = Out
    OBVIOUS
  <2>4. order'.got[r] = Due(r)
    BY <1>1, <1>2, <2>2, <2>3, DueGot DEF ConvertingShape
  <2> QED BY <2>1, <2>2, <2>3, <2>4 DEF KeptDue, Out
<1>3. CASE OwnOver
  BY <1>3 DEF OwnOver, locals, OutputRuneKept, Done, Out
<1> QED BY <1>1, <1>2, <1>3 DEF OwnView

(***************************************************************************)
(* The wallet loses nothing of the rune a conversion is to yield, whether  *)
(* the index accepts the conversion or refuses it and whatever it has read *)
(* is worth by then: what it spends of it comes back.                      *)
(***************************************************************************)
THEOREM OutputComesBack == WalletSpec => []OutputRuneKept
<1>1. WalletInit => KeptRight /\ OutputRuneKept
  BY DEF WalletInit, NoOrder, KeptRight, OutputRuneKept, Done, OwnRun
<1>2. RunInvariant /\ KeptRight /\ OutputRuneKept /\ [WalletNext]_walletVars
        => KeptRight' /\ OutputRuneKept'
  BY KeptRightStays, OutputRuneStays
<1> QED BY <1>1, <1>2, RunInvariance, PTL DEF WalletSpec

(***************************************************************************)
(* The limits of a conversion that is not connected: the edict for the     *)
(* rune it yields asks for the minimum more than is spent, and those for   *)
(* the rune it takes leave what is over the maximum.                       *)
(***************************************************************************)
Limited == ~HasEnd /\ (command.exactInput => command.input > 0)
Over_ == OwnIn(command.id) - offer.max
LimitEdicts ==
  /\ \A i \in DOMAIN Edicts :
       /\ Edicts[i].id = Out => Edicts[i].amount >= OwnIn(Out) + offer.min
       /\ Edicts[i].id # Out =>
            /\ ~offer.change => Edicts[i].amount = 0
            /\ offer.change /\ command.exactInput => Edicts[i].amount = offer.max /\ offer.max > 0
            /\ offer.change /\ ~command.exactInput => Edicts[i].amount = Over_ /\ Edicts[i].output = 3
            /\ offer.change => \A j \in DOMAIN Edicts : Edicts[j].id # Out => j = i
  /\ offer.change => \E i \in DOMAIN Edicts : Edicts[i].id # Out

\* The edicts that carry the limits of a conversion.
LEMMA StoneLimits ==
  ASSUME ConvertingShape, Limited
  PROVE  LimitEdicts
<1>1. PICK b \in Nat : b >= OwnIn(Out) /\ StoneIs(b)
  BY StoneListed
<1>2. PICK id, out, wanted, burn, rest, one, three :
        /\ id = command.id /\ out = Out
        /\ wanted = Of(b + offer.min, Out, 3)
        /\ burn = Of(offer.max, command.id, 1)
        /\ rest = Of(OwnIn(command.id) - offer.max, command.id, 3)
        /\ one = Of(0, command.id, 1) /\ three = Of(0, command.id, 3)
  OBVIOUS
<1>3. id \in Rune /\ out \in Rune /\ out # id /\ OwnIn(Out) \in Nat /\ offer.max \in Nat
      /\ offer.min \in Nat /\ OwnIn(id) \in Nat /\ b + offer.min >= OwnIn(Out) + offer.min
  BY <1>1, <1>2 DEF ConvertingShape
<1>4. /\ wanted.id = Out /\ wanted.amount >= OwnIn(Out) + offer.min
      /\ burn.id # Out /\ burn.amount = offer.max
      /\ rest.id # Out /\ rest.output = 3 /\ rest.amount = Over_
      /\ one.id # Out /\ one.amount = 0
      /\ three.id # Out /\ three.amount = 0
  BY <1>2, <1>3 DEF Of, Over_
<1>5. \/ command.exactInput /\ offer.change /\ Edicts = <<burn, wanted>>
      \/ command.exactInput /\ ~offer.change /\ Edicts = <<wanted>>
      \/ ~command.exactInput /\ offer.change /\ Edicts = <<wanted, rest>>
      \/ ~command.exactInput /\ ~offer.change /\ Edicts = <<wanted, one, three>>
  BY <1>1, <1>2 DEF StoneIs, Limited
<1>6. command.exactInput => offer.max > 0
  BY DEF Limited, ConvertingShape
<1>7. CASE command.exactInput /\ offer.change /\ Edicts = <<burn, wanted>>
  BY <1>4, <1>6, <1>7 DEF LimitEdicts
<1>8. CASE command.exactInput /\ ~offer.change /\ Edicts = <<wanted>>
  BY <1>4, <1>8 DEF LimitEdicts
<1>9. CASE ~command.exactInput /\ offer.change /\ Edicts = <<wanted, rest>>
  BY <1>4, <1>9 DEF LimitEdicts
<1>10. CASE ~command.exactInput /\ ~offer.change /\ Edicts = <<wanted, one, three>>
  BY <1>4, <1>10 DEF LimitEdicts
<1> QED BY <1>5, <1>7, <1>8, <1>9, <1>10

\* What is given, wanted and left while the edicts are applied, and what is due then.
LimitState ==
  pc = "edicts" =>
    /\ converted[command.id] = 0
    /\ \A i \in DOMAIN Edicts :
         i < cursor /\ Edicts[i].id = Out =>
           allocated[3][Out] + allocatedConversion[3][Out] >= OwnIn(Out) + offer.min
    /\ offer.change =>
         /\ (\A i \in DOMAIN Edicts : i < cursor => Edicts[i].id = Out)
              => unallocated[command.id] = OwnIn(command.id)
         /\ \A i \in DOMAIN Edicts :
              i < cursor /\ Edicts[i].id # Out =>
                /\ command.exactInput => unallocated[command.id] >= Over_
                /\ ~command.exactInput => allocated[3][command.id] >= Over_
LimitWants ==
  pc \in {"burn", "convert"} =>
    /\ converted[command.id] = 0
    /\ allocated[3][Out] + allocatedConversion[3][Out] >= OwnIn(Out) + offer.min
LimitDue ==
  pc \in {"burn", "convert", "return", "store"} =>
    /\ Due(command.id) >= -offer.max
    /\ pc \in {"return", "store"} /\ order.converted => Due(Out) >= offer.min
LimitRight == OwnRun /\ Kind = "convert" /\ Limited => LimitState /\ LimitWants /\ LimitDue

\* An edict asks for the whole amount, of what there is and of the conversion.
LEMMA GivesAll ==
  ASSUME NEW a \in Nat, NEW b \in Nat
  PROVE  /\ Gives(a, b) \in Nat /\ Excess(a, b) \in Nat /\ Gives(a, b) <= b
         /\ a > 0 => Gives(a, b) + Excess(a, b) = a
         /\ a > 0 /\ a <= b => Gives(a, b) = a
         /\ a <= b => Excess(a, b) = 0
BY DEF Gives, Excess, Smaller

\* An edict keeps what the limits say of what is still in hand.
LEMMA LimitByEdict ==
  ASSUME RunInvariant, OwnStep, ConvertingShape, KeptEdicts, Limited, LimitState, ApplyEdict
  PROVE  LimitState' /\ pc' = "edicts"
<1>1. PICK e : e = Edicts[cursor] /\ EdictOf(e)
  BY ConvertingEdict
<1>2. KeepsOut /\ LimitEdicts
  BY StoneKeepsOut, StoneLimits
<1>3. /\ pc = "edicts" /\ pc' = "edicts" /\ cursor' = cursor + 1 /\ cursor \in Nat
      /\ cursor \in DOMAIN Edicts /\ cursor >= 1
  BY <1>1 DEF EdictOf, EdictView, KeptEdicts
<1>4. /\ \A v \in 1..4 : \A r \in Rune : allocated[v][r] \in Nat /\ allocatedConversion[v][r] \in Nat
      /\ \A r \in Rune : unallocated[r] \in Nat /\ OwnIn(r) \in Nat
      /\ Out' = Out /\ Edicts' = Edicts /\ command' = command /\ offer' = offer
      /\ (\A r : (OwnIn(r))' = OwnIn(r)) /\ Out \in Rune /\ command.id \in Rune /\ Out # command.id
      /\ 3 \in Vouts /\ 3 \in 1..4
  BY ConvertingHands DEF RunInvariant
<1>5. Over_' = Over_ /\ Over_ \in Nat /\ Over_ <= OwnIn(command.id) /\ offer.max \in Nat
      /\ offer.max <= OwnIn(command.id) /\ offer.min \in Nat
      /\ Over_ = OwnIn(command.id) - offer.max /\ (offer.change => Over_ > 0)
  BY <1>4 DEF Over_, ConvertingShape
<1>6. \A i \in DOMAIN Edicts : i \in Nat /\ (i < cursor + 1 <=> i < cursor \/ i = cursor)
  BY <1>2, <1>3 DEF KeepsOut
<1>7. CASE e.id = Out
  <2>1. PICK a, w, u, g, x :
          /\ a = allocated[3][Out] /\ w = allocatedConversion[3][Out] /\ u = unallocated[Out]
          /\ g = Gives(e.amount, u) /\ x = Excess(e.amount, u)
    OBVIOUS
  <2>2. /\ allocated'[3][Out] = a + g /\ allocatedConversion'[3][Out] = w + x
        /\ allocated'[3][command.id] = allocated[3][command.id]
        /\ unallocated'[command.id] = unallocated[command.id]
        /\ converted'[command.id] = converted[command.id]
    <3>1. e.output = 3
      BY <1>1, <1>2, <1>7 DEF EdictOf, KeepsOut
    <3>2. allocated'[3][Out] = a + g /\ allocatedConversion'[3][Out] = w + x
      BY <1>1, <1>7, <2>1, <3>1 DEF EdictOf, EdictView
    <3>3. command.id \in Rune /\ command.id # e.id /\ 3 \in Vouts
      BY <1>4, <1>7
    <3>4. /\ allocated'[3][command.id] = allocated[3][command.id]
          /\ unallocated'[command.id] = unallocated[command.id]
          /\ converted'[command.id] = converted[command.id]
      BY <1>1, <3>3 DEF EdictOf, EdictView
    <3> QED BY <3>2, <3>4
  <2>3. a \in Nat /\ w \in Nat /\ u \in Nat /\ e.amount \in Nat
    BY <1>1, <1>4, <2>1 DEF EdictOf
  <2>4. e.amount >= OwnIn(Out) + offer.min /\ OwnIn(Out) \in Nat
    BY <1>1, <1>2, <1>3, <1>4, <1>7 DEF LimitEdicts
  <2>5. g \in Nat /\ x \in Nat /\ (e.amount > 0 => g + x = e.amount)
    BY <2>1, <2>3, GivesAll
  <2>6. (a + g) + (w + x) >= OwnIn(Out) + offer.min
    BY <1>5, <2>3, <2>4, <2>5
  <2>7. \A i \in DOMAIN Edicts : i < cursor + 1 /\ Edicts[i].id # Out => i < cursor
    BY <1>1, <1>6, <1>7
  <2>8. (\A i \in DOMAIN Edicts : i < cursor + 1 => Edicts[i].id = Out)
          => \A i \in DOMAIN Edicts : i < cursor => Edicts[i].id = Out
    BY <1>6
  <2> QED BY <1>3, <1>4, <1>5, <2>2, <2>6, <2>7, <2>8 DEF LimitState
<1>8. CASE e.id # Out
  <2>1. e.id = command.id
    BY <1>1, <1>8 DEF EdictOf, ConvertingShape
  <2>2. PICK id, u, g, x :
          /\ id = command.id /\ u = unallocated[id] /\ g = Gives(e.amount, u) /\ x = Excess(e.amount, u)
    OBVIOUS
  <2>3. u \in Nat /\ e.amount \in Nat /\ id \in Rune /\ converted[id] = 0
    BY <1>1, <1>3, <1>4, <2>2 DEF EdictOf, LimitState
  <2>4. /\ unallocated'[id] = u - g /\ converted'[id] = 0 + x
        /\ e.output = 3 => allocated'[3][id] = allocated[3][id] + g
        /\ allocated'[3][Out] = allocated[3][Out]
        /\ allocatedConversion'[3][Out] = allocatedConversion[3][Out]
    BY <1>1, <1>4, <1>8, <2>1, <2>2, <2>3 DEF EdictOf, EdictView
  <2>5. offer.change => u = OwnIn(id)
    <3>1. ASSUME offer.change, NEW i \in DOMAIN Edicts, i < cursor, Edicts[i].id # Out PROVE FALSE
      BY <1>1, <1>2, <1>3, <1>8, <3>1 DEF LimitEdicts
    <3> QED BY <1>3, <2>2, <3>1 DEF LimitState
  <2>6. /\ ~offer.change => e.amount = 0
        /\ offer.change /\ command.exactInput => e.amount = offer.max /\ offer.max > 0
        /\ offer.change /\ ~command.exactInput => e.amount = Over_ /\ e.output = 3
    BY <1>1, <1>2, <1>3, <1>8 DEF LimitEdicts
  <2>7. e.amount <= u
    BY <1>5, <2>2, <2>3, <2>5, <2>6 DEF ConvertingShape
  <2>8. x = 0 /\ g \in Nat /\ (e.amount > 0 => g = e.amount)
    BY <2>2, <2>3, <2>7, GivesAll
  <2>9. offer.change => /\ command.exactInput => unallocated'[id] >= Over_
                        /\ ~command.exactInput => allocated'[3][id] >= Over_
    <3>1. allocated[3][id] \in Nat /\ OwnIn(id) \in Nat
      BY <1>4, <2>2
    <3>2. CASE offer.change /\ command.exactInput
      BY <1>5, <2>2, <2>4, <2>5, <2>6, <2>8, <3>1, <3>2
    <3>3. CASE offer.change /\ ~command.exactInput
      BY <1>5, <2>4, <2>6, <2>8, <3>1, <3>3
    <3> QED BY <3>2, <3>3
  <2>10. \A i \in DOMAIN Edicts : i < cursor + 1 /\ Edicts[i].id = Out => i < cursor
    BY <1>1, <1>6, <1>8
  <2>11. ~(\A i \in DOMAIN Edicts : i < cursor + 1 => Edicts[i].id = Out)
    BY <1>1, <1>3, <1>6, <1>8
  <2>12. converted'[id] = 0
    BY <2>4, <2>8
  <2> QED BY <1>3, <1>4, <1>5, <2>2, <2>4, <2>9, <2>10, <2>11, <2>12 DEF LimitState
<1> QED BY <1>3, <1>7, <1>8

\* What is due to the wallet once the edicts have left over nothing.
LEMMA ConvertingDue ==
  ASSUME RunInvariant, OwnStep, ConvertingShape, balances' = balances,
         pc \in {"mint", "edicts", "burn", "convert", "return"}, NEW r \in Rune,
         allocated'[3][r] \in Nat, allocated'[4][r] \in Nat
  PROVE  Due(r)' = (allocated'[3][r] + allocated'[4][r]) - OwnIn(r)
<1>1. 3 \in draft.mine /\ 4 \in draft.mine /\ 3 # 4 /\ (draft.mine \ {3}) \ {4} = {}
  BY DEF ConvertingShape
<1>2. Given(r)' = allocated'[3][r] + allocated'[4][r]
  BY <1>1, GivenTwo
<1>3. PICK g : g = allocated'[3][r] + allocated'[4][r]
  OBVIOUS
<1>4. g \in Int /\ Given(r)' = g
  BY <1>2, <1>3
<1>5. Due(r)' = g - OwnIn(r)
  BY <1>4, DueNext
<1> QED BY <1>3, <1>5

\* So does the rest, once the edicts are done.
LEMMA LimitByRest ==
  ASSUME RunInvariant, OwnStep, ConvertingShape, KeptEdicts, Limited, LimitState,
         AllocateRest \/ BurnRest
  PROVE  LimitWants' /\ LimitDue' /\ pc' = "burn"
<1>1. RestView(RestTo) /\ KeepsOut /\ LimitEdicts
  BY ConvertingRest, StoneKeepsOut, StoneLimits
<1>2. /\ pc = "edicts" /\ pc' = "burn" /\ cursor \notin DOMAIN Edicts /\ balances' = balances
      /\ cursor >= 1 /\ cursor \in Nat
      /\ converted' = converted /\ allocatedConversion' = allocatedConversion
  BY <1>1 DEF RestView, tables, conversion, KeptEdicts, RunInvariant, WalletInvariant, Updater,
     UpdaterInvariant, TypeOK, TransactionType
<1>3. /\ \A v \in 1..4 : \A r \in Rune : allocated[v][r] \in Nat /\ allocatedConversion[v][r] \in Nat
      /\ \A r \in Rune : unallocated[r] \in Nat /\ OwnIn(r) \in Nat
      /\ Out' = Out /\ command' = command /\ offer' = offer
      /\ (\A r : (OwnIn(r))' = OwnIn(r)) /\ Out \in Rune /\ command.id \in Rune /\ Vouts = 1..4
      /\ 3 \in 1..4 /\ 4 \in 1..4
  BY ConvertingHands DEF RunInvariant, ConvertingShape
<1>4. \A i \in DOMAIN Edicts : i < cursor
  BY <1>1, <1>2 DEF KeepsOut
<1>5. \A v \in {3, 4} : \A r \in Rune : allocated'[v][r] \in Nat /\ allocated'[v][r] >= allocated[v][r]
  BY <1>1, <1>3 DEF RestView
<1>6. LimitWants'
  <2>1. allocated[3][Out] + allocatedConversion[3][Out] >= OwnIn(Out) + offer.min
    <3>1. PICK i \in DOMAIN Edicts : Edicts[i].id = Out
      BY <1>1 DEF KeepsOut
    <3> QED BY <1>2, <1>4, <3>1 DEF LimitState
  <2>2. allocated'[3][Out] + allocatedConversion'[3][Out] >= OwnIn(Out) + offer.min
    <3>1. /\ allocated'[3][Out] >= allocated[3][Out] /\ allocated'[3][Out] \in Nat
          /\ allocated[3][Out] \in Nat /\ allocatedConversion[3][Out] \in Nat /\ OwnIn(Out) \in Nat
          /\ offer.min \in Nat
      BY <1>3, <1>5 DEF ConvertingShape
    <3> QED BY <1>2, <2>1, <3>1
  <2>3. converted'[command.id] = 0
    BY <1>2 DEF LimitState
  <2> QED BY <1>3, <2>2, <2>3 DEF LimitWants
<1>7. PICK id : id = command.id
  OBVIOUS
<1>8. Over_ = OwnIn(id) - offer.max /\ OwnIn(id) \in Nat /\ offer.max \in Nat /\ id \in Rune
  BY <1>3, <1>7 DEF Over_, ConvertingShape
<1>9. /\ allocated'[3][id] \in Nat /\ allocated'[4][id] \in Nat
      /\ Due(id)' = (allocated'[3][id] + allocated'[4][id]) - OwnIn(id)
  <2>1. allocated'[3][id] \in Nat /\ allocated'[4][id] \in Nat
    BY <1>5, <1>8
  <2> QED BY <1>2, <1>8, <2>1, ConvertingDue
<1>10. offer.change => allocated'[3][id] >= Over_
  <2>1. ASSUME offer.change
        PROVE  /\ command.exactInput => unallocated[id] >= Over_
               /\ ~command.exactInput => allocated[3][id] >= Over_
    <3>1. PICK i \in DOMAIN Edicts : Edicts[i].id # Out
      BY <1>1, <2>1 DEF LimitEdicts
    <3> QED BY <1>2, <1>4, <1>7, <2>1, <3>1 DEF LimitState
  <2>2. CASE offer.change /\ command.exactInput
    <3>1. RestTo = 3
      BY <2>2 DEF RestTo
    <3>2. allocated'[3][id] = allocated[3][id] + unallocated[id]
      BY <1>1, <1>3, <1>8, <3>1 DEF RestView
    <3>3. allocated[3][id] \in Nat /\ unallocated[id] \in Nat
      BY <1>3, <1>8
    <3> QED BY <1>8, <2>1, <2>2, <3>2, <3>3
  <2>3. CASE offer.change /\ ~command.exactInput
    <3>1. allocated'[3][id] >= allocated[3][id] /\ allocated[3][id] \in Nat
      BY <1>3, <1>5, <1>8
    <3> QED BY <1>8, <1>9, <2>1, <2>3, <3>1
  <2> QED BY <2>2, <2>3
<1>11. Due(id)' >= -offer.max
  <2>1. ~offer.change => OwnIn(id) <= offer.max
    BY <1>7, <1>8 DEF ConvertingShape
  <2> QED BY <1>8, <1>9, <1>10, <2>1
<1>12. LimitDue'
  BY <1>2, <1>3, <1>7, <1>11 DEF LimitDue
<1> QED BY <1>2, <1>6, <1>12

\* The steps after the edicts: what is due of the rune it takes.
LEMMA LimitKept ==
  ASSUME RunInvariant, OwnStep, ConvertingShape, LimitDue, LaterCases
  PROVE  Due(command.id)' >= -offer.max
<1>1. pc \in {"burn", "convert", "return", "store"} /\ pc' \in {"burn", "convert", "return", "store"}
  BY LaterCase
<1>2. PICK r : r = command.id
  OBVIOUS
<1>3. r \in Rune /\ offer.max \in Nat /\ Due(r) >= -offer.max /\ command' = command
  BY <1>1, <1>2, OwnLocals DEF ConvertingShape, LimitDue, OwnStep
<1>4. Due(r)' >= Due(r) /\ Due(r)' \in Int /\ Due(r) \in Int
  BY <1>1, <1>3, DueLater
<1>5. Due(r)' >= -offer.max
  BY <1>3, <1>4
<1> QED BY <1>2, <1>3, <1>5

\* What is due of the rune it yields, when it is accepted.
LEMMA LimitConverts ==
  ASSUME RunInvariant, OwnStep, ConvertingShape, LimitWants, ConvertExactInput \/ ConvertExactOutput
  PROVE  Due(Out)' >= offer.min
<1>1. WalletInvariant /\ Updater /\ OwnRun
  BY DEF RunInvariant, WalletInvariant, OwnStep
<1>2. ConvertView
  BY <1>1, ConvertStep
<1>3. /\ pc = "convert" /\ balances' = balances /\ inputId \in Rune
      /\ converted[command.id] = 0
      /\ allocated[3][Out] + allocatedConversion[3][Out] >= OwnIn(Out) + offer.min
  BY <1>2 DEF ConvertView, LimitWants
<1>4. converted[Other(inputId)] > 0
  BY <1>1, <1>3 DEF Updater, UpdaterInvariant, ConversionFound, Convertible
<1>5. Other(inputId) = Out
  BY <1>3, <1>4, BothRunes DEF ConvertingShape
<1>6. PICK r : r = Out
  OBVIOUS
<1>7. /\ allocated[3][r] \in Nat /\ allocatedConversion[3][r] \in Nat /\ OwnIn(r) \in Nat
      /\ r \in Rune /\ Out' = Out /\ Vouts = 1..4 /\ 3 \in 1..4 /\ 4 \in 1..4 /\ offer.min \in Nat
      /\ allocated[4][r] \in Nat
  BY <1>1, <1>6, ConvertingHands DEF ConvertingShape
<1>8. /\ allocated'[3][r] >= allocated[3][r] + allocatedConversion[3][r]
      /\ allocated'[4][r] >= allocated[4][r]
  BY <1>2, <1>5, <1>6, <1>7 DEF ConvertView
<1>9. allocated'[3][r] \in Nat /\ allocated'[4][r] \in Nat
  <2>1. [Next]_vars
    BY DEF OwnStep, Next
  <2>2. Updater'
    BY <1>1, <2>1, StepKeepsUpdater
  <2>3. allocated' \in [Vouts' -> [Rune -> Nat]]
    BY <2>2 DEF Updater, UpdaterInvariant, TypeOK, TransactionType
  <2>4. Vouts' = Vouts
    BY DEF OwnStep, Vouts
  <2> QED BY <1>7, <2>3, <2>4
<1>10. Due(r)' = (allocated'[3][r] + allocated'[4][r]) - OwnIn(r)
  BY <1>3, <1>7, <1>9, ConvertingDue
<1>11. Due(r)' >= offer.min
  BY <1>3, <1>6, <1>7, <1>8, <1>9, <1>10
<1> QED BY <1>6, <1>7, <1>11

\* Every step of the own run keeps the limits.
LEMMA LimitSteps ==
  ASSUME RunInvariant, KeptRight, LimitRight, OwnStep, Kind = "convert", Limited
  PROVE  LimitState' /\ LimitWants' /\ LimitDue'
<1>1. /\ WalletInvariant /\ OwnRun /\ OwnFresh /\ OwnCases
      /\ KeptEdicts /\ LimitState /\ LimitWants /\ LimitDue
  BY OwnCase DEF RunInvariant, OwnStep, KeptRight, LimitRight
<1>2. ConvertingShape
  BY <1>1, ConvertingRight
<1>3. /\ Out' = Out /\ command' = command /\ offer' = offer /\ Edicts' = Edicts
      /\ (\A r : (OwnIn(r))' = OwnIn(r)) /\ Out \in Rune /\ command.id \in Rune
      /\ (order'.converted <=> order.converted \/ (pc = "convert" /\ Acceptable /\ Connected))
  BY <1>1, <1>2, ConvertingHands DEF OwnStep
<1>4. pc \notin {"return", "store"} => ~order.converted
  BY <1>1 DEF OwnFresh, OwnRun
<1>5. CASE Mint \/ NoMint
  <2>1. /\ pc' = "edicts" /\ cursor' = 1 /\ converted'[command.id] = 0
        /\ unallocated'[command.id] = unallocated[command.id]
        /\ Exact => unallocated[command.id] = OwnIn(command.id)
    BY <1>2, <1>3, <1>5, ConvertingBegins
  <2>2. KeepsOut
    BY <1>2, StoneKeepsOut
  <2>3. \A i \in DOMAIN Edicts : ~(i < 1)
    BY <2>2 DEF KeepsOut
  <2>4. Exact
    BY DEF Exact, Ends, Limited
  <2> QED BY <1>3, <2>1, <2>3, <2>4 DEF LimitState, LimitWants, LimitDue
<1>6. CASE ApplyEdict
  BY <1>1, <1>2, <1>6, LimitByEdict DEF LimitWants, LimitDue
<1>7. CASE AllocateRest \/ BurnRest
  BY <1>1, <1>2, <1>7, LimitByRest DEF LimitState
<1>8. ASSUME LaterCases
      PROVE  /\ Due(command.id)' >= -offer.max
             /\ pc \in {"burn", "convert", "return", "store"} /\ pc' \in {"burn", "convert", "return", "store"}
  BY <1>1, <1>2, <1>8, LimitKept, LaterCase
<1>9. CASE BurnOutput
  <2>1. /\ pc = "burn" /\ pc' = "burn" /\ converted' = converted
        /\ allocatedConversion' = allocatedConversion
    BY <1>9 DEF BurnOutput, conversion
  <2>2. allocated'[3] = allocated[3]
    BY <1>1, <1>2, <1>9, BurnSpares DEF ConvertingShape
  <2> QED BY <1>1, <1>3, <1>8, <1>9, <2>1, <2>2 DEF LaterCases, LimitState, LimitWants, LimitDue
<1>10. CASE DetectConversion
  <2>1. /\ pc = "burn" /\ pc' \in {"convert", "store"} /\ converted' = converted
        /\ allocatedConversion' = allocatedConversion /\ allocated' = allocated
    BY <1>10 DEF DetectConversion, allocation
  <2>2. ~order'.converted
    BY <1>3, <1>4, <2>1
  <2> QED BY <1>1, <1>3, <1>8, <1>10, <2>1, <2>2 DEF LaterCases, LimitState, LimitWants, LimitDue
<1>11. CASE ConvertExactInput \/ ConvertExactOutput
  <2>1. Due(Out)' >= offer.min
    BY <1>1, <1>2, <1>11, LimitConverts
  <2>2. pc' = "return"
    BY <1>11 DEF ConvertExactInput, ConvertExactOutput
  <2>3. Due(command.id)' >= -offer.max
    BY <1>8, <1>11 DEF LaterCases
  <2> QED BY <1>3, <2>1, <2>2, <2>3 DEF LimitState, LimitWants, LimitDue
<1>12. CASE RefuseConversion
  <2>1. pc' = "return" /\ ~order'.converted
    BY <1>3, <1>4, <1>12 DEF RefuseConversion
  <2>2. Due(command.id)' >= -offer.max
    BY <1>8, <1>12 DEF LaterCases
  <2> QED BY <1>3, <2>1, <2>2 DEF LimitState, LimitWants, LimitDue
<1>13. CASE ReturnInput \/ StoreOutput
  <2>1. pc \in {"return", "store"} /\ pc' = "store" /\ pc # "convert"
    BY <1>13 DEF ReturnInput, StoreOutput
  <2>2. Due(command.id)' >= -offer.max
    BY <1>8, <1>13 DEF LaterCases
  <2>3. order'.converted => Due(Out)' >= offer.min
    <3>1. PICK r : r = Out
      OBVIOUS
    <3>2. Due(r)' >= Due(r) /\ Due(r)' \in Int /\ Due(r) \in Int
      BY <1>3, <2>1, <3>1, DueLater
    <3>3. order.converted => Due(r) >= offer.min
      BY <1>1, <2>1, <3>1 DEF LimitDue
    <3>4. offer.min \in Nat
      BY <1>2 DEF ConvertingShape
    <3>5. order'.converted => Due(r)' >= offer.min
      BY <1>3, <2>1, <3>2, <3>3, <3>4
    <3> QED BY <1>3, <3>1, <3>5
  <2> QED BY <1>3, <2>1, <2>2, <2>3 DEF LimitState, LimitWants, LimitDue
<1>14. CASE pc' \in {"inputs", "mint", "panicked"}
  BY <1>14 DEF LimitState, LimitWants, LimitDue
<1> QED BY <1>1, <1>5, <1>6, <1>7, <1>9, <1>10, <1>11, <1>12, <1>13, <1>14 DEF OwnCases

\* The limits stay kept, at every step.
LEMMA LimitRightStays ==
  ASSUME RunInvariant, KeptRight, LimitRight, [WalletNext]_walletVars
  PROVE  LimitRight'
<1>1. OwnView
  BY OwnSteps DEF RunInvariant
<1>2. CASE OwnRests
  <2>1. StillView
    BY <1>2, OwnStill
  <2>2. Out' = Out /\ Kind' = Kind /\ Edicts' = Edicts /\ Over_' = Over_ /\ (Limited' <=> Limited)
    BY <2>1 DEF StillView, Out, Kind, Edicts, Over_, Limited, HasEnd
  <2>3. LimitState' = LimitState
    BY <2>1, <2>2 DEF StillView, LimitState
  <2>4. LimitWants' = LimitWants
    BY <2>1, <2>2 DEF StillView, LimitWants
  <2>5. LimitDue' = LimitDue
    <3>1. PICK r, q : r = Out /\ q = command.id
      OBVIOUS
    <3> QED BY <2>1, <2>2, <3>1 DEF StillView, LimitDue
  <2> QED BY <2>1, <2>2, <2>3, <2>4, <2>5 DEF StillView, LimitRight
<1>3. CASE OwnTake
  <2>1. pc' = "inputs"
    BY <1>3, OwnTakes
  <2> QED BY <2>1 DEF LimitRight, LimitState, LimitWants, LimitDue
<1>4. CASE OwnStep
  <2>1. command' = command /\ HasEnd' = HasEnd
    BY <1>4, OwnLocals DEF OwnStep
  <2> QED BY <1>4, <2>1, LimitSteps DEF LimitRight, Kind, Limited
<1>5. CASE ~OwnRun'
  BY <1>5 DEF LimitRight
<1> QED BY <1>1, <1>2, <1>3, <1>4, <1>5 DEF OwnView

\* So a conversion ends within its limits.
LEMMA LimitsStay ==
  ASSUME RunInvariant, LimitRight, LimitsEnforced, [WalletNext]_walletVars
  PROVE  LimitsEnforced'
<1> SUFFICES ASSUME order'.status = "indexed", command'.kind = "convert", order'.converted, Limited'
             PROVE  /\ order'.got[command'.id] >= -offer'.max
                    /\ order'.got[Other(command'.id)] >= offer'.min
  BY DEF LimitsEnforced, Done, Out, Limited
<1>1. WalletInvariant /\ Accounted /\ OwnView
  BY OwnSteps DEF RunInvariant
<1>2. CASE OwnFinish
  <2>1. /\ command' = command /\ offer' = offer /\ OwnRun /\ pc = "store" /\ Limited
        /\ order'.converted = order.converted
    <3>1. command' = command /\ offer' = offer /\ HasEnd' = HasEnd
      BY <1>2, OwnLocals DEF OwnFinish
    <3>2. OwnRun /\ pc = "store" /\ order'.converted = order.converted
      BY <1>2 DEF OwnFinish, FinishTransaction
    <3>3. Limited
      BY <3>1 DEF Limited
    <3> QED BY <3>1, <3>2, <3>3
  <2>2. LimitDue /\ ConvertingShape
    BY <1>1, <2>1, ConvertingRight DEF LimitRight, Kind
  <2>3. PICK r, q : r = Out /\ q = command.id
    OBVIOUS
  <2>4. order'.got[r] = Due(r) /\ order'.got[q] = Due(q)
    BY <1>1, <1>2, <2>2, <2>3, DueGot DEF ConvertingShape
  <2>5. Due(q) >= -offer.max /\ Due(r) >= offer.min
    BY <2>1, <2>2, <2>3 DEF LimitDue
  <2> QED BY <2>1, <2>3, <2>4, <2>5 DEF Out
<1>3. CASE OwnOver
  BY <1>3 DEF OwnOver, locals, LimitsEnforced, Done, Out, Limited, HasEnd
<1> QED BY <1>1, <1>2, <1>3 DEF OwnView

(***************************************************************************)
(* A conversion that is not connected and that the index accepts takes at  *)
(* most the maximum and gives at least the minimum that the wallet has     *)
(* reported, whatever is mined before it.                                  *)
(***************************************************************************)
THEOREM LimitsHold == WalletSpec => []LimitsEnforced
<1>1. WalletInit => KeptRight /\ LimitRight /\ LimitsEnforced
  BY DEF WalletInit, NoOrder, KeptRight, LimitRight, LimitsEnforced, Done, OwnRun
<1>2. RunInvariant /\ KeptRight /\ LimitRight /\ LimitsEnforced /\ [WalletNext]_walletVars
        => KeptRight' /\ LimitRight' /\ LimitsEnforced'
  BY KeptRightStays, LimitRightStays, LimitsStay
<1> QED BY <1>1, <1>2, RunInvariance, PTL DEF WalletSpec

(***************************************************************************)
(* A conversion that is refused: the edicts ask for more of the rune it    *)
(* yields than there is, so that what is burned of the other one is found, *)
(* and lead it back to the wallet's output.                                *)
(***************************************************************************)
Refunding == ~(command.exactInput /\ offer.change) /\ Asks /\ order.end = Zero
Takes(i) == Edicts[i].id = Out /\ Edicts[i].amount = 0
AsksMore(i) ==
  /\ Edicts[i].id = Out /\ Edicts[i].amount > 0
  /\ Edicts[i].amount > OwnIn(Out) \/ \E j \in DOMAIN Edicts : j < i /\ Takes(j)
RefundEdicts ==
  /\ \E i \in DOMAIN Edicts : AsksMore(i)
  /\ \/ /\ \A i \in DOMAIN Edicts : Edicts[i].id = Out
        /\ 1 \in DOMAIN Edicts /\ Edicts[1].output = 3
     \/ \E m \in DOMAIN Edicts :
          /\ Edicts[m].id = command.id /\ Edicts[m].output = 3
          /\ \A i \in DOMAIN Edicts : Edicts[i].id = command.id => i <= m

\* The edicts of a conversion that leave the input rune to the wallet.
LEMMA StoneRefunds ==
  ASSUME ConvertingShape, Refunding
  PROVE  RefundEdicts
<1>1. PICK b \in Nat : b >= OwnIn(Out) /\ StoneIs(b)
  BY StoneListed
<1>2. PICK id, wanted, unit, all, rest, one, three :
        /\ id = command.id
        /\ wanted = Of(b + offer.min, Out, 3) /\ unit = Of(1, Out, 3) /\ all = Of(0, Out, 3)
        /\ rest = Of(IF HasEnd THEN 1 ELSE OwnIn(command.id) - offer.max, command.id, 3)
        /\ one = Of(0, command.id, 1) /\ three = Of(0, command.id, 3)
  OBVIOUS
<1>3. id \in Rune /\ Out # id /\ OwnIn(Out) \in Nat /\ offer.min \in Nat
  BY <1>2 DEF ConvertingShape
<1>4. /\ wanted.id = Out /\ wanted.output = 3 /\ wanted.amount = b + offer.min
      /\ unit.id = Out /\ unit.output = 3 /\ unit.amount = 1
      /\ all.id = Out /\ all.output = 3 /\ all.amount = 0
      /\ rest.id = id /\ rest.output = 3
      /\ one.id = id /\ one.output = 1
      /\ three.id = id /\ three.output = 3
  BY <1>2 DEF Of
<1>5. \/ HasEnd /\ Edicts = <<all, unit>>
      \/ b = 0 /\ Edicts = <<unit>>
      \/ offer.min > 0 /\ Edicts = <<wanted>>
      \/ offer.min > 0 /\ Edicts = <<wanted, rest>>
      \/ offer.min > 0 /\ Edicts = <<wanted, one, three>>
  BY <1>1, <1>2 DEF StoneIs, Refunding, Asks
<1>6. offer.min > 0 => wanted.amount > OwnIn(Out) /\ wanted.amount > 0
  BY <1>1, <1>3, <1>4
<1>7. CASE Edicts = <<all, unit>>
  <2>1. Takes(1) /\ AsksMore(2)
    BY <1>4, <1>7 DEF Takes, AsksMore
  <2> QED BY <1>3, <1>4, <1>7, <2>1 DEF RefundEdicts
<1>8. CASE b = 0 /\ Edicts = <<unit>>
  <2>1. AsksMore(1)
    BY <1>1, <1>3, <1>4, <1>8 DEF AsksMore
  <2> QED BY <1>3, <1>4, <1>8, <2>1 DEF RefundEdicts
<1>9. CASE offer.min > 0 /\ Edicts = <<wanted>>
  <2>1. AsksMore(1)
    BY <1>4, <1>6, <1>9 DEF AsksMore
  <2> QED BY <1>3, <1>4, <1>9, <2>1 DEF RefundEdicts
<1>10. CASE offer.min > 0 /\ Edicts = <<wanted, rest>>
  <2>1. AsksMore(1)
    BY <1>4, <1>6, <1>10 DEF AsksMore
  <2>2. Edicts[2].id = command.id /\ Edicts[2].output = 3 /\ Edicts[1].id # command.id
    BY <1>2, <1>3, <1>4, <1>10
  <2> QED BY <1>10, <2>1, <2>2 DEF RefundEdicts
<1>11. CASE offer.min > 0 /\ Edicts = <<wanted, one, three>>
  <2>1. AsksMore(1)
    BY <1>4, <1>6, <1>11 DEF AsksMore
  <2>2. Edicts[3].id = command.id /\ Edicts[3].output = 3
    BY <1>2, <1>4, <1>11
  <2> QED BY <1>11, <2>1, <2>2 DEF RefundEdicts
<1> QED BY <1>5, <1>7, <1>8, <1>9, <1>10, <1>11

\* What is in hand until it is accepted or returned, and then nothing is due.
RefundState ==
  pc = "edicts" =>
    /\ \A r \in Rune : allocated[4][r] = 0 /\ allocated[2][r] = 0 /\ txBurned[r] = 0
    /\ allocated[1][Out] = 0 /\ allocated[3][Out] + unallocated[Out] = OwnIn(Out)
    /\ (allocated[1][command.id] + allocated[3][command.id]) + unallocated[command.id]
         = OwnIn(command.id)
    /\ cursor > 1 => lastId # NoRune
    /\ \A i \in DOMAIN Edicts : i < cursor /\ Takes(i) => unallocated[Out] = 0
    /\ \A i \in DOMAIN Edicts :
         i < cursor /\ AsksMore(i) => unallocated[Out] = 0 /\ converted[Out] > 0
RefundBurns ==
  pc = "burn" =>
    /\ \A r \in Rune : allocated[4][r] = 0 /\ allocated[2][r] = 0
    /\ allocated[1][Out] = 0 /\ allocated[3][Out] = OwnIn(Out) /\ txBurned[Out] = 0
    /\ (allocated[1][command.id] + allocated[3][command.id]) + txBurned[command.id]
         = OwnIn(command.id)
    /\ cursor >= 1 /\ (cursor > 1 => allocated[1][command.id] = 0)
    /\ lastId # NoRune /\ converted[Out] > 0
RefundReturns ==
  pc = "convert" \/ (pc = "return" /\ ~order.converted) =>
    /\ \A r \in Rune : allocated[4][r] = 0 /\ allocated[2][r] = 0
    /\ allocated[1][Out] = 0 /\ allocated[3][Out] = OwnIn(Out)
    /\ allocated[1][command.id] = 0 /\ inputId = command.id
    /\ allocated[3][command.id] + txBurned[command.id] = OwnIn(command.id)
RefundDue == pc = "store" /\ ~order.converted => \A r \in Rune : Due(r) = 0
RefundRight ==
  OwnRun /\ Kind = "convert" /\ Refunding => RefundState /\ RefundBurns /\ RefundReturns /\ RefundDue

\* An edict keeps what is to come back to the wallet.
LEMMA RefundByEdict ==
  ASSUME RunInvariant, OwnStep, ConvertingShape, KeptEdicts, RefundState, ApplyEdict
  PROVE  RefundState' /\ pc' = "edicts"
<1>1. PICK e : e = Edicts[cursor] /\ EdictOf(e)
  BY ConvertingEdict
<1>2. KeepsOut
  BY StoneKeepsOut
<1>3. /\ pc = "edicts" /\ pc' = "edicts" /\ cursor' = cursor + 1 /\ cursor \in Nat
      /\ cursor \in DOMAIN Edicts /\ cursor >= 1 /\ txBurned' = txBurned /\ lastId' = e.id
  BY <1>1 DEF EdictOf, EdictView, KeptEdicts
<1>4. /\ \A v \in 1..4 : \A r \in Rune : allocated[v][r] \in Nat
      /\ \A r \in Rune : unallocated[r] \in Nat /\ OwnIn(r) \in Nat /\ converted[r] \in Nat
      /\ Out' = Out /\ Edicts' = Edicts /\ command' = command
      /\ (\A r : (OwnIn(r))' = OwnIn(r)) /\ Out \in Rune /\ command.id \in Rune /\ Out # command.id
      /\ 1 \in Vouts /\ 2 \in Vouts /\ 3 \in Vouts /\ 4 \in Vouts
  BY ConvertingHands DEF RunInvariant, ConvertingShape
<1>5. \A i \in DOMAIN Edicts : i \in Nat /\ (i < cursor + 1 <=> i < cursor \/ i = cursor)
  BY <1>2, <1>3 DEF KeepsOut
<1>6. /\ e.id \in Rune /\ e.amount \in Nat /\ e.output \in {1, 3} /\ EdictView(e)
      /\ e.id \in Rune => e.id # NoRune
  BY <1>1 DEF EdictOf, Rune, NoRune, ID0, ID1
<1>7. \A i : Takes(i)' = Takes(i) /\ AsksMore(i)' = AsksMore(i)
  BY <1>4 DEF Takes, AsksMore
<1>8. \A r \in Rune : allocated'[4][r] = 0 /\ allocated'[2][r] = 0 /\ txBurned'[r] = 0
  BY <1>3, <1>4, <1>6 DEF RefundState, EdictView
<1>9. CASE e.id = Out
  <2>1. PICK a, u, g, x, c, id :
          /\ a = allocated[3][Out] /\ u = unallocated[Out] /\ c = converted[Out]
          /\ g = Gives(e.amount, u) /\ x = Excess(e.amount, u) /\ id = command.id
    OBVIOUS
  <2>2. e.output = 3
    BY <1>1, <1>2, <1>3, <1>9 DEF KeepsOut
  <2>3. /\ allocated'[3][Out] = a + g /\ unallocated'[Out] = u - g /\ converted'[Out] = c + x
        /\ allocated'[1][Out] = 0
        /\ allocated'[1][id] = allocated[1][id] /\ allocated'[3][id] = allocated[3][id]
        /\ unallocated'[id] = unallocated[id]
    BY <1>3, <1>4, <1>6, <1>9, <2>1, <2>2 DEF EdictView, RefundState
  <2>4. a \in Nat /\ u \in Nat /\ c \in Nat /\ a + u = OwnIn(Out) /\ OwnIn(Out) \in Nat
    BY <1>3, <1>4, <2>1 DEF RefundState
  <2>5. /\ g \in Nat /\ x \in Nat /\ g <= u
        /\ e.amount = 0 => g = u
        /\ e.amount > u => g = u /\ x > 0
        /\ u = 0 => g = 0
    BY <1>6, <2>1, <2>4 DEF Gives, Excess, Smaller
  <2>6. (a + g) + (u - g) = OwnIn(Out)
    BY <2>4, <2>5
  <2>7. \A i \in DOMAIN Edicts : i < cursor + 1 /\ Takes(i) => unallocated'[Out] = 0
    <3>1. ASSUME NEW i \in DOMAIN Edicts, i < cursor, Takes(i) PROVE unallocated'[Out] = 0
      <4>1. u = 0
        BY <1>3, <2>1, <3>1 DEF RefundState
      <4>2. g = 0
        BY <2>5, <4>1
      <4> QED BY <2>3, <4>1, <4>2
    <3>2. ASSUME Takes(cursor) PROVE unallocated'[Out] = 0
      <4>1. g = u
        BY <1>1, <2>5, <3>2 DEF Takes
      <4> QED BY <2>3, <2>4, <4>1
    <3> QED BY <1>5, <3>1, <3>2
  <2>8. \A i \in DOMAIN Edicts :
          i < cursor + 1 /\ AsksMore(i) => unallocated'[Out] = 0 /\ converted'[Out] > 0
    <3>1. ASSUME NEW i \in DOMAIN Edicts, i < cursor, AsksMore(i)
          PROVE  unallocated'[Out] = 0 /\ converted'[Out] > 0
      <4>1. u = 0 /\ c > 0
        BY <1>3, <2>1, <3>1 DEF RefundState
      <4>2. g = 0
        BY <2>5, <4>1
      <4>3. c + x > 0
        BY <2>4, <2>5, <4>1
      <4> QED BY <2>3, <4>1, <4>2, <4>3
    <3>2. ASSUME AsksMore(cursor) PROVE unallocated'[Out] = 0 /\ converted'[Out] > 0
      <4>1. e.amount > u
        <5>1. ASSUME NEW j \in DOMAIN Edicts, j < cursor, Takes(j) PROVE u = 0
          BY <1>3, <2>1, <5>1 DEF RefundState
        <5>2. e.amount > 0 /\ (e.amount > OwnIn(Out) \/ u = 0)
          BY <1>1, <3>2, <5>1 DEF AsksMore
        <5> QED BY <1>6, <2>4, <5>2
      <4>2. g = u /\ x > 0
        BY <2>5, <4>1
      <4> QED BY <2>3, <2>4, <2>5, <4>2
    <3> QED BY <1>5, <3>1, <3>2
  <2>9. (allocated'[1][id] + allocated'[3][id]) + unallocated'[id] = OwnIn(id)
    BY <1>3, <2>1, <2>3 DEF RefundState
  <2>10. allocated'[3][Out] + unallocated'[Out] = OwnIn(Out)
    BY <2>3, <2>6
  <2> QED BY <1>3, <1>4, <1>6, <1>7, <1>8, <2>1, <2>3, <2>7, <2>8, <2>9, <2>10 DEF RefundState
<1>10. CASE e.id # Out
  <2>1. e.id = command.id
    BY <1>6, <1>10 DEF ConvertingShape
  <2>2. PICK id, u, g : id = command.id /\ u = unallocated[id] /\ g = Gives(e.amount, u)
    OBVIOUS
  <2>3. id \in Rune /\ u \in Nat /\ allocated[1][id] \in Nat /\ allocated[3][id] \in Nat
    BY <1>4, <2>2
  <2>4. g \in Nat /\ g <= u
    BY <1>6, <2>2, <2>3, GivesAll
  <2>5. /\ allocated'[1][Out] = 0 /\ allocated'[3][Out] = allocated[3][Out]
        /\ unallocated'[Out] = unallocated[Out] /\ converted'[Out] = converted[Out]
        /\ unallocated'[id] = u - g
        /\ allocated'[1][id] = allocated[1][id] + (IF e.output = 1 THEN g ELSE 0)
        /\ allocated'[3][id] = allocated[3][id] + (IF e.output = 3 THEN g ELSE 0)
    BY <1>3, <1>4, <1>6, <1>10, <2>1, <2>2, <2>3 DEF EdictView, RefundState
  <2>6. (allocated[1][id] + allocated[3][id]) + u = OwnIn(id)
    BY <1>3, <2>2 DEF RefundState
  <2>7. (allocated'[1][id] + allocated'[3][id]) + unallocated'[id] = OwnIn(id)
    BY <1>6, <2>3, <2>4, <2>5, <2>6
  <2>8. \A i \in DOMAIN Edicts : i < cursor + 1 /\ (Takes(i) \/ AsksMore(i)) => i < cursor
    BY <1>1, <1>5, <1>10 DEF Takes, AsksMore
  <2>9. allocated'[3][Out] + unallocated'[Out] = OwnIn(Out)
    BY <1>3, <2>5 DEF RefundState
  <2>10. \A i \in DOMAIN Edicts : i < cursor + 1 /\ Takes(i) => unallocated'[Out] = 0
    BY <1>3, <2>5, <2>8 DEF RefundState
  <2>11. \A i \in DOMAIN Edicts :
           i < cursor + 1 /\ AsksMore(i) => unallocated'[Out] = 0 /\ converted'[Out] > 0
    BY <1>3, <2>5, <2>8 DEF RefundState
  <2> QED BY <1>3, <1>4, <1>6, <1>7, <1>8, <2>2, <2>5, <2>7, <2>9, <2>10, <2>11 DEF RefundState
<1> QED BY <1>3, <1>9, <1>10

\* The last of some edicts.
LEMMA MaxIs ==
  ASSUME NEW S, S \subseteq Nat, NEW m \in S, \A n \in S : n <= m
  PROVE  Max(S) = m
<1>1. m \in S /\ \A n \in S : m >= n
  OBVIOUS
<1>2. Max(S) \in S /\ \A n \in S : Max(S) >= n
  BY <1>1 DEF Max
<1>3. Max(S) >= m /\ m >= Max(S) /\ Max(S) \in Nat /\ m \in Nat
  BY <1>1, <1>2
<1> QED BY <1>3

\* Between the mint and the edicts.
LEMMA RefundBegins ==
  ASSUME RunInvariant, OwnStep, ConvertingShape, Refunding, Mint \/ NoMint
  PROVE  RefundState' /\ pc' = "edicts"
<1>1. Exact
  BY DEF Exact, Refunding
<1>2. /\ pc' = "edicts" /\ cursor' = 1
      /\ \A r \in Rune : unallocated'[r] = unallocated[r] /\ unallocated[r] = OwnIn(r) /\ txBurned'[r] = 0
      /\ \A v \in 1..4 : \A r \in Rune : allocated'[v][r] = 0
  BY <1>1, ConvertingBegins
<1>3. /\ Out' = Out /\ Edicts' = Edicts /\ command' = command
      /\ (\A r : (OwnIn(r))' = OwnIn(r)) /\ Out \in Rune /\ command.id \in Rune
      /\ \A r \in Rune : OwnIn(r) \in Nat
  BY ConvertingHands DEF RunInvariant
<1>4. \A i \in DOMAIN Edicts : ~(i < 1)
  BY StoneKeepsOut DEF KeepsOut
<1>5. 1 \in 1..4 /\ 2 \in 1..4 /\ 3 \in 1..4 /\ 4 \in 1..4 /\ ~(1 > 1)
  OBVIOUS
<1>6. PICK id : id = command.id
  OBVIOUS
<1>7. /\ (allocated'[1][id] + allocated'[3][id]) + unallocated'[id] = OwnIn(id)
      /\ allocated'[3][Out] + unallocated'[Out] = OwnIn(Out)
  BY <1>2, <1>3, <1>5, <1>6
<1> QED BY <1>2, <1>3, <1>4, <1>5, <1>6, <1>7 DEF RefundState

\* What the edicts leave over of the rune it takes goes to the OP_RETURN output or
\* to the wallet.
LEMMA RefundByRest ==
  ASSUME RunInvariant, OwnStep, ConvertingShape, KeptEdicts, Refunding, RefundState,
         AllocateRest \/ BurnRest
  PROVE  RefundBurns' /\ pc' = "burn"
<1>1. RestView(RestTo) /\ KeepsOut /\ RefundEdicts
  BY ConvertingRest, StoneKeepsOut, StoneRefunds
<1>2. /\ pc = "edicts" /\ pc' = "burn" /\ cursor \notin DOMAIN Edicts /\ cursor' = 1
      /\ cursor >= 1 /\ cursor \in Nat
      /\ converted' = converted /\ lastId' = lastId /\ txBurned' = txBurned
  BY <1>1 DEF RestView, conversion, KeptEdicts, RunInvariant, WalletInvariant, Updater,
     UpdaterInvariant, TypeOK, TransactionType
<1>3. /\ \A v \in 1..4 : \A r \in Rune : allocated[v][r] \in Nat
      /\ \A r \in Rune : unallocated[r] \in Nat /\ OwnIn(r) \in Nat
      /\ Out' = Out /\ command' = command
      /\ (\A r : (OwnIn(r))' = OwnIn(r)) /\ Out \in Rune /\ command.id \in Rune /\ Vouts = 1..4
      /\ 1 \in 1..4 /\ 2 \in 1..4 /\ 3 \in 1..4 /\ 4 \in 1..4
  BY ConvertingHands DEF RunInvariant, ConvertingShape
<1>4. \A i \in DOMAIN Edicts : i \in Nat /\ i >= 1 /\ i < cursor
  BY <1>1, <1>2 DEF KeepsOut
<1>5. unallocated[Out] = 0 /\ converted[Out] > 0 /\ cursor > 1
  <2>1. PICK i \in DOMAIN Edicts : AsksMore(i)
    BY <1>1 DEF RefundEdicts
  <2>2. i \in Nat /\ i >= 1 /\ i < cursor
    BY <1>4
  <2> QED BY <1>2, <2>1, <2>2 DEF RefundState
<1>6. RestTo = 1 \/ RestTo = 3
  BY DEF RestTo
<1>7. PICK id, d, out : id = command.id /\ d = RestTo /\ out = Out
  OBVIOUS
<1>8. \A v \in 1..4 : \A r \in Rune :
        allocated'[v][r] = IF v = d THEN allocated[v][r] + unallocated[r] ELSE allocated[v][r]
  BY <1>1, <1>3, <1>7 DEF RestView
<1>9. /\ \A r \in Rune : allocated[4][r] = 0 /\ allocated[2][r] = 0 /\ txBurned[r] = 0
      /\ allocated[1][out] = 0 /\ allocated[3][out] + unallocated[out] = OwnIn(out)
      /\ (allocated[1][id] + allocated[3][id]) + unallocated[id] = OwnIn(id)
      /\ lastId # NoRune
  BY <1>2, <1>5, <1>7 DEF RefundState
<1>10. \A r \in Rune : allocated'[4][r] = 0 /\ allocated'[2][r] = 0
  BY <1>3, <1>6, <1>7, <1>8, <1>9
<1>11. allocated'[1][out] = 0 /\ allocated'[3][out] = OwnIn(out)
  <2>1. /\ allocated'[1][out] = IF d = 1 THEN allocated[1][out] + unallocated[out] ELSE allocated[1][out]
        /\ allocated'[3][out] = IF d = 3 THEN allocated[3][out] + unallocated[out] ELSE allocated[3][out]
    BY <1>3, <1>7, <1>8
  <2>2. unallocated[out] = 0 /\ allocated[3][out] \in Nat
    BY <1>3, <1>5, <1>7
  <2> QED BY <1>9, <2>1, <2>2
<1>12. (allocated'[1][id] + allocated'[3][id]) + txBurned'[id] = OwnIn(id)
  <2>1. /\ allocated'[1][id] = IF d = 1 THEN allocated[1][id] + unallocated[id] ELSE allocated[1][id]
        /\ allocated'[3][id] = IF d = 3 THEN allocated[3][id] + unallocated[id] ELSE allocated[3][id]
    BY <1>3, <1>7, <1>8
  <2>2. /\ allocated[1][id] \in Nat /\ allocated[3][id] \in Nat /\ unallocated[id] \in Nat
        /\ txBurned'[id] = 0 /\ OwnIn(id) \in Nat
    BY <1>2, <1>3, <1>7, <1>9
  <2> QED BY <1>6, <1>7, <1>9, <2>1, <2>2
<1>13. txBurned'[Out] = 0 /\ converted'[Out] > 0 /\ lastId' # NoRune /\ cursor' >= 1 /\ ~(cursor' > 1)
  BY <1>2, <1>3, <1>5, <1>9
<1> QED BY <1>2, <1>3, <1>7, <1>10, <1>11, <1>12, <1>13 DEF RefundBurns

\* What the OP_RETURN output was given is burned.
LEMMA RefundByBurn ==
  ASSUME RunInvariant, OwnStep, ConvertingShape, RefundBurns, BurnOutput
  PROVE  RefundBurns' /\ pc' = "burn"
<1>1. Updater
  BY DEF RunInvariant, WalletInvariant
<1>2. cursor \in Vouts /\ pc = "burn"
  BY DEF BurnOutput
<1>3. IsOpReturn(cursor) <=> cursor = 1
  BY <1>2 DEF ConvertingShape
<1>4. BurnView(1)
  BY <1>1, <1>3, BurnStep
<1>5. /\ pc = "burn" /\ pc' = "burn" /\ cursor' = cursor + 1 /\ converted' = converted /\ lastId' = lastId
      /\ cursor \in 1..4
  BY <1>2, <1>4 DEF BurnView, conversion, ConvertingShape
<1>6. /\ \A v \in 1..4 : \A r \in Rune : allocated[v][r] \in Nat
      /\ \A r \in Rune : txBurned[r] \in Nat /\ OwnIn(r) \in Nat
      /\ Out' = Out /\ command' = command
      /\ (\A r : (OwnIn(r))' = OwnIn(r)) /\ Out \in Rune /\ command.id \in Rune /\ Vouts = 1..4
      /\ 1 \in 1..4 /\ 2 \in 1..4 /\ 3 \in 1..4 /\ 4 \in 1..4
  BY ConvertingHands DEF RunInvariant, ConvertingShape
<1>7. PICK id, out : id = command.id /\ out = Out
  OBVIOUS
<1>8. /\ \A r \in Rune : allocated[4][r] = 0 /\ allocated[2][r] = 0
      /\ allocated[1][out] = 0 /\ allocated[3][out] = OwnIn(out) /\ txBurned[out] = 0
      /\ (allocated[1][id] + allocated[3][id]) + txBurned[id] = OwnIn(id)
      /\ cursor >= 1 /\ (cursor > 1 => allocated[1][id] = 0)
      /\ lastId # NoRune /\ converted[out] > 0
  BY <1>5, <1>7 DEF RefundBurns
<1>9. allocated'[2] = allocated[2] /\ allocated'[3] = allocated[3] /\ allocated'[4] = allocated[4]
  BY <1>4, <1>6 DEF BurnView
<1>10. /\ cursor # 1 => allocated'[1] = allocated[1] /\ txBurned' = txBurned
       /\ cursor = 1 => /\ allocated'[1] = Zero
                        /\ \A r \in Rune : txBurned'[r] = txBurned[r] + allocated[1][r]
  BY <1>4, <1>6 DEF BurnView
<1>11. /\ allocated'[1][out] = 0 /\ txBurned'[out] = 0 /\ allocated'[1][id] = 0
       /\ (allocated'[1][id] + allocated'[3][id]) + txBurned'[id] = OwnIn(id)
  <2>1. Zero[out] = 0 /\ Zero[id] = 0
    BY <1>6, <1>7 DEF Zero
  <2>2. /\ allocated[1][id] \in Nat /\ allocated[3][id] \in Nat /\ txBurned[id] \in Nat /\ OwnIn(id) \in Nat
        /\ allocated[1][out] \in Nat /\ txBurned[out] \in Nat /\ id \in Rune /\ out \in Rune
        /\ cursor \in Nat
    BY <1>5, <1>6, <1>7
  <2>3. CASE cursor = 1
    <3>1. /\ allocated'[1][out] = 0 /\ allocated'[1][id] = 0 /\ allocated'[3][id] = allocated[3][id]
          /\ txBurned'[out] = txBurned[out] + allocated[1][out]
          /\ txBurned'[id] = txBurned[id] + allocated[1][id]
      BY <1>9, <1>10, <2>1, <2>2, <2>3
    <3> QED BY <1>8, <2>2, <3>1
  <2>4. CASE cursor # 1
    <3>1. /\ allocated'[1][out] = allocated[1][out] /\ allocated'[1][id] = allocated[1][id]
          /\ allocated'[3][id] = allocated[3][id]
          /\ txBurned'[out] = txBurned[out] /\ txBurned'[id] = txBurned[id]
      BY <1>9, <1>10, <2>4
    <3>2. cursor > 1
      BY <1>8, <2>2, <2>4
    <3> QED BY <1>8, <3>1, <3>2
  <2> QED BY <2>3, <2>4
<1>12. cursor' >= 1
  BY <1>5
<1> QED BY <1>5, <1>6, <1>7, <1>8, <1>9, <1>11, <1>12 DEF RefundBurns

\* What is due, when the outputs of the wallet were given this much.
LEMMA RefundIsDue ==
  ASSUME RunInvariant, OwnStep, ConvertingShape, balances' = balances,
         pc \in {"mint", "edicts", "burn", "convert", "return"}, NEW r \in Rune,
         allocated'[3][r] = OwnIn(r), allocated'[4][r] = 0
  PROVE  Due(r)' = 0
<1>1. OwnIn(r) \in Nat
  BY DEF ConvertingShape
<1>2. PICK a, b, n : a = allocated'[3][r] /\ b = allocated'[4][r] /\ n = OwnIn(r)
  OBVIOUS
<1>3. a \in Nat /\ b = 0 /\ a = n /\ n \in Nat
  BY <1>1, <1>2
<1>4. Due(r)' = (a + b) - n
  BY <1>2, <1>3, ConvertingDue
<1> QED BY <1>3, <1>4

\* The rune that was burned is found, or there is none and nothing is due.
LEMMA RefundByDetect ==
  ASSUME RunInvariant, OwnStep, ConvertingShape, RefundBurns, DetectConversion
  PROVE  \/ RefundReturns' /\ pc' = "convert"
         \/ (\A r \in Rune : Due(r)' = 0) /\ pc' = "store"
<1>1. /\ pc = "burn" /\ cursor \notin Vouts /\ balances' = balances
      /\ inputId' = (IF lastId = NoRune THEN NoRune ELSE ConversionInput)
      /\ pc' = (IF inputId' = NoRune THEN "store" ELSE "convert")
      /\ allocated' = allocated /\ txBurned' = txBurned /\ cursor \in Nat
  BY DEF DetectConversion, allocation, tables, RunInvariant, WalletInvariant, Updater, UpdaterInvariant,
     TypeOK, TransactionType
<1>2. PICK id, out : id = command.id /\ out = Out
  OBVIOUS
<1>3. /\ \A v \in 1..4 : \A r \in Rune : allocated[v][r] \in Nat
      /\ \A r \in Rune : txBurned[r] \in Nat /\ OwnIn(r) \in Nat
      /\ Out' = Out /\ command' = command /\ (\A r : (OwnIn(r))' = OwnIn(r))
      /\ id \in Rune /\ out \in Rune /\ Vouts = 1..4 /\ \A r \in Rune : r = id \/ r = out
      /\ Other(id) = out /\ id # out
  BY <1>2, ConvertingHands DEF RunInvariant, ConvertingShape, Out
<1>4. cursor > 1
  <2>1. cursor >= 1 /\ cursor \notin 1..4
    BY <1>1, <1>3 DEF RefundBurns
  <2> QED BY <1>1, <2>1
<1>5. /\ \A r \in Rune : allocated[4][r] = 0 /\ allocated[2][r] = 0
      /\ allocated[1][out] = 0 /\ allocated[3][out] = OwnIn(out) /\ txBurned[out] = 0
      /\ (allocated[1][id] + allocated[3][id]) + txBurned[id] = OwnIn(id)
      /\ allocated[1][id] = 0
      /\ lastId # NoRune /\ converted[out] > 0
  BY <1>1, <1>2, <1>4 DEF RefundBurns
<1>6. allocated[3][id] + txBurned[id] = OwnIn(id) /\ allocated[3][id] \in Nat /\ txBurned[id] \in Nat
  <2>1. allocated[3][id] \in Nat /\ txBurned[id] \in Nat /\ OwnIn(id) \in Nat
    BY <1>3
  <2> QED BY <1>5, <2>1
<1>7. Convertible(id) <=> txBurned[id] > 0
  BY <1>3, <1>5 DEF Convertible
<1>8. ~Convertible(out)
  BY <1>5 DEF Convertible
<1>9. inputId' = IF txBurned[id] > 0 THEN id ELSE NoRune
  BY <1>1, <1>3, <1>5, <1>7, <1>8 DEF ConversionInput, Rune, ID0, ID1
<1>10. CASE txBurned[id] > 0
  <2>1. inputId' = id /\ id # NoRune
    BY <1>3, <1>9, <1>10 DEF Rune, ID0, ID1, NoRune
  <2>2. pc' = "convert"
    BY <1>1, <2>1
  <2> QED BY <1>1, <1>2, <1>3, <1>5, <1>6, <2>1, <2>2 DEF RefundReturns
<1>11. CASE ~(txBurned[id] > 0)
  <2>1. pc' = "store"
    BY <1>1, <1>9, <1>11
  <2>2. allocated[3][id] = OwnIn(id)
    BY <1>6, <1>11
  <2>3. ASSUME NEW r \in Rune PROVE Due(r)' = 0
    <3>1. allocated'[3][r] = OwnIn(r) /\ allocated'[4][r] = 0
      BY <1>1, <1>3, <1>5, <2>2
    <3> QED BY <1>1, <3>1, RefundIsDue
  <2> QED BY <2>1, <2>3
<1> QED BY <1>10, <1>11

\* Where what is not converted goes.
LEMMA RefundReturnsTo ==
  ASSUME WalletInvariant, OwnRun, ConvertingShape, Refunding, RefundReturns, pc = "return", ~order.converted
  PROVE  ReturnOutputs = {3}
<1>1. RefundEdicts /\ KeepsOut
  BY StoneRefunds, StoneKeepsOut
<1>2. PICK id, out : id = command.id /\ out = Out
  OBVIOUS
<1>3. inputId = id /\ id # out /\ Vouts = 1..4 /\ id \in Rune
  BY <1>2 DEF RefundReturns, ConvertingShape
<1>4. \A e : e.output = 3 => ~ToEach(e)
  <2>1. Len(tx.outputs) \in Nat
    BY DEF WalletInvariant, Updater, UpdaterInvariant, TypeOK, TransactionType, Template
  <2>2. PICK n \in Nat : n = Len(tx.outputs)
    BY <2>1
  <2>3. 3 \in 1..n
    BY <1>3, <2>2 DEF Vouts
  <2>4. 3 # n + 1
    BY <2>3
  <2> QED BY <2>2, <2>4 DEF ToEach
<1>5. DOMAIN Edicts \subseteq Nat
  BY <1>1 DEF KeepsOut
<1>6. EdictsToOutput \subseteq DOMAIN Edicts /\ \A i \in EdictsToOutput : Edicts[i].id = id
  BY <1>3 DEF EdictsToOutput
<1>7. CASE (\A i \in DOMAIN Edicts : Edicts[i].id = out) /\ 1 \in DOMAIN Edicts /\ Edicts[1].output = 3
  <2>1. EdictsToOutput = {}
    BY <1>3, <1>6, <1>7
  <2>2. Holders \subseteq {3}
    <3>1. ASSUME NEW v \in 1..4, allocated[v][id] > 0 PROVE v = 3
      BY <1>2, <1>3, <3>1 DEF RefundReturns
    <3> QED BY <1>3, <3>1 DEF Holders
  <2>3. CASE Holders = {}
    BY <1>4, <1>7, <2>1, <2>3 DEF ReturnOutputs
  <2>4. CASE Holders # {}
    <3>1. 3 \in Holders
      BY <2>2, <2>4
    <3>2. Min(Holders) = 3
      <4>1. Holders \subseteq Nat
        BY <2>2
      <4>2. ASSUME NEW n \in Holders PROVE 3 <= n
        <5>1. n = 3
          BY <2>2, <4>2
        <5> QED BY <5>1
      <4> QED BY <3>1, <4>1, <4>2, MinIs
    <3> QED BY <2>1, <2>4, <3>2 DEF ReturnOutputs
  <2> QED BY <2>3, <2>4
<1>8. ASSUME NEW m \in DOMAIN Edicts, Edicts[m].id = id, Edicts[m].output = 3,
             \A i \in DOMAIN Edicts : Edicts[i].id = id => i <= m
      PROVE  ReturnOutputs = {3}
  <2>1. m \in EdictsToOutput
    BY <1>3, <1>4, <1>8 DEF EdictsToOutput
  <2>2. EdictsToOutput \subseteq Nat /\ \A i \in EdictsToOutput : i <= m
    BY <1>5, <1>6, <1>8
  <2>3. Max(EdictsToOutput) = m
    BY <2>1, <2>2, MaxIs
  <2> QED BY <1>8, <2>1, <2>3 DEF ReturnOutputs
<1> QED BY <1>1, <1>2, <1>7, <1>8 DEF RefundEdicts

\* It comes back to the wallet.
LEMMA RefundByReturn ==
  ASSUME RunInvariant, OwnStep, ConvertingShape, Refunding, RefundReturns, ReturnInput, ~order.converted
  PROVE  (\A r \in Rune : Due(r)' = 0) /\ pc' = "store"
<1>1. PICK id, out : id = command.id /\ out = Out
  OBVIOUS
<1>2. /\ \A v \in 1..4 : \A r \in Rune : allocated[v][r] \in Nat
      /\ \A r \in Rune : txBurned[r] \in Nat /\ OwnIn(r) \in Nat
      /\ id \in Rune /\ out \in Rune /\ Vouts = 1..4 /\ \A r \in Rune : r = id \/ r = out
      /\ id # out /\ 3 \in 1..4 /\ 4 \in 1..4
  BY <1>1, ConvertingHands DEF RunInvariant, ConvertingShape
<1>3. Updater /\ pc = "return" /\ OwnRun /\ WalletInvariant
  BY DEF RunInvariant, WalletInvariant, ReturnInput, OwnStep
<1>4. /\ \A r \in Rune : allocated[4][r] = 0
      /\ allocated[3][out] = OwnIn(out) /\ inputId = id
      /\ allocated[3][id] + txBurned[id] = OwnIn(id)
  BY <1>1, <1>3 DEF RefundReturns
<1>5. ReturnOutputs = {3}
  BY <1>3, RefundReturnsTo
<1>6. ReturnView(3)
  BY <1>2, <1>3, <1>4, <1>5, ReturnStep
<1>7. /\ pc' = "store" /\ balances' = balances
      /\ allocated'[3][id] = OwnIn(id) /\ allocated'[3][out] = OwnIn(out)
      /\ \A r \in Rune : allocated'[4][r] = 0
  BY <1>2, <1>4, <1>6 DEF ReturnView
<1>8. ASSUME NEW r \in Rune PROVE Due(r)' = 0
  <2>1. allocated'[3][r] = OwnIn(r) /\ allocated'[4][r] = 0
    BY <1>2, <1>7
  <2> QED BY <1>3, <1>7, <2>1, RefundIsDue
<1> QED BY <1>7, <1>8

\* The steps on a conversion, while it is not accepted.
LEMMA RefundSteps ==
  ASSUME RunInvariant, KeptRight, RefundRight, OwnStep, Kind = "convert", Refunding
  PROVE  RefundState' /\ RefundBurns' /\ RefundReturns' /\ RefundDue'
<1>1. /\ WalletInvariant /\ OwnRun /\ OwnFresh /\ OwnCases
      /\ KeptEdicts /\ RefundState /\ RefundBurns /\ RefundReturns /\ RefundDue
  BY OwnCase DEF RunInvariant, OwnStep, KeptRight, RefundRight
<1>2. ConvertingShape
  BY <1>1, ConvertingRight
<1>3. /\ Out' = Out /\ command' = command
      /\ (\A r : (OwnIn(r))' = OwnIn(r)) /\ Out \in Rune /\ command.id \in Rune
      /\ (order'.converted <=> order.converted \/ (pc = "convert" /\ Acceptable /\ Connected))
  BY <1>1, <1>2, ConvertingHands DEF OwnStep
<1>4. CASE Mint \/ NoMint
  BY <1>1, <1>2, <1>4, RefundBegins DEF RefundBurns, RefundReturns, RefundDue
<1>5. CASE ApplyEdict
  BY <1>1, <1>2, <1>5, RefundByEdict DEF RefundBurns, RefundReturns, RefundDue
<1>6. CASE AllocateRest \/ BurnRest
  BY <1>1, <1>2, <1>6, RefundByRest DEF RefundState, RefundReturns, RefundDue
<1>7. CASE BurnOutput
  BY <1>1, <1>2, <1>7, RefundByBurn DEF RefundState, RefundReturns, RefundDue
<1>8. CASE DetectConversion
  <2>1. \/ RefundReturns' /\ pc' = "convert"
        \/ (\A r \in Rune : Due(r)' = 0) /\ pc' = "store"
    BY <1>1, <1>2, <1>8, RefundByDetect
  <2> QED BY <2>1 DEF RefundState, RefundBurns, RefundReturns, RefundDue
<1>9. CASE ConvertExactInput \/ ConvertExactOutput
  <2>1. pc = "convert" /\ Acceptable /\ Connected /\ pc' = "return"
    BY <1>9 DEF ConvertExactInput, ConvertExactOutput
  <2>2. order'.converted
    BY <1>3, <2>1
  <2> QED BY <2>1, <2>2 DEF RefundState, RefundBurns, RefundReturns, RefundDue
<1>10. CASE RefuseConversion
  <2>1. pc = "convert" /\ pc' = "return" /\ allocated' = allocated /\ txBurned' = txBurned /\ inputId' = inputId
    BY <1>10 DEF RefuseConversion, allocation, conversion
  <2>2. PICK id, out : id = command.id /\ out = Out
    OBVIOUS
  <2> QED BY <1>1, <1>3, <2>1, <2>2 DEF RefundState, RefundBurns, RefundReturns, RefundDue
<1>11. CASE ReturnInput
  <2>1. pc' = "store"
    BY <1>11 DEF ReturnInput
  <2>2. ~order.converted => \A r \in Rune : Due(r)' = 0
    BY <1>1, <1>2, <1>11, RefundByReturn
  <2> QED BY <1>3, <2>1, <2>2 DEF RefundState, RefundBurns, RefundReturns, RefundDue
<1>12. CASE StoreOutput
  <2>1. pc = "store" /\ pc' = "store"
    BY <1>12 DEF StoreOutput
  <2>2. \A r \in Rune : Due(r)' = Due(r)
    BY <1>1, <1>12, DueKept DEF StoredView
  <2> QED BY <1>1, <1>3, <2>1, <2>2 DEF RefundState, RefundBurns, RefundReturns, RefundDue
<1>13. CASE pc' \in {"inputs", "mint", "panicked"}
  BY <1>13 DEF RefundState, RefundBurns, RefundReturns, RefundDue
<1> QED BY <1>1, <1>4, <1>5, <1>6, <1>7, <1>8, <1>9, <1>10, <1>11, <1>12, <1>13 DEF OwnCases

\* All steps.
LEMMA RefundRightStays ==
  ASSUME RunInvariant, KeptRight, RefundRight, [WalletNext]_walletVars
  PROVE  RefundRight'
<1>1. OwnView
  BY OwnSteps DEF RunInvariant
<1>2. CASE OwnRests
  <2>1. StillView
    BY <1>2, OwnStill
  <2>2. /\ Out' = Out /\ Kind' = Kind /\ Edicts' = Edicts /\ (Refunding' <=> Refunding)
        /\ \A i : (Takes(i))' = Takes(i) /\ (AsksMore(i))' = AsksMore(i)
    BY <2>1 DEF StillView, Out, Kind, Edicts, Refunding, Asks, HasEnd, Takes, AsksMore
  <2>3. RefundState' = RefundState
    BY <2>1, <2>2 DEF StillView, RefundState
  <2>4. RefundBurns' = RefundBurns
    BY <2>1, <2>2 DEF StillView, RefundBurns
  <2>5. RefundReturns' = RefundReturns
    BY <2>1, <2>2 DEF StillView, RefundReturns
  <2>6. RefundDue' = RefundDue
    BY <2>1 DEF StillView, RefundDue
  <2> QED BY <2>1, <2>2, <2>3, <2>4, <2>5, <2>6 DEF StillView, RefundRight
<1>3. CASE OwnTake
  <2>1. pc' = "inputs"
    BY <1>3, OwnTakes
  <2> QED BY <2>1 DEF RefundRight, RefundState, RefundBurns, RefundReturns, RefundDue
<1>4. CASE OwnStep
  <2>1. command' = command /\ HasEnd' = HasEnd /\ offer' = offer /\ order'.end = order.end
    BY <1>4, OwnLocals DEF OwnStep
  <2>2. Kind' = Kind /\ (Refunding' <=> Refunding)
    BY <2>1 DEF Kind, Refunding, Asks
  <2> QED BY <1>4, <2>2, RefundSteps DEF RefundRight, OwnStep
<1>5. CASE ~OwnRun'
  BY <1>5 DEF RefundRight
<1> QED BY <1>1, <1>2, <1>3, <1>4, <1>5 DEF OwnView

\* When it is done with, the wallet has lost nothing.
LEMMA RefusedStays ==
  ASSUME RunInvariant, RefundRight, RefusedComesBack, [WalletNext]_walletVars
  PROVE  RefusedComesBack'
<1> SUFFICES ASSUME order'.status = "indexed", command'.kind = "convert", ~order'.converted, Refunding'
             PROVE  order'.got = Zero
  BY DEF RefusedComesBack, Done, Refunding
<1>1. WalletInvariant /\ Accounted /\ OwnView
  BY OwnSteps DEF RunInvariant
<1>2. CASE OwnFinish
  <2>1. /\ command' = command /\ offer' = offer /\ HasEnd' = HasEnd /\ OwnRun /\ pc = "store"
        /\ ~order.converted /\ order'.end = order.end
    BY <1>2, OwnLocals DEF OwnFinish, FinishTransaction
  <2>2. Kind = "convert" /\ Refunding
    BY <2>1 DEF Refunding, Asks, Kind
  <2>3. \A r \in Rune : Due(r) = 0
    BY <2>1, <2>2 DEF RefundRight, RefundDue
  <2>4. \A r \in Rune : order'.got[r] = 0
    BY <1>1, <1>2, <2>3, DueGot
  <2>5. order'.got = [r \in Rune |-> WalletHas[r] - order.had[r]]
    BY <1>2 DEF OwnFinish
  <2> QED BY <2>4, <2>5 DEF Zero
<1>3. CASE OwnOver
  BY <1>3 DEF OwnOver, locals, RefusedComesBack, Done, Refunding, Asks, HasEnd
<1> QED BY <1>1, <1>2, <1>3 DEF OwnView

(***************************************************************************)
(* A conversion that the index refuses, because of what was mined before   *)
(* it, costs the wallet nothing when it leaves no change or fixes the      *)
(* output: the rune it burned is given back to the wallet's output, and    *)
(* the rune it asked for was never taken.                                  *)
(***************************************************************************)
THEOREM RefusedReturns == WalletSpec => []RefusedComesBack
<1>1. WalletInit => KeptRight /\ RefundRight /\ RefusedComesBack
  BY DEF WalletInit, NoOrder, KeptRight, RefundRight, RefusedComesBack, Done, OwnRun
<1>2. RunInvariant /\ KeptRight /\ RefundRight /\ RefusedComesBack /\ [WalletNext]_walletVars
        => KeptRight' /\ RefundRight' /\ RefusedComesBack'
  BY KeptRightStays, RefundRightStays, RefusedStays
<1> QED BY <1>1, <1>2, RunInvariance, PTL DEF WalletSpec

-----------------------------------------------------------------------------
(* A mint: before its block. *)

(***************************************************************************)
(* A coinbase carries no chain; the entries that are read at one height    *)
(* are those of the index until the block is indexed, and the end of the   *)
(* chain is of an earlier block.                                           *)
(***************************************************************************)
CoinbasePlain ==
  \A n \in DOMAIN txs : txs[n].template.coinbase =>
    \A v \in DOMAIN txs[n].template.outputs : txs[n].template.outputs[v].script = "plain"
AllRead == {"end", "value", "lock", "build", "fund", "send", "done"}
ReadsRight ==
  /\ \A h \in readAt : h <= height
  /\ phase \in {"start", "list", "info"} \/ (Kind = "mint" /\ phase \in {"count", "tighten"}) => readAt = {}
  /\ phase = "ease" => readAt # {}
  /\ Kind = "mint" /\ pc = "idle" /\ readAt = {height} =>
       /\ phase = "ease" => read[ID0] = entries[ID0]
       /\ phase \in AllRead => read = entries
EndAged == HasEnd => \A u \in utxos : u.at = chainEnd.at => u.height < height
BeforeRight == CoinbasePlain /\ ReadsRight /\ EndAged

\* What is sent is no coinbase, and the coinbase of a block is plain.
LEMMA CoinbasePlainStays ==
  ASSUME WalletInvariant, CoinbasePlain, Happens
  PROVE  CoinbasePlain'
<1>1. txs \in Seq(Transaction)
  BY DEF WalletInvariant, NodeInvariant, NodeTypes
<1>2. ASSUME NEW t, t \in Transaction, txs' = Append(txs, t),
             t.template.coinbase =>
               \A v \in DOMAIN t.template.outputs : t.template.outputs[v].script = "plain"
      PROVE  CoinbasePlain'
  <2>1. /\ DOMAIN txs' = DOMAIN txs \cup {Len(txs) + 1}
        /\ \A n \in DOMAIN txs : txs'[n] = txs[n]
        /\ txs'[Len(txs) + 1] = t
    BY <1>1, <1>2, Appended
  <2> QED BY <1>2, <2>1 DEF CoinbasePlain
<1>3. ASSUME NEW t, Sendable(t), Sending(t) PROVE CoinbasePlain'
  BY <1>2, <1>3 DEF Sendable, Sending, Broadcast
<1>4. ASSUME NEW S, Mines(S) PROVE CoinbasePlain'
  <2>1. PICK t : t = CoinbaseTx({})
    OBVIOUS
  <2>2. /\ t \in Transaction /\ DOMAIN t.template.outputs = {1, 2}
        /\ \A v \in {1, 2} : t.template.outputs[v].script = "plain"
    BY <2>1, CoinbaseIs
  <2>3. txs' = Append(txs, t)
    BY <1>4, <2>1 DEF Mines
  <2> QED BY <1>2, <2>2, <2>3
<1>5. CASE txs' = txs
  BY <1>5 DEF CoinbasePlain
<1>6. Command_ \/ SendFails \/ IndexBegin \/ IndexTake \/ IndexStep \/ IndexEnd \/ UNCHANGED walletVars
        => txs' = txs
  BY CommandKeeps, IndexKeeps DEF WalletInvariant, NodeKept, SendFails, walletVars, nodeVars
<1> QED BY <1>3, <1>4, <1>5, <1>6 DEF Happens, SendOwn

\* Where the steps that are no request of the command lead the index.
IndexMoves ==
  \/ UNCHANGED vars
  \/ pc' # "idle" /\ height' = height
  \/ pc' = "idle" /\ height' = height + 1

\* Requests leave the index as it is, and only the end of a block raises the height.
LEMMA IndexMovesOn ==
  ASSUME WalletInvariant, Happens
  PROVE  IndexMoves /\ height \in Nat /\ height' >= height /\ (Command_ => UNCHANGED vars)
<1>1. height \in Nat
  BY DEF WalletInvariant, Updater, UpdaterInvariant, TypeOK, BlockType
<1>2. Command_ \/ SendOwn \/ SendFails \/ (\E t : Sending(t)) \/ (\E S : Mines(S) /\ IndexKept)
        \/ UNCHANGED walletVars => UNCHANGED vars
  BY CommandKeeps DEF SendOwn, SendFails, Sending, IndexKept, walletVars
<1>3. IndexBegin => pc' # "idle" /\ height' = height
  BY DEF IndexBegin, BeginBlock
<1>4. IndexTake => pc' # "idle" /\ height' = height
  BY TakeFacts DEF WalletInvariant, Updater, UpdaterInvariant
<1>5. IndexStep => pc' # "idle" /\ height' = height
  BY RunesStep DEF IndexStep, RunesFrames, FinishTransaction
<1>6. IndexEnd => pc' = "idle" /\ height' = height + 1
  BY DEF IndexEnd, EndBlock
<1>7. UNCHANGED vars => height' = height
  BY DEF vars
<1>8. IndexMoves
  BY <1>2, <1>3, <1>4, <1>5, <1>6 DEF Happens, IndexMoves
<1>9. Command_ => UNCHANGED vars
  BY <1>2
<1> QED BY <1>1, <1>7, <1>8, <1>9 DEF IndexMoves

\* The requests read the entries one after the other.
LEMMA ReadsByCommand ==
  ASSUME WalletInvariant, ReadsRight, Command_
  PROVE  ReadsRight'
<1>1. /\ pc' = pc /\ height' = height /\ entries' = entries /\ pc = "idle" /\ height \in Nat
      /\ PhaseMoves /\ Changes
  BY CommandKeeps, CommandMoves, CommandChanges
     DEF IndexKept, vars, tables, WalletInvariant, Updater, UpdaterInvariant, TypeOK, BlockType
<1>2. read \in [Rune -> Entry] /\ entries \in [Rune -> Entry]
  BY DEF WalletInvariant, CommandRight, CommandTypes, Updater, UpdaterInvariant, TypeOK, TablesType
<1>3. CASE GetEntries
  <2>1. command' = command /\ Kind' = Kind
    BY <1>3 DEF GetEntries, GetEntry, Kind
  <2>2. readAt' = readAt \cup {height}
    BY <1>3 DEF GetEntries, GetEntry
  <2>3. \A h \in readAt' : h <= height
    BY <1>1, <2>2 DEF ReadsRight
  <2>4. CASE GetEntry(ID0, "tighten", "ease")
    <3>1. phase = "tighten" /\ phase' = "ease" /\ read' = [read EXCEPT ![ID0] = entries[ID0]]
      BY <2>4 DEF GetEntry, Request
    <3>2. read'[ID0] = entries[ID0] /\ readAt' # {}
      BY <1>2, <2>2, <3>1 DEF Rune
    <3> QED BY <1>1, <2>3, <3>1, <3>2 DEF ReadsRight, AllRead
  <2>5. CASE GetEntry(ID1, "ease", "end")
    <3>1. phase = "ease" /\ phase' = "end" /\ read' = [read EXCEPT ![ID1] = entries[ID1]]
      BY <2>5 DEF GetEntry, Request
    <3>2. ASSUME Kind = "mint", readAt' = {height} PROVE read' = entries
      <4>1. readAt = {height}
        BY <2>2, <3>1, <3>2 DEF ReadsRight
      <4>2. read[ID0] = entries[ID0]
        BY <1>1, <3>1, <3>2, <4>1 DEF ReadsRight
      <4>3. ASSUME NEW r \in Rune PROVE read'[r] = entries[r]
        BY <1>2, <3>1, <4>2 DEF Rune
      <4> QED BY <1>2, <3>1, <4>3
    <3> QED BY <1>1, <2>1, <2>3, <3>1, <3>2 DEF ReadsRight
  <2> QED BY <1>3, <2>4, <2>5 DEF GetEntries
<1>4. CASE ~GetEntries
  <2>1. UNCHANGED <<read, readAt>>
    BY <1>1, <1>4 DEF Changes
  <2>2. CASE Synchronize
    <3>1. phase = "start" /\ phase' = "list"
      BY <2>2 DEF Synchronize, Request
    <3> QED BY <1>1, <2>1, <3>1 DEF ReadsRight, AllRead
  <2>3. CASE ~Synchronize
    <3>1. Kind' = Kind
      BY <1>1, <2>3 DEF Changes, Kind
    <3>2. /\ phase' \in {"info"} => phase \in {"list", "info"}
          /\ phase' \notin {"start", "list", "ease"}
          /\ phase' = "count" => phase = "info"
          /\ phase' = "tighten" => Kind # "mint" \/ phase = "count"
          /\ Kind = "mint" /\ phase' \in AllRead => phase \in AllRead
      BY <1>1, <1>4, <2>3 DEF PhaseMoves, AllRead, GetEntries
    <3> QED BY <1>1, <2>1, <3>1, <3>2 DEF ReadsRight
  <2> QED BY <2>2, <2>3
<1> QED BY <1>3, <1>4

\* The blocks that are indexed come after what was read.
LEMMA ReadsStay ==
  ASSUME WalletInvariant, ReadsRight, Happens
  PROVE  ReadsRight'
<1>1. CASE Command_
  BY <1>1, ReadsByCommand
<1>2. CASE ~Command_
  <2>1. /\ Kind' = Kind /\ read' = read /\ readAt' = readAt
        /\ phase' = phase \/ (phase = "send" /\ phase' = "done")
    BY <1>2, LocalsElsewhere DEF Elsewhere, locals, Kind
  <2>2. IndexMoves /\ height \in Nat /\ height' >= height
    BY IndexMovesOn
  <2>3. \A h \in readAt : h \in Nat
    BY DEF WalletInvariant, CommandRight, CommandTypes
  <2>4. \A h \in readAt' : h <= height'
    <3>1. height' \in Nat
      BY <2>2 DEF IndexMoves, vars
    <3> QED BY <2>1, <2>2, <2>3, <3>1 DEF ReadsRight
  <2>5. CASE UNCHANGED vars
    <3>1. pc' = pc /\ height' = height /\ entries' = entries
      BY <2>5 DEF vars, tables
    <3> QED BY <2>1, <2>4, <3>1 DEF ReadsRight, AllRead
  <2>6. CASE pc' # "idle"
    BY <2>1, <2>4, <2>6 DEF ReadsRight
  <2>7. CASE pc' = "idle" /\ height' = height + 1
    <3>1. readAt' # {height'}
      <4>1. height' \notin readAt
        BY <2>2, <2>3, <2>7 DEF ReadsRight
      <4> QED BY <2>1, <4>1
    <3> QED BY <2>1, <2>4, <3>1 DEF ReadsRight
  <2> QED BY <2>2, <2>5, <2>6, <2>7 DEF IndexMoves
<1> QED BY <1>1, <1>2

\* What the indexer takes into a block adds outputs of that transaction, and none
\* of the end of the chain.
LEMMA EndAgedStays ==
  ASSUME WalletInvariant, EndAged, Happens
  PROVE  EndAged'
<1> USE DEF WalletInvariant
<1>1. /\ IndexMoves /\ height \in Nat /\ height' >= height /\ (Command_ => UNCHANGED vars)
  BY IndexMovesOn
<1>2. CASE GetChainEnd
  <2>1. Command_
    BY <1>2 DEF Command_
  <2>2. pc = "idle" /\ utxos' = utxos /\ height' = height
    BY <1>1, <1>2, <2>1 DEF GetChainEnd, Request, vars, chain
  <2>3. \A u \in utxos : u.height < height
    BY <2>2 DEF IndexInvariant, TablesRight, UtxosRight
  <2> QED BY <2>2, <2>3 DEF EndAged
<1>3. CASE ~GetChainEnd
  <2>1. chainEnd'.at = chainEnd.at
    <3>1. CASE ~Command_
      BY <3>1, LocalsElsewhere DEF Elsewhere, locals
    <3>2. CASE Command_ /\ ~GetEndValue
      BY <1>3, <3>2, CommandChanges DEF Changes
    <3>3. CASE GetEndValue
      BY <3>3 DEF GetEndValue, CommandRight, CommandTypes
    <3> QED BY <3>1, <3>2, <3>3
  <2>2. PICK o : o = chainEnd.at
    OBVIOUS
  <2>3. o = chainEnd'.at /\ (HasEnd' <=> HasEnd)
    BY <2>1, <2>2 DEF HasEnd
  <2>4. HasEnd => Settled(o.txid)
    BY <2>2 DEF CommandRight, EndRight
  <2> SUFFICES ASSUME HasEnd, NEW u \in utxos', u.at = o
               PROVE  u.height < height'
    BY <2>2, <2>3 DEF EndAged
  <2>5. CASE u \in utxos
    <3>1. u.height < height /\ u.height \in Nat
      BY <2>2, <2>5 DEF EndAged, Updater, UpdaterInvariant, TypeOK, BlockType, Unspent
    <3>2. height' \in Nat
      BY <1>1 DEF IndexMoves, vars
    <3> QED BY <1>1, <3>1, <3>2
  <2>6. CASE u \notin utxos
    <3>1. CASE IndexTake
      <4>1. /\ Take(Head(block), txs[Head(block)].template, SpentNow) /\ Head(block) \notin Indexed
        BY <3>1, TakeFacts DEF Updater, UpdaterInvariant
      <4>2. PICK n, t : n = Head(block) /\ t = txs[Head(block)].template
        OBVIOUS
      <4>3. Take(n, t, SpentNow)
        BY <4>1, <4>2
      <4>4. \E v : u = [at |-> [txid |-> n, vout |-> v],
                      script |-> t.outputs[v].script, value |-> t.outputs[v].value,
                      height |-> height, coinbase |-> t.coinbase]
        BY <2>6, <4>3 DEF Take
      <4>5. u.at.txid = Head(block)
        BY <4>2, <4>4
      <4> QED BY <2>4, <4>1, <4>5 DEF Settled
    <3>2. CASE ~IndexTake
      <4>1. utxos' = utxos
        <5>1. Command_ \/ SendOwn \/ SendFails \/ (\E t : Sending(t)) \/ (\E S : Mines(S) /\ IndexKept)
                \/ UNCHANGED walletVars => UNCHANGED vars
          BY CommandKeeps DEF SendOwn, SendFails, Sending, IndexKept, walletVars
        <5>2. UNCHANGED vars => utxos' = utxos
          BY DEF vars, chain
        <5>3. IndexBegin => utxos' = utxos
          BY DEF IndexBegin, BeginBlock
        <5>4. IndexStep => utxos' = utxos
          BY RunesStep DEF IndexStep, RunesFrames
        <5>5. IndexEnd => utxos' = utxos
          BY DEF IndexEnd, EndBlock, chain
        <5> QED BY <3>2, <5>1, <5>2, <5>3, <5>4, <5>5 DEF Happens
      <4> QED BY <2>6, <4>1
    <3> QED BY <3>1, <3>2
  <2> QED BY <2>5, <2>6
<1> QED BY <1>2, <1>3

\* A block that begins issues the shares that mint.rs computes: from then on the
\* pot of a rune holds what the command reports.
LEMMA IssuedPot ==
  ASSUME WalletInvariant, BeginBlock, NEW r \in Rune
  PROVE  /\ MintPile(entries, height, r) \in Nat
         /\ MintPot(r)' = MintPile(entries, height, r)
<1>1. /\ entries \in [Rune -> Entry] /\ ID0 \in Rune /\ ID1 \in Rune
      /\ height \in FirstRuneHeight..MaxHeight
  BY BoundAssumption
     DEF WalletInvariant, Updater, UpdaterInvariant, TypeOK, TablesType, BlockType, Rune, BeginBlock, BlockAllowed
<1>2. entries' = Issued /\ burned' = burned /\ burned = Zero
  BY DEF BeginBlock, WalletInvariant, IndexInvariant, HandsRight, PotSettled
<1>3. PICK s0, s1, n : s0 = entries[ID0].supply /\ s1 = entries[ID1].supply /\ n = Reward(height)
  OBVIOUS
<1>4. s0 \in Nat /\ s1 \in Nat /\ n \in Nat /\ entries[r].burned \in Nat
  BY <1>1, <1>3, RewardAssumption DEF Entry
<1>5. PICK share : share = IF r = ID0 THEN RewardShare0(s0, s1, n) ELSE RewardShare1(s0, s1, n)
  OBVIOUS
<1>6. share \in Nat
  BY <1>4, <1>5, RewardShareType
<1>7. MintPile(entries, height, r) = entries[r].burned + share
  BY <1>1, <1>3, <1>5 DEF MintPile
<1>8. entries'[r].burned = entries[r].burned + share
  <2>1. CASE n = 0
    <3>1. Issued = entries
      BY <1>3, <2>1 DEF Issued
    <3>2. share = 0
      BY <1>4, <1>5, <2>1, NoRewardShares
    <3> QED BY <1>2, <1>4, <3>1, <3>2
  <2>2. CASE n # 0
    BY <1>2, <1>3, <1>5, <2>2 DEF Issued
  <2> QED BY <2>1, <2>2
<1>9. burned'[r] = 0
  BY <1>2 DEF Zero
<1>10. MintPot(r)' = entries'[r].burned + burned'[r]
  BY DEF MintPot
<1> QED BY <1>4, <1>6, <1>7, <1>8, <1>9, <1>10

\* Until somebody mints, the pot grows by what is burned.
LEMMA PotGrows ==
  ASSUME WalletInvariant, IndexRunes, ~Mint, NEW r \in Rune
  PROVE  MintPot(r) \in Nat /\ MintPot(r)' \in Nat /\ MintPot(r)' >= MintPot(r)
<1> USE DEF WalletInvariant, Updater, UpdaterInvariant, TypeOK
<1>1. /\ entries \in [Rune -> Entry] /\ burned \in [Rune -> Nat] /\ txBurned \in [Rune -> Nat]
  BY DEF TablesType, BlockType, TransactionType
<1>2. entries[r].burned \in Nat /\ burned[r] \in Nat /\ txBurned[r] \in Nat
  BY <1>1 DEF Entry
<1>3. MintPot(r) = entries[r].burned + burned[r] /\ MintPot(r)' = entries'[r].burned + burned'[r]
  BY DEF MintPot
<1>4. CASE FinishTransaction
  BY <1>2, <1>3, <1>4 DEF FinishTransaction, tables
<1>5. CASE ConvertExactInput \/ ConvertExactOutput
  <2>1. burned' = burned
    BY <1>5 DEF ConvertExactInput, ConvertExactOutput
  <2>2. \E x, y : MoveSupply(x, y)
    BY <1>5 DEF ConvertExactInput, ConvertExactOutput
  <2>3. entries'[r].burned = entries[r].burned
    BY <1>1, <2>2 DEF MoveSupply, Entry
  <2> QED BY <1>2, <1>3, <2>1, <2>3
<1>6. CASE ~FinishTransaction /\ ~ConvertExactInput /\ ~ConvertExactOutput
  <2>1. entries' = entries /\ burned' = burned
    BY <1>6 DEF IndexRunes, TakeInput, CreateOutpoints, MoveOutpoints, NoMint, ApplyEdict, OverflowEdict,
       AllocateRest, BurnRest, AfterEdicts, BurnOutput, DetectConversion, RefuseConversion, ReturnInput,
       StoreOutput, tables
  <2> QED BY <1>2, <1>3, <2>1
<1> QED BY <1>4, <1>5, <1>6

(***************************************************************************)
(* A mint that is connected: until it is indexed, the end of the chain is  *)
(* the one it has read, so that nobody else mints.                         *)
(***************************************************************************)
EndAwaited ==
  /\ lastOutpoint["mint"] = chainEnd.at /\ order.txid \notin Indexed
  /\ order.txid \in DOMAIN txs /\ chainEnd.at \in txs[order.txid].inputs
  /\ Settled(chainEnd.at.txid) /\ IsOutput(chainEnd.at) /\ ScriptOf(chainEnd.at) = "mint"
  /\ ~Mint

\* The transaction of the command is the only one that spends the end.
LEMMA EndAwaits ==
  ASSUME WalletInvariant, order.status = "sent", ~OwnRun, Kind = "mint", HasEnd
  PROVE  EndAwaited
<1>1. /\ NodeInvariant /\ CommandTypes /\ MineSettled /\ ListedRight /\ EndRight /\ DraftRight
      /\ order.txid \in DOMAIN txs /\ txs[order.txid] = draft /\ phase = "done"
      /\ ~Settled(order.txid)
  BY DEF WalletInvariant, CommandRight, OrderRight
<1>2. order.txid \notin Indexed
  BY <1>1 DEF Settled, OwnRun
<1>3. PICK o : o = chainEnd.at
  OBVIOUS
<1>4. o \in txs[order.txid].inputs
  <2>1. Offered
    BY <1>1 DEF DraftRight
  <2>2. PICK coin \in DOMAIN known : known[coin] = Zero /\ draft = Joined(Bare, coin, Ends)
    BY <1>1 DEF DraftRight
  <2>3. PICK t, ends : t = Bare /\ ends = Ends
    OBVIOUS
  <2>4. t \in Transaction /\ ends \in SUBSET Outpoint /\ coin \in Outpoint
    BY <1>1, <2>1, <2>3, BareFacts, ListedFacts DEF ListedRight
  <2>5. Joined(t, coin, ends).inputs = (t.inputs \cup {coin}) \cup ends
    BY <2>4, JoinedFacts
  <2>6. o \in ends
    BY <1>3, <2>3 DEF Ends
  <2> QED BY <1>1, <2>2, <2>3, <2>5, <2>6
<1>5. /\ Settled(o.txid) /\ IsOutput(o) /\ ScriptOf(o) = "mint" /\ EndOf = "mint"
      /\ Spent(o) \/ lastOutpoint["mint"] = o
      /\ o \notin {Null, Missing}
  BY <1>1, <1>3 DEF EndRight, EndOf, Kind, HasEnd
<1>6. ~Spent(o)
  <2> SUFFICES ASSUME NEW n \in Indexed, o \in txs[n].inputs PROVE FALSE
    BY DEF Spent
  <2>1. n \in DOMAIN txs
    BY DEF Indexed, Mined
  <2>2. n = order.txid
    BY <1>1, <1>4, <2>1 DEF NodeInvariant, OneSpender
  <2> QED BY <1>2, <2>2
<1>7. ~Mint
  <2> SUFFICES ASSUME Mint PROVE FALSE
    OBVIOUS
  <2>1. pc = "mint" /\ MayMint
    BY DEF Mint
  <2>2. lastOutpoint["mint"] = o /\ lastOutpoint["mint"] # Null
    BY <1>5, <1>6
  <2>3. o.txid = tx.txid
    BY <2>1, <2>2 DEF MayMint, StartsMintChain
  <2> QED BY <1>5, <2>1, <2>3 DEF Settled, Working
<1> QED BY <1>1, <1>2, <1>3, <1>4, <1>5, <1>6, <1>7 DEF EndAwaited

(***************************************************************************)
(* In the block it was computed for, the pot of each rune holds what the   *)
(* command reports until its transaction mints.                            *)
(***************************************************************************)
Timely(h) == Kind = "mint" /\ HasEnd /\ readAt = {h} /\ tip + 1 = h
Awaited == order.status = "sent" /\ pc # "idle" /\ ~(OwnRun /\ pc \notin {"inputs", "mint"})
PotHolds == \A r \in Rune : offer.pile[r] \in Nat /\ MintPot(r) \in Nat /\ MintPot(r) >= offer.pile[r]
PotRight == Timely(height) /\ Awaited => PotHolds

\* The pot when the block begins.
LEMMA PotBegins ==
  ASSUME WalletInvariant, ReadsRight, IndexBegin, Timely(height), order.status = "sent", offer' = offer
  PROVE  PotHolds'
<1>1. phase = "done" /\ pc = "idle" /\ BeginBlock
  BY DEF WalletInvariant, OrderRight, IndexBegin, BeginBlock
<1>2. read = entries
  BY <1>1 DEF ReadsRight, Timely, AllRead
<1>3. Offered
  BY <1>1 DEF WalletInvariant, DraftRight
<1>4. offer.pile = [r \in Rune |-> MintPile(entries, height, r)]
  BY <1>2, <1>3 DEF Offered, Timely
<1>5. ASSUME NEW r \in Rune
      PROVE  offer'.pile[r] \in Nat /\ (MintPot(r))' \in Nat /\ (MintPot(r))' >= offer'.pile[r]
  <2>1. PICK p, q : p = MintPile(entries, height, r) /\ q = MintPot(r)'
    OBVIOUS
  <2>2. p \in Nat /\ q = p
    BY <1>1, <2>1, IssuedPot
  <2>3. offer'.pile[r] = p
    BY <1>4, <2>1
  <2> QED BY <2>1, <2>2, <2>3
<1> QED BY <1>5 DEF PotHolds

\* The steps of a block before it mints.
LEMMA PotStays ==
  ASSUME WalletInvariant, ReadsRight, PotRight, Happens
  PROVE  PotRight'
<1> SUFFICES ASSUME Timely(height)', Awaited' PROVE PotHolds'
  BY DEF PotRight
<1>1. pc' # "idle" /\ order'.status = "sent"
  BY DEF Awaited
<1>2. ASSUME locals' = locals, height' = height
      PROVE  Timely(height) /\ offer' = offer
  BY <1>2, OwnLocals DEF Timely, locals
<1>3. CASE IndexBegin
  <2>1. order' = order /\ locals' = locals /\ height' = height
    BY <1>3 DEF IndexBegin, BeginBlock, commandVars
  <2> QED BY <1>1, <1>2, <1>3, <2>1, PotBegins
<1>4. CASE IndexTake
  <2>1. /\ locals' = locals /\ order'.status = order.status
    <3>1. locals' = locals
      BY <1>4 DEF IndexTake, commandVars
    <3>2. order'.status = order.status
      BY <1>4 DEF IndexTake, WalletInvariant, OrderType
    <3> QED BY <3>1, <3>2
  <2>2. pc = "block" /\ UNCHANGED <<height, tables, burned>>
    BY <1>4, TakeFacts DEF WalletInvariant, Updater, UpdaterInvariant
  <2>3. Timely(height) /\ offer' = offer
    BY <1>2, <2>1, <2>2
  <2>4. PotHolds
    BY <1>1, <2>1, <2>2, <2>3 DEF PotRight, Awaited, OwnRun, Working
  <2>5. \A r \in Rune : (MintPot(r))' = MintPot(r)
    BY <2>2 DEF MintPot, tables
  <2> QED BY <2>3, <2>4, <2>5 DEF PotHolds
<1>5. CASE IndexStep
  <2>1. IndexRunes /\ RunesFrames
    BY <1>5, RunesStep DEF IndexStep
  <2>2. locals' = locals /\ height' = height /\ pc \notin {"idle", "block"}
    BY <1>5, <2>1 DEF IndexStep, RunesFrames, commandVars
  <2>3. Timely(height) /\ offer' = offer
    BY <1>2, <2>2
  <2>4. /\ order.status = "sent" /\ order'.txid = order.txid
        /\ tx.txid = order.txid => pc' # "block"
    BY <1>1, <1>5 DEF IndexStep, WalletInvariant, OrderType
  <2>5. OwnRun => tx' = tx /\ pc' \notin {"idle", "block"}
    BY <2>1, <2>4 DEF OwnRun, RunesFrames, FinishTransaction
  <2>6. OwnRun => OwnRun' /\ pc' \in {"inputs", "mint"}
    BY <1>1, <2>4, <2>5 DEF OwnRun, Awaited, Working
  <2>7. ~Mint
    <3>1. CASE OwnRun
      BY <2>6, <3>1 DEF Mint
    <3>2. CASE ~OwnRun
      BY <2>3, <2>4, <3>2, EndAwaits DEF Timely, EndAwaited
    <3> QED BY <3>1, <3>2
  <2>8. OwnRun => pc \in {"inputs", "mint"}
    BY <2>1, <2>6 DEF RunesFrames, TakeInput, CreateOutpoints, MoveOutpoints
  <2>9. PotHolds
    BY <2>2, <2>3, <2>4, <2>8 DEF PotRight, Awaited
  <2>10. ASSUME NEW r \in Rune
         PROVE  offer'.pile[r] \in Nat /\ (MintPot(r))' \in Nat /\ (MintPot(r))' >= offer'.pile[r]
    <3>1. PICK p, q, n : p = MintPot(r) /\ q = MintPot(r)' /\ n = offer.pile[r]
      OBVIOUS
    <3>2. q \in Nat /\ q >= p /\ p \in Nat /\ n \in Nat /\ p >= n
      BY <2>1, <2>7, <2>9, <3>1, PotGrows DEF PotHolds
    <3>3. q >= n
      BY <3>2
    <3> QED BY <2>3, <3>1, <3>2, <3>3
  <2> QED BY <2>10 DEF PotHolds
<1>6. CASE UNCHANGED walletVars
  <2>1. locals' = locals /\ height' = height /\ order' = order /\ pc' = pc /\ tx' = tx
        /\ entries' = entries /\ burned' = burned
    BY <1>6 DEF walletVars, commandVars, vars, tables
  <2>2. Timely(height) /\ offer' = offer
    BY <1>2, <2>1
  <2>3. Awaited
    BY <2>1 DEF Awaited, OwnRun, Working
  <2>4. \A r \in Rune : (MintPot(r))' = MintPot(r)
    BY <2>1 DEF MintPot
  <2> QED BY <2>2, <2>3, <2>4 DEF PotRight, PotHolds
<1>7. ~(Command_ \/ SendOwn \/ SendFails \/ (\E t : Sending(t)) \/ (\E S : Mines(S) /\ IndexKept) \/ IndexEnd)
  <2>1. IndexKept => pc' = "idle"
    BY DEF IndexKept, vars
  <2>2. IndexEnd => pc' = "idle"
    BY DEF IndexEnd, EndBlock
  <2>3. Command_ \/ SendOwn \/ SendFails \/ (\E t : Sending(t)) \/ (\E S : Mines(S) /\ IndexKept) => IndexKept
    BY CommandKeeps DEF SendOwn, SendFails, Sending
  <2> QED BY <1>1, <2>1, <2>2, <2>3
<1> QED BY <1>3, <1>4, <1>5, <1>6, <1>7 DEF Happens

\* The transaction of a mint: nothing but the coin and the end of the chain is
\* spent, and what it has in hand goes to the wallet.
MintingShape ==
  /\ \A r \in Rune : OwnIn(r) = 0
  /\ tx.artifact = Spend(<< >>, 0) /\ tx.rbf
  /\ Vouts = 1..4 /\ draft.mine = {2, 4} /\ ValidDestinations = {2, 4}
  /\ 1 \in ChainOutputs("mint")

\* The transaction of a mint has that shape when it is indexed.
LEMMA MintShape ==
  ASSUME WalletInvariant, OwnRun, Kind = "mint"
  PROVE  MintingShape
<1>1. OwnSpends /\ OwnOutputs
  BY OwnSpending, OwnShape DEF OwnRun
<1>2. PICK n : OwnJoin(n)
  BY OwnJoined DEF OwnRun
<1>3. PICK t : t = MintTransaction
  OBVIOUS
<1>4. Bare = t
  BY <1>3 DEF Bare
<1>5. /\ t.inputs = {} /\ t.mine = {2} /\ t.template.artifact = Spend(<< >>, 0) /\ t.template.rbf
      /\ Len(t.template.outputs) = 3
      /\ t.template.outputs[1].script = "mint" /\ t.template.outputs[2].script = "plain"
      /\ t.template.outputs[3].script = "op_return"
  BY <1>3, MintFacts
<1>6. n = 3
  BY <1>2, <1>4, <1>5 DEF OwnJoin
<1>7. n + 1 = 4 /\ 1 \in 1..n /\ 2 \in 1..n /\ 3 \in 1..n
  BY <1>6
<1>8. tx.outputs = draft.template.outputs /\ tx.artifact = t.template.artifact /\ tx.rbf = t.template.rbf
  BY <1>1, <1>2, <1>4 DEF OwnOutputs, OwnJoin
<1>9. Vouts = 1..4
  BY <1>2, <1>7, <1>8 DEF OwnJoin, Vouts
<1>10. draft.mine = {2, 4}
  <2>1. draft.mine = t.mine \cup {n + 1}
    BY <1>2, <1>4 DEF OwnJoin
  <2> QED BY <1>5, <1>7, <2>1
<1>11. /\ tx.outputs[1].script = "mint" /\ tx.outputs[2].script = "plain"
       /\ tx.outputs[3].script = "op_return" /\ tx.outputs[4].script = "plain"
  <2>1. /\ draft.template.outputs[1] = t.template.outputs[1]
        /\ draft.template.outputs[2] = t.template.outputs[2]
        /\ draft.template.outputs[3] = t.template.outputs[3]
        /\ draft.template.outputs[n + 1].script = "plain"
    BY <1>2, <1>4, <1>7 DEF OwnJoin
  <2> QED BY <1>5, <1>7, <1>8, <2>1
<1>12. \A v \in 1..4 : v = 1 \/ v = 2 \/ v = 3 \/ v = 4
  OBVIOUS
<1>13. ValidDestinations = {2, 4} /\ 1 \in ChainOutputs("mint")
  BY <1>9, <1>11, <1>12 DEF ValidDestinations, ChainOutputs
<1>14. ASSUME NEW r \in Rune PROVE OwnIn(r) = 0
  <2>1. OwnIn(r) = Total(known, t.inputs, r)
    BY <1>1, <1>4 DEF OwnSpends
  <2> QED BY <1>5, <2>1, TotalEmpty
<1> QED BY <1>5, <1>8, <1>9, <1>10, <1>13, <1>14 DEF MintingShape

(***************************************************************************)
(* The transaction of a mint: it becomes the end of the chain, takes the   *)
(* pot, and its wallet is due what the command has reported.               *)
(***************************************************************************)
MintEnd ==
  /\ pc = "inputs" => lastOutpoint["mint"] = chainEnd.at /\ chainEnd.at \in tx.inputs
  /\ pc = "mint" => MayMint
MintDue ==
  /\ pc = "edicts" =>
       \A r \in Rune : /\ offer.pile[r] \in Nat /\ unallocated[r] >= offer.pile[r]
                       /\ allocated[2][r] = 0 /\ allocated[4][r] = 0
  /\ pc \in {"burn", "convert", "return", "store"} =>
       \A r \in Rune : offer.pile[r] \in Nat /\ Due(r) >= offer.pile[r]
MintRight == OwnRun => order.at = height /\ (Timely(height) => MintEnd /\ MintDue)

\* It is taken with the end of the chain among its inputs.
LEMMA MintTakes ==
  ASSUME RunInvariant, CoinbasePlain, EndAged, OwnTake, Timely(height)
  PROVE  MintEnd' /\ MintDue'
<1> USE DEF RunInvariant, WalletInvariant
<1>1. /\ tx' = [txid |-> Head(block), inputs |-> {u.at : u \in SpentNow},
                coinbase |-> txs[Head(block)].template.coinbase, rbf |-> txs[Head(block)].template.rbf,
                outputs |-> txs[Head(block)].template.outputs,
                artifact |-> txs[Head(block)].template.artifact]
      /\ pc = "block" /\ pc' = "inputs" /\ UNCHANGED tables
  BY TakeFacts DEF OwnTake, Updater, UpdaterInvariant
<1>2. order.status = "sent" /\ order.txid = Head(block) /\ locals' = locals
  BY DEF OwnTake
<1>3. EndAwaited
  BY <1>1, <1>2, EndAwaits DEF OwnRun, Working, Timely
<1>4. PICK o : o = chainEnd.at
  OBVIOUS
<1>5. /\ lastOutpoint["mint"] = o /\ o \in txs[Head(block)].inputs
      /\ o.txid \in Indexed /\ IsOutput(o) /\ ScriptOf(o) = "mint"
      /\ order.txid \in DOMAIN txs \ Indexed
  BY <1>2, <1>3, <1>4 DEF EndAwaited, Settled
<1>6. PICK u \in utxos : u.at = o
  BY <1>2, <1>5 DEF IndexInvariant, StillThere, IsUnspent
<1>7. u.height < height
  BY <1>4, <1>6 DEF EndAged, Timely
<1>8. ~u.coinbase
  <2>1. u.coinbase = txs[o.txid].template.coinbase
    BY <1>6 DEF IndexInvariant, TablesRight, UtxosRight
  <2>2. o.txid \in DOMAIN txs
    BY <1>5 DEF Indexed, Mined
  <2>3. o.vout \in DOMAIN txs[o.txid].template.outputs
    BY <1>5 DEF IsOutput, Created
  <2>4. txs[o.txid].template.outputs[o.vout].script = "mint"
    BY <1>5 DEF ScriptOf
  <2> QED BY <2>1, <2>2, <2>3, <2>4 DEF CoinbasePlain
<1>9. u \in SpentNow
  BY <1>5, <1>6, <1>7, <1>8 DEF SpentNow, Spendable, StateChange
<1>10. chainEnd' = chainEnd /\ lastOutpoint' = lastOutpoint
  BY <1>1, <1>2 DEF locals, tables
<1>11. o \in tx'.inputs
  BY <1>1, <1>6, <1>9
<1> QED BY <1>1, <1>4, <1>5, <1>10, <1>11 DEF MintEnd, MintDue

\* When all its inputs are taken, it is the end of the chain.
LEMMA MintConnects ==
  ASSUME RunInvariant, OwnStep, MintingShape, MintEnd, HasEnd, pc = "inputs"
  PROVE  MintEnd' /\ MintDue'
<1>1. IndexRunes /\ RunesFrames /\ tx' = tx /\ chainEnd' = chainEnd
  BY DEF OwnStep, locals
<1>2. PICK o : o = chainEnd.at
  OBVIOUS
<1>3. lastOutpoint["mint"] = o /\ o \in tx.inputs /\ o \notin {Null, Missing} /\ o = chainEnd'.at
  BY <1>1, <1>2 DEF MintEnd, HasEnd
<1>4. CASE \E p \in pending : TakeInput(p)
  <2>1. pc' = "inputs" /\ lastOutpoint' = lastOutpoint
    BY <1>4 DEF TakeInput
  <2> QED BY <1>1, <1>3, <2>1 DEF MintEnd, MintDue
<1>5. CASE CreateOutpoints
  <2>1. lastOutpoint["mint"] = Missing
    BY <1>5 DEF CreateOutpoints, RunInvariant, WalletInvariant, CommandRight, EndsCreated, StateChange
  <2> QED BY <1>3, <2>1
<1>6. CASE MoveOutpoints
  <2>1. pc' = "mint" /\ lastOutpoint'["mint"] = FirstOutpoint("mint")
    BY <1>3, <1>6 DEF MoveOutpoints, StateChange
  <2>2. FirstOutpoint("mint").txid = tx.txid
    BY DEF MintingShape, FirstOutpoint
  <2>3. tx.artifact.kind # "none" /\ tx.rbf /\ ChainOutputs("mint") # {}
    BY DEF MintingShape, Spend
  <2>4. ChainOutputs("mint")' = ChainOutputs("mint")
    BY <1>1 DEF ChainOutputs, Vouts
  <2>5. MayMint'
    BY <1>1, <2>1, <2>2, <2>3, <2>4 DEF MayMint
  <2> QED BY <2>1, <2>5 DEF MintEnd, MintDue
<1> QED BY <1>1, <1>4, <1>5, <1>6
     DEF IndexRunes, Mint, NoMint, ApplyEdict, OverflowEdict, AllocateRest, BurnRest, AfterEdicts, BurnOutput,
         DetectConversion, ConvertExactInput, ConvertExactOutput, RefuseConversion, ReturnInput, StoreOutput,
         FinishTransaction

\* It takes the pot.
LEMMA MintPays ==
  ASSUME RunInvariant, OwnStep, MintingShape, MintEnd, PotHolds, pc = "mint"
  PROVE  MintEnd' /\ MintDue'
<1> USE DEF RunInvariant, WalletInvariant
<1>1. IndexRunes /\ RunesFrames /\ offer' = offer
  BY DEF OwnStep, locals
<1>2. Mint
  <2>1. MayMint
    BY DEF MintEnd
  <2> QED BY <1>1, <2>1 DEF IndexRunes, TakeInput, CreateOutpoints, MoveOutpoints, NoMint, ApplyEdict,
       OverflowEdict, AllocateRest, BurnRest, AfterEdicts, BurnOutput, DetectConversion, ConvertExactInput,
       ConvertExactOutput, RefuseConversion, ReturnInput, StoreOutput, FinishTransaction
<1>3. pc' = "edicts" /\ allocated' = allocated
  BY <1>2 DEF Mint
<1>4. 2 \in Vouts /\ 4 \in Vouts
  BY DEF MintingShape
<1>5. allocated[2] = Zero /\ allocated[4] = Zero
  BY <1>4 DEF IndexInvariant, HandsRight, HandsFresh
<1>6. ASSUME NEW r \in Rune
      PROVE  /\ offer'.pile[r] \in Nat /\ unallocated'[r] >= offer'.pile[r]
             /\ allocated'[2][r] = 0 /\ allocated'[4][r] = 0
  <2>1. PICK a, p, n : a = unallocated[r] /\ p = MintPot(r) /\ n = offer.pile[r]
    OBVIOUS
  <2>2. a \in Nat
    BY <2>1, HandsTyped DEF HandTypes
  <2>3. p \in Nat /\ n \in Nat /\ p >= n
    BY <2>1 DEF PotHolds
  <2>4. unallocated'[r] = a + p
    BY <1>2, <2>1 DEF Mint
  <2>5. a + p >= n
    BY <2>2, <2>3
  <2> QED BY <1>1, <1>3, <1>5, <2>1, <2>3, <2>4, <2>5 DEF Zero
<1> QED BY <1>3, <1>6 DEF MintEnd, MintDue

\* What the edicts leave over, all that it has, is the wallet's.
LEMMA MintRest ==
  ASSUME RunInvariant, OwnStep, MintingShape, MintDue, AllocateRest \/ BurnRest
  PROVE  MintEnd' /\ MintDue'
<1>1. WalletInvariant /\ OwnRun /\ pc = "edicts" /\ offer' = offer
  BY DEF RunInvariant, OwnStep, AllocateRest, BurnRest, AfterEdicts, locals
<1>2. Updater /\ HandTypes
  BY <1>1, HandsTyped DEF WalletInvariant
<1>3. tx.artifact.kind = "runestone" /\ tx.artifact.pointer = 0 /\ 2 \in Vouts /\ 4 \in Vouts
  BY DEF MintingShape, Spend
<1>4. DefaultOutputs = {2}
  <2>1. PICK D : D = ValidDestinations
    OBVIOUS
  <2>2. D \subseteq Nat /\ 2 \in D /\ \A n \in D : 2 <= n
    BY <2>1 DEF MintingShape
  <2>3. Min(D) = 2 /\ D # {}
    BY <2>2, MinIs
  <2> QED BY <1>3, <2>1, <2>3 DEF DefaultOutputs
<1>5. RestView(2)
  BY <1>2, <1>3, <1>4, RestStep
<1>6. pc' = "burn" /\ balances' = balances
  BY <1>5 DEF RestView, tables
<1>7. ASSUME NEW r \in Rune
      PROVE  offer'.pile[r] \in Nat /\ Due(r)' >= offer'.pile[r]
  <2>1. PICK a, n, g : a = unallocated[r] /\ n = offer.pile[r] /\ g = Given(r)'
    OBVIOUS
  <2>2. a \in Nat /\ n \in Nat /\ a >= n /\ allocated[2][r] = 0 /\ allocated[4][r] = 0
    BY <1>1, <1>2, <2>1 DEF MintDue, HandTypes
  <2>3. allocated'[2][r] = a /\ allocated'[4][r] = 0
    BY <1>3, <1>5, <2>1, <2>2 DEF RestView
  <2>4. g = a
    <3>1. 2 \in draft.mine /\ 4 \in draft.mine /\ 2 # 4 /\ (draft.mine \ {2}) \ {4} = {}
      BY DEF MintingShape
    <3>2. g = allocated'[2][r] + allocated'[4][r]
      BY <2>1, <2>2, <2>3, <3>1, GivenTwo
    <3> QED BY <2>2, <2>3, <3>2
  <2>5. Due(r)' = g - OwnIn(r)
    <3>1. g \in Int /\ Given(r)' = g
      BY <2>1, <2>2, <2>4
    <3> QED BY <1>1, <1>6, <3>1, DueNext
  <2>6. OwnIn(r) = 0
    BY DEF MintingShape
  <2>7. Due(r)' >= n
    BY <2>2, <2>4, <2>5, <2>6
  <2> QED BY <1>1, <2>1, <2>2, <2>7
<1> QED BY <1>6, <1>7 DEF MintEnd, MintDue

\* A step on what is minted.
LEMMA MintSteps ==
  ASSUME RunInvariant, PotRight, MintRight, OwnStep, Timely(height)
  PROVE  MintEnd' /\ MintDue'
<1>1. WalletInvariant /\ OwnRun /\ MintEnd /\ MintDue /\ OwnCases /\ HasEnd /\ offer' = offer
  BY OwnCase DEF RunInvariant, OwnStep, MintRight, Timely, locals
<1>2. MintingShape
  BY <1>1, MintShape DEF Timely
<1>3. CASE pc = "inputs"
  BY <1>1, <1>2, <1>3, MintConnects
<1>4. CASE pc = "mint"
  <2>1. PotHolds
    BY <1>1, <1>4 DEF PotRight, Awaited, OwnRun
  <2> QED BY <1>1, <1>2, <1>4, <2>1, MintPays
<1>5. ~ApplyEdict
  BY <1>2 DEF MintingShape, Spend, ApplyEdict, Edicts
<1>6. CASE AllocateRest \/ BurnRest
  BY <1>1, <1>2, <1>6, MintRest
<1>7. CASE pc \in {"burn", "convert", "return", "store"} /\ pc' \in {"burn", "convert", "return", "store"}
  <2>1. ASSUME NEW r \in Rune PROVE offer'.pile[r] \in Nat /\ Due(r)' >= offer'.pile[r]
    <3>1. PICK d, e, n : d = Due(r) /\ e = Due(r)' /\ n = offer.pile[r]
      OBVIOUS
    <3>2. e >= d /\ e \in Int /\ d \in Int
      BY <1>7, <3>1, DueLater
    <3>3. n \in Nat /\ d >= n
      BY <1>1, <1>7, <3>1 DEF MintDue
    <3>4. e >= n
      BY <3>2, <3>3
    <3> QED BY <1>1, <3>1, <3>3, <3>4
  <2> QED BY <1>7, <2>1 DEF MintEnd, MintDue
<1>8. CASE pc' = "panicked"
  BY <1>8 DEF MintEnd, MintDue
<1>9. LaterCases => pc \in {"burn", "convert", "return", "store"}
                    /\ pc' \in {"burn", "convert", "return", "store"}
  BY LaterCase
<1>10. Mint \/ NoMint => pc = "mint"
  BY DEF Mint, NoMint
<1> QED BY <1>1, <1>3, <1>4, <1>5, <1>6, <1>7, <1>8, <1>9, <1>10 DEF OwnCases, LaterCases

\* What a mint is to give stays due, at every step.
LEMMA MintRightStays ==
  ASSUME RunInvariant, BeforeRight, PotRight, MintRight, [WalletNext]_walletVars
  PROVE  MintRight'
<1>1. OwnView
  BY OwnSteps DEF RunInvariant
<1>2. ASSUME locals' = locals, height' = height
      PROVE  Timely(height)' <=> Timely(height)
  BY <1>2, OwnLocals DEF Timely, locals
<1>3. CASE OwnRests
  <2>1. StillView /\ OwnRun
    BY <1>3, OwnStill DEF OwnRests
  <2>2. locals' = locals /\ height' = height /\ lastOutpoint' = lastOutpoint
    BY <1>3 DEF OwnRests, vars, tables
  <2>3. MintEnd' = MintEnd
    BY <2>1, <2>2 DEF StillView, MintEnd, MayMint, StartsMintChain, ChainOutputs, Vouts
  <2>4. MintDue' = MintDue
    BY <2>1 DEF StillView, MintDue
  <2> QED BY <1>2, <2>1, <2>2, <2>3, <2>4 DEF StillView, MintRight
<1>4. CASE OwnTake
  <2>1. locals' = locals /\ height' = height /\ order'.at = height
    BY <1>4, TakeFacts
       DEF OwnTake, RunInvariant, WalletInvariant, Updater, UpdaterInvariant
  <2>2. Timely(height) => MintEnd' /\ MintDue'
    BY <1>4, MintTakes DEF BeforeRight
  <2> QED BY <1>2, <2>1, <2>2 DEF MintRight
<1>5. CASE OwnStep
  <2>1. locals' = locals /\ height' = height /\ order'.at = order.at /\ OwnRun
    BY <1>5 DEF OwnStep, RunesFrames
  <2>2. Timely(height) => MintEnd' /\ MintDue'
    BY <1>5, MintSteps
  <2> QED BY <1>2, <2>1, <2>2 DEF MintRight
<1>6. CASE ~OwnRun'
  BY <1>6 DEF MintRight
<1> QED BY <1>1, <1>3, <1>4, <1>5, <1>6 DEF OwnView

\* When it is done with, the wallet has got what was reported.
LEMMA MintGivesStays ==
  ASSUME RunInvariant, MintRight, MintGivesReported, [WalletNext]_walletVars
  PROVE  MintGivesReported'
<1>1. WalletInvariant /\ Accounted /\ OwnView
  BY OwnSteps DEF RunInvariant
<1>2. CASE OwnFinish
  <2>1. OwnRun /\ pc = "store" /\ locals' = locals /\ order'.at = order.at
    BY <1>2 DEF OwnFinish, FinishTransaction
  <2>2. offer' = offer /\ (Kind' = "mint" /\ HasEnd' /\ readAt' = {order'.at} /\ tip' + 1 = order'.at
                             => Timely(height))
    BY <2>1, OwnLocals DEF locals, Timely, MintRight
  <2>3. ASSUME Timely(height), NEW r \in Rune
        PROVE  order'.got[r] >= offer'.pile[r]
    <3>1. Due(r) >= offer.pile[r]
      BY <2>1, <2>3 DEF MintRight, MintDue
    <3>2. order'.got[r] = Due(r)
      BY <1>1, <1>2, DueGot
    <3> QED BY <2>2, <3>1, <3>2
  <2> QED BY <2>2, <2>3 DEF MintGivesReported, Done, Kind
<1>3. CASE OwnOver
  <2>1. order' = order /\ locals' = locals /\ HasEnd' = HasEnd
    BY <1>3, OwnLocals DEF OwnOver
  <2> QED BY <2>1 DEF locals, MintGivesReported, Done
<1>4. CASE order'.status # "indexed"
  BY <1>4 DEF MintGivesReported, Done
<1> QED BY <1>1, <1>2, <1>3, <1>4 DEF OwnView

\* The coinbase of the first block is plain, nothing is read and nothing awaited.
LEMMA MintStarts == WalletInit => BeforeRight /\ PotRight /\ MintRight /\ MintGivesReported
<1> SUFFICES ASSUME WalletInit PROVE BeforeRight /\ PotRight /\ MintRight /\ MintGivesReported
  OBVIOUS
<1>1. CoinbasePlain
  <2>1. PICK seed \in Seeds : txs = FirstBlock(seed)
    BY DEF WalletInit
  <2>2. PICK t : t = CoinbaseTx({1, 2})
    OBVIOUS
  <2>3. /\ t \in Transaction /\ DOMAIN t.template.outputs = {1, 2}
        /\ \A v \in {1, 2} : t.template.outputs[v].script = "plain"
    BY <2>2, CoinbaseIs
  <2>4. seed \in Seq(Transaction) /\ Len(seed) \in Nat /\ DOMAIN seed = 1..Len(seed)
    BY SeedAssumption, LenProperties
  <2>5. txs = <<t>> \o seed /\ <<t>> \in Seq(Transaction) /\ Len(<<t>>) = 1 /\ <<t>>[1] = t
    BY <2>1, <2>2, <2>3 DEF FirstBlock
  <2>6. /\ txs \in Seq(Transaction) /\ Len(txs) = 1 + Len(seed)
        /\ \A i \in 1..(1 + Len(seed)) : txs[i] = IF i <= 1 THEN <<t>>[i] ELSE seed[i - 1]
    BY <2>4, <2>5, ConcatProperties
  <2>7. ASSUME NEW n \in DOMAIN txs, txs[n].template.coinbase PROVE txs[n] = t
    <3>1. n \in 1..(1 + Len(seed))
      BY <2>6, LenProperties
    <3>2. CASE n <= 1
      <4>1. n = 1
        BY <2>4, <3>1, <3>2
      <4> QED BY <2>5, <2>6, <3>1, <3>2, <4>1
    <3>3. CASE ~(n <= 1)
      <4>1. n - 1 \in DOMAIN seed
        BY <2>4, <3>1, <3>3
      <4> QED BY <2>6, <2>7, <3>1, <3>3, <4>1, SeedAssumption
    <3> QED BY <3>2, <3>3
  <2> QED BY <2>3, <2>7 DEF CoinbasePlain
<1>2. ReadsRight
  BY DEF WalletInit, ReadsRight, AllRead
<1>3. EndAged
  BY DEF WalletInit, Init, EndAged
<1>4. order.status = "none"
  BY DEF WalletInit, NoOrder
<1> QED BY <1>1, <1>2, <1>3, <1>4 DEF BeforeRight, PotRight, Awaited, MintRight, OwnRun, MintGivesReported, Done

(***************************************************************************)
(* A mint in the block it was computed for, at the end of the chain that   *)
(* it has read, gets what the command has reported: whatever the others    *)
(* send and the node mines before, nobody takes from the pot until then.   *)
(***************************************************************************)
THEOREM MintGives == WalletSpec => []MintGivesReported
<1>1. WalletInit => BeforeRight /\ PotRight /\ MintRight /\ MintGivesReported
  BY MintStarts
<1>2. RunInvariant /\ [WalletNext]_walletVars
      /\ BeforeRight /\ PotRight /\ MintRight /\ MintGivesReported
        => BeforeRight' /\ PotRight' /\ MintRight' /\ MintGivesReported'
  <2> SUFFICES ASSUME RunInvariant, [WalletNext]_walletVars,
                      BeforeRight, PotRight, MintRight, MintGivesReported
               PROVE  BeforeRight' /\ PotRight' /\ MintRight' /\ MintGivesReported'
    OBVIOUS
  <2>1. WalletInvariant /\ Happens
    BY WalletHappens DEF RunInvariant
  <2>2. CoinbasePlain' /\ ReadsRight' /\ EndAged'
    BY <2>1, CoinbasePlainStays, ReadsStay, EndAgedStays DEF BeforeRight
  <2>3. PotRight'
    BY <2>1, PotStays DEF BeforeRight
  <2> QED BY <2>2, <2>3, MintRightStays, MintGivesStays DEF BeforeRight
<1> QED BY <1>1, <1>2, RunInvariance, PTL DEF WalletSpec
=============================================================================
