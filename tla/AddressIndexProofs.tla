------------------------- MODULE AddressIndexProofs -------------------------
(***************************************************************************)
(* Theorems about AddressIndex, for every chain that keeps the rules of    *)
(* consensus, every first rune height, every size of batches, parts and    *)
(* channels, and any restarts and failed calls: what is listed is what is  *)
(* unspent of the blocks that are looked at, the answer that is taken for  *)
(* an input is the output it spends, and nothing is left over for the next *)
(* block.                                                                  *)
(*                                                                         *)
(* The first part is about the chain: what is unspent at a place within a  *)
(* block, and how it changes from place to place.  TableInv follows the    *)
(* tables from place to place.  The parts of a batch are then put together *)
(* again, and QueueInv says of each place what is on its way: the answers  *)
(* that have come, the batch the thread works on and the requests it has   *)
(* not taken are, in this order, the inputs that still need an answer.     *)
(***************************************************************************)
EXTENDS AddressIndex, SequenceTheorems, FiniteSetTheorems, FunctionTheorems,
        NaturalsInduction, TLAPS

-----------------------------------------------------------------------------
(* The chain. *)

\* What transaction i of block n spends.
Inputs(n, i) == Blocks[n][i].inputs

\* A place in block n: input b of transaction a, or the end of its inputs, or the
\* end of the block.
IsPlace(n, a, b) ==
  /\ a \in 1..(Len(Blocks[n]) + 1)
  /\ b \in 1..(IF a <= Len(Blocks[n]) THEN Len(Inputs(n, a)) + 1 ELSE 1)

\* What has been created and spent before a place.
Created(n, a) ==
  {o \in AllOutputs : \E m \in 1..n : \E j \in DOMAIN Blocks[m] :
     (m < n \/ j < a) /\ o \in OutputsOf(Blocks[m][j])}
Spent(n, a, b) ==
  {o \in AllOutputs : \E m \in 1..n : \E j \in DOMAIN Blocks[m] : \E k \in DOMAIN Inputs(m, j) :
     (m < n \/ j < a \/ (j = a /\ k < b)) /\ o = Inputs(m, j)[k]}
Live(n, a, b) == Created(n, a) \ Spent(n, a, b)

\* There is one block for each of the node's.
LEMMA BlocksAreSeq ==
  Blocks \in Seq(Seq(AllTxs)) /\ Len(Blocks) = Len(Chain) /\ Len(Chain) \in Nat
<1> DEFINE len == Len(Chain)
           S == Seq(AllTxs)
<1>1. Chain \in Seq(S)
  BY ChainAssumption
<1>2. << >> \in S
  OBVIOUS
<1> HIDE DEF S
<1>3. len \in Nat /\ DOMAIN Chain = 1..len
  BY <1>1, LenProperties
<1> HIDE DEF len
<1>4. \A n \in 1..len : Chain[n] \in S
  BY <1>1, <1>3, ElementOfSeq DEF len
<1>5. Blocks \in [1..len -> S]
  BY <1>2, <1>3, <1>4 DEF Blocks
<1>6. Blocks \in Seq(S)
  BY <1>3, <1>5, SeqDef
<1>7. Len(Blocks) = len
  <2>1. Len(Blocks) \in Nat /\ DOMAIN Blocks = 1..Len(Blocks)
    BY <1>6, LenProperties
  <2> QED BY <1>3, <1>5, <2>1
<1> QED BY <1>3, <1>6, <1>7 DEF S, len

\* Blocks, their transactions and their inputs are sequences.
LEMMA ChainFacts ==
  /\ Len(Blocks) \in Nat /\ DOMAIN Blocks = 1..Len(Blocks)
  /\ \A n \in DOMAIN Blocks :
       /\ n \in Nat /\ Len(Blocks[n]) \in Nat /\ DOMAIN Blocks[n] = 1..Len(Blocks[n])
       /\ \A i \in DOMAIN Blocks[n] :
            /\ i \in Nat /\ Blocks[n][i] \in AllTxs
            /\ Inputs(n, i) \in Seq(AllOutputs) /\ Len(Inputs(n, i)) \in Nat
            /\ DOMAIN Inputs(n, i) = 1..Len(Inputs(n, i))
            /\ \A k \in DOMAIN Inputs(n, i) : k \in Nat /\ Inputs(n, i)[k] \in AllOutputs
<1>1. Blocks \in Seq(Seq(AllTxs)) /\ \A t \in AllTxs : t.inputs \in Seq(AllOutputs)
  BY ChainAssumption, BlocksAreSeq
<1>2. Len(Blocks) \in Nat /\ DOMAIN Blocks = 1..Len(Blocks)
  BY <1>1, LenProperties
<1>3. ASSUME NEW n \in DOMAIN Blocks
      PROVE  Blocks[n] \in Seq(AllTxs) /\ n \in Nat
  BY <1>1, <1>2, ElementOfSeq
<1>4. ASSUME NEW n \in DOMAIN Blocks
      PROVE  Len(Blocks[n]) \in Nat /\ DOMAIN Blocks[n] = 1..Len(Blocks[n])
  BY <1>3, LenProperties
<1>5. ASSUME NEW n \in DOMAIN Blocks, NEW i \in DOMAIN Blocks[n]
      PROVE  Blocks[n][i] \in AllTxs /\ i \in Nat
  BY <1>3, <1>4, ElementOfSeq
<1>6. ASSUME NEW n \in DOMAIN Blocks, NEW i \in DOMAIN Blocks[n]
      PROVE  /\ Inputs(n, i) \in Seq(AllOutputs) /\ Len(Inputs(n, i)) \in Nat
             /\ DOMAIN Inputs(n, i) = 1..Len(Inputs(n, i))
  BY <1>1, <1>5, LenProperties DEF Inputs
<1>7. ASSUME NEW n \in DOMAIN Blocks, NEW i \in DOMAIN Blocks[n], NEW k \in DOMAIN Inputs(n, i)
      PROVE  k \in Nat /\ Inputs(n, i)[k] \in AllOutputs
  BY <1>6, ElementOfSeq
<1> QED BY <1>2, <1>3, <1>4, <1>5, <1>6, <1>7

\* A block that is not empty is the node's.
LEMMA BlockOfChain ==
  ASSUME NEW n \in DOMAIN Blocks, NEW i \in DOMAIN Blocks[n]
  PROVE  n \in DOMAIN Chain /\ i \in DOMAIN Chain[n] /\ Blocks[n] = Chain[n]
<1>1. n \in DOMAIN Chain
      /\ Blocks[n] = IF n - 1 >= FirstRuneHeight THEN Chain[n] ELSE << >>
  BY DEF Blocks
<1>2. DOMAIN << >> = {}
  OBVIOUS
<1> QED BY <1>1, <1>2

\* Two transactions have different ids, and two inputs spend different outputs.
LEMMA NoTwice ==
  ASSUME NEW n \in DOMAIN Blocks, NEW m \in DOMAIN Blocks,
         NEW i \in DOMAIN Blocks[n], NEW j \in DOMAIN Blocks[m]
  PROVE  /\ Blocks[n][i].txid = Blocks[m][j].txid => n = m /\ i = j
         /\ \A k \in DOMAIN Inputs(n, i), l \in DOMAIN Inputs(m, j) :
              Inputs(n, i)[k] = Inputs(m, j)[l] => n = m /\ i = j /\ k = l
<1>1. Blocks[n][i].txid = Blocks[m][j].txid => n = m /\ i = j
  BY IdAssumption, BlockOfChain
<1>2. \A k \in DOMAIN Blocks[n][i].inputs, l \in DOMAIN Blocks[m][j].inputs :
        Blocks[n][i].inputs[k] = Blocks[m][j].inputs[l] => n = m /\ i = j /\ k = l
  BY OnceAssumption, BlockOfChain
<1> QED BY <1>1, <1>2 DEF Inputs

\* An input spends an output of an earlier transaction of the node's chain.
LEMMA SpendsEarlier ==
  ASSUME NEW n \in DOMAIN Blocks, NEW i \in DOMAIN Blocks[n], NEW k \in DOMAIN Inputs(n, i)
  PROVE  \E m \in 1..n : \E j \in DOMAIN Chain[m] :
           /\ m \in DOMAIN Chain
           /\ m < n \/ j < i
           /\ Inputs(n, i)[k] \in OutputsOf(Chain[m][j])
<1>1. n \in DOMAIN Chain /\ i \in DOMAIN Chain[n] /\ Blocks[n] = Chain[n]
  BY BlockOfChain
<1>2. DOMAIN Chain = 1..Len(Chain) /\ Len(Chain) \in Nat
  BY BlocksAreSeq, ChainFacts DEF Blocks
<1>3. \A m \in 1..n : m \in DOMAIN Chain
  BY <1>1, <1>2
<1>4. k \in DOMAIN Chain[n][i].inputs /\ Inputs(n, i)[k] = Chain[n][i].inputs[k]
  BY <1>1 DEF Inputs
<1> QED BY <1>1, <1>3, <1>4, EarlierAssumption

\* An output has the id of its transaction.
LEMMA OutputIds ==
  ASSUME NEW t, NEW o \in OutputsOf(t)
  PROVE  o.txid = t.txid /\ o = Output(o.txid, o.vout)
  BY DEF OutputsOf, Output

\* Outputs of the chain are made by one transaction.
LEMMA MadeOnce ==
  ASSUME NEW n \in DOMAIN Blocks, NEW m \in DOMAIN Blocks,
         NEW i \in DOMAIN Blocks[n], NEW j \in DOMAIN Blocks[m],
         NEW o, o \in OutputsOf(Blocks[n][i]), o.txid = Blocks[m][j].txid
  PROVE  n = m /\ i = j
  BY NoTwice, OutputIds

\* Also among those of blocks that are not looked at.
LEMMA MadeOnceInChain ==
  ASSUME NEW n \in DOMAIN Blocks, NEW m \in DOMAIN Chain,
         NEW i \in DOMAIN Blocks[n], NEW j \in DOMAIN Chain[m],
         NEW o, o \in OutputsOf(Chain[m][j]), o.txid = Blocks[n][i].txid
  PROVE  n = m /\ i = j
  BY BlockOfChain, IdAssumption, OutputIds

\* The outputs of a transaction of the chain are outputs of the chain.
LEMMA OutputsOfChain ==
  ASSUME NEW n \in DOMAIN Blocks, NEW i \in DOMAIN Blocks[n]
  PROVE  OutputsOf(Blocks[n][i]) \subseteq AllOutputs
  BY ChainFacts DEF AllOutputs

\* The transactions of the first blocks.
LEMMA IndexedTxs ==
  ASSUME NEW n \in 0..Len(Blocks), NEW t
  PROVE  t \in Indexed(n) <=> \E m \in 1..n : \E j \in DOMAIN Blocks[m] : t = Blocks[m][j]
  BY DEF Indexed, Txs, Range

-----------------------------------------------------------------------------
(* The outputs that are unspent at a place in a block. *)

\* At the beginning of a block.
LEMMA LiveAtFirst ==
  ASSUME NEW n \in DOMAIN Blocks
  PROVE  Live(n, 1, 1) = Unspent(n - 1)
<1>1. n \in Nat /\ n >= 1 /\ n <= Len(Blocks) /\ n - 1 \in 0..Len(Blocks)
  BY ChainFacts
<1>2. ASSUME NEW m \in 1..n, NEW j \in DOMAIN Blocks[m]
      PROVE  /\ m \in DOMAIN Blocks /\ j \in Nat /\ ~(j < 1)
             /\ m < n <=> m \in 1..(n - 1)
             /\ \A k \in DOMAIN Inputs(m, j) : k \in Nat /\ ~(k < 1)
  BY <1>1, ChainFacts
<1>3. ASSUME NEW o
      PROVE  o \in Created(n, 1) <=> o \in UNION {OutputsOf(t) : t \in Indexed(n - 1)}
  <2>1. o \in Created(n, 1) <=> /\ o \in AllOutputs
                                /\ \E m \in 1..(n - 1) : \E j \in DOMAIN Blocks[m] :
                                     o \in OutputsOf(Blocks[m][j])
    BY <1>1, <1>2 DEF Created
  <2>2. \A m \in 1..(n - 1) : \A j \in DOMAIN Blocks[m] :
          OutputsOf(Blocks[m][j]) \subseteq AllOutputs
    BY <1>1, <1>2, OutputsOfChain
  <2>3. o \in UNION {OutputsOf(t) : t \in Indexed(n - 1)}
          <=> \E m \in 1..(n - 1) : \E j \in DOMAIN Blocks[m] : o \in OutputsOf(Blocks[m][j])
    BY <1>1, IndexedTxs
  <2> QED BY <2>1, <2>2, <2>3
<1>4. ASSUME NEW o
      PROVE  o \in Spent(n, 1, 1) <=> o \in UNION {Range(t.inputs) : t \in Indexed(n - 1)}
  <2>1. o \in Spent(n, 1, 1) <=> /\ o \in AllOutputs
                                 /\ \E m \in 1..(n - 1) : \E j \in DOMAIN Blocks[m] :
                                      \E k \in DOMAIN Inputs(m, j) : o = Inputs(m, j)[k]
    BY <1>1, <1>2 DEF Spent
  <2>2. \A m \in 1..(n - 1) : \A j \in DOMAIN Blocks[m] : \A k \in DOMAIN Inputs(m, j) :
          Inputs(m, j)[k] \in AllOutputs
    <3>1. \A m \in 1..(n - 1) : m \in DOMAIN Blocks
      BY <1>1, ChainFacts
    <3> QED BY <3>1, ChainFacts
  <2>3. o \in UNION {Range(t.inputs) : t \in Indexed(n - 1)}
          <=> \E m \in 1..(n - 1) : \E j \in DOMAIN Blocks[m] : o \in Range(Inputs(m, j))
    BY <1>1, IndexedTxs DEF Inputs
  <2>4. \A m, j : o \in Range(Inputs(m, j)) <=> \E k \in DOMAIN Inputs(m, j) : o = Inputs(m, j)[k]
    BY DEF Range
  <2> QED BY <2>1, <2>2, <2>3, <2>4
<1> DEFINE made == UNION {OutputsOf(t) : t \in Indexed(n - 1)}
           gone == UNION {Range(t.inputs) : t \in Indexed(n - 1)}
<1>5. Created(n, 1) = made /\ Spent(n, 1, 1) = gone
  BY <1>3, <1>4
<1>6. Unspent(n - 1) = made \ gone
  BY DEF Unspent
<1> HIDE DEF made, gone
<1> QED BY <1>5, <1>6 DEF Live

\* At its end.
LEMMA LiveAtLast ==
  ASSUME NEW n \in DOMAIN Blocks
  PROVE  Live(n, Len(Blocks[n]) + 1, 1) = Unspent(n)
<1> DEFINE a == Len(Blocks[n]) + 1
<1>1. n \in Nat /\ n >= 1 /\ n \in 0..Len(Blocks) /\ Len(Blocks[n]) \in Nat
  BY ChainFacts
<1>2. ASSUME NEW m \in 1..n, NEW j \in DOMAIN Blocks[m]
      PROVE  m \in DOMAIN Blocks /\ (m < n \/ j < a)
  BY <1>1, ChainFacts
<1>3. ASSUME NEW o
      PROVE  o \in Created(n, a) <=> o \in UNION {OutputsOf(t) : t \in Indexed(n)}
  <2>1. o \in Created(n, a) <=> /\ o \in AllOutputs
                                /\ \E m \in 1..n : \E j \in DOMAIN Blocks[m] :
                                     o \in OutputsOf(Blocks[m][j])
    BY <1>2 DEF Created
  <2>2. \A m \in 1..n : \A j \in DOMAIN Blocks[m] : OutputsOf(Blocks[m][j]) \subseteq AllOutputs
    BY <1>2, OutputsOfChain
  <2>3. o \in UNION {OutputsOf(t) : t \in Indexed(n)}
          <=> \E m \in 1..n : \E j \in DOMAIN Blocks[m] : o \in OutputsOf(Blocks[m][j])
    BY <1>1, IndexedTxs
  <2> QED BY <2>1, <2>2, <2>3
<1>4. ASSUME NEW o
      PROVE  o \in Spent(n, a, 1) <=> o \in UNION {Range(t.inputs) : t \in Indexed(n)}
  <2>1. o \in Spent(n, a, 1) <=> /\ o \in AllOutputs
                                 /\ \E m \in 1..n : \E j \in DOMAIN Blocks[m] :
                                      \E k \in DOMAIN Inputs(m, j) : o = Inputs(m, j)[k]
    BY <1>2 DEF Spent
  <2>2. \A m \in 1..n : \A j \in DOMAIN Blocks[m] : \A k \in DOMAIN Inputs(m, j) :
          Inputs(m, j)[k] \in AllOutputs
    BY <1>2, ChainFacts
  <2>3. o \in UNION {Range(t.inputs) : t \in Indexed(n)}
          <=> \E m \in 1..n : \E j \in DOMAIN Blocks[m] : o \in Range(Inputs(m, j))
    BY <1>1, IndexedTxs DEF Inputs
  <2>4. \A m, j : o \in Range(Inputs(m, j)) <=> \E k \in DOMAIN Inputs(m, j) : o = Inputs(m, j)[k]
    BY DEF Range
  <2> QED BY <2>1, <2>2, <2>3, <2>4
<1> DEFINE made == UNION {OutputsOf(t) : t \in Indexed(n)}
           gone == UNION {Range(t.inputs) : t \in Indexed(n)}
<1>5. Created(n, a) = made /\ Spent(n, a, 1) = gone
  BY <1>3, <1>4
<1>6. Unspent(n) = made \ gone
  BY DEF Unspent
<1> HIDE DEF made, gone
<1> QED BY <1>5, <1>6 DEF Live

\* The next input is spent.  It may have been made where nothing was looked at, but
\* not in this block.
LEMMA LiveInput ==
  ASSUME NEW n \in DOMAIN Blocks, NEW a \in DOMAIN Blocks[n], NEW b \in DOMAIN Inputs(n, a)
  PROVE  /\ Live(n, a, b + 1) = Live(n, a, b) \ {Inputs(n, a)[b]}
         /\ \A i \in DOMAIN Blocks[n] :
              Inputs(n, a)[b].txid = Blocks[n][i].txid => Inputs(n, a)[b] \in Live(n, a, b)
<1> DEFINE o == Inputs(n, a)[b]
<1>1. n \in Nat /\ n \in 1..n /\ o \in AllOutputs
      /\ \A m \in 1..n : m \in DOMAIN Blocks
  BY ChainFacts
<1>2. ASSUME NEW i \in DOMAIN Blocks[n], o.txid = Blocks[n][i].txid PROVE o \in Created(n, a)
  <2>1. PICK m \in 1..n : \E j \in DOMAIN Chain[m] :
          m \in DOMAIN Chain /\ (m < n \/ j < a) /\ o \in OutputsOf(Chain[m][j])
    BY SpendsEarlier
  <2>2. PICK j \in DOMAIN Chain[m] :
          m \in DOMAIN Chain /\ (m < n \/ j < a) /\ o \in OutputsOf(Chain[m][j])
    BY <2>1
  <2> HIDE DEF o
  <2>3. n = m /\ i = j
    BY <1>2, <2>2, MadeOnceInChain
  <2>4. i < a /\ o \in OutputsOf(Blocks[n][i])
    BY <1>1, <2>2, <2>3, BlockOfChain
  <2> QED BY <1>1, <2>4 DEF Created
<1>3. o \notin Spent(n, a, b)
  <2> SUFFICES ASSUME NEW m \in 1..n, NEW j \in DOMAIN Blocks[m], NEW k \in DOMAIN Inputs(m, j),
                      m < n \/ j < a \/ (j = a /\ k < b), o = Inputs(m, j)[k]
               PROVE  FALSE
    BY DEF Spent
  <2>1. m = n /\ j = a /\ k = b
    BY <1>1, NoTwice
  <2>2. a \in Nat /\ b \in Nat
    BY ChainFacts
  <2> QED BY <1>1, <2>1, <2>2
<1>4. Spent(n, a, b + 1) = Spent(n, a, b) \cup {o}
  <2>1. ASSUME NEW k \in DOMAIN Inputs(n, a) PROVE k < b + 1 <=> k < b \/ k = b
    BY ChainFacts
  <2>2. ASSUME NEW p \in Spent(n, a, b + 1) PROVE p \in Spent(n, a, b) \cup {o}
    BY <1>1, <2>1 DEF Spent
  <2>3. ASSUME NEW p \in Spent(n, a, b) PROVE p \in Spent(n, a, b + 1)
    BY <1>1, <2>1 DEF Spent
  <2>4. o \in Spent(n, a, b + 1)
    BY <1>1, <2>1 DEF Spent
  <2> QED BY <2>2, <2>3, <2>4
<1> QED BY <1>2, <1>3, <1>4 DEF Live

\* After its inputs the outputs of a transaction are unspent too.
LEMMA LiveOutputs ==
  ASSUME NEW n \in DOMAIN Blocks, NEW a \in DOMAIN Blocks[n]
  PROVE  Live(n, a + 1, 1) = Live(n, a, Len(Inputs(n, a)) + 1) \cup OutputsOf(Blocks[n][a])
<1> DEFINE b == Len(Inputs(n, a)) + 1
           made == OutputsOf(Blocks[n][a])
<1>1. n \in Nat /\ n \in 1..n /\ a \in Nat /\ (\A m \in 1..n : m \in DOMAIN Blocks)
      /\ made \subseteq AllOutputs
  BY ChainFacts, OutputsOfChain
<1>2. Created(n, a + 1) = Created(n, a) \cup made
  <2>1. ASSUME NEW j \in DOMAIN Blocks[n] PROVE j < a + 1 <=> j < a \/ j = a
    BY <1>1, ChainFacts
  <2>2. ASSUME NEW p \in Created(n, a + 1) PROVE p \in Created(n, a) \cup made
    BY <1>1, <2>1 DEF Created
  <2>3. ASSUME NEW p \in Created(n, a) PROVE p \in Created(n, a + 1)
    BY <1>1, <2>1 DEF Created
  <2>4. made \subseteq Created(n, a + 1)
    BY <1>1, <2>1 DEF Created
  <2> QED BY <2>2, <2>3, <2>4
<1>3. Spent(n, a + 1, 1) = Spent(n, a, b)
  <2>1. ASSUME NEW m \in 1..n, NEW j \in DOMAIN Blocks[m], NEW k \in DOMAIN Inputs(m, j)
        PROVE  (m < n \/ j < a + 1 \/ (j = a + 1 /\ k < 1)) <=> (m < n \/ j < a \/ (j = a /\ k < b))
    <3>1. m \in DOMAIN Blocks /\ j \in Nat /\ k \in Nat /\ k >= 1
      BY <1>1, ChainFacts
    <3>2. m = n /\ j = a => k < b
      BY <1>1, ChainFacts
    <3> HIDE DEF b
    <3>3. m \in Nat /\ m <= n
      BY <1>1
    <3> QED BY <1>1, <3>1, <3>2, <3>3
  <2> HIDE DEF b
  <2> QED BY <2>1 DEF Spent
<1>4. ASSUME NEW o \in made PROVE o \notin Spent(n, a, b)
  <2> SUFFICES ASSUME NEW m \in 1..n, NEW j \in DOMAIN Blocks[m], NEW k \in DOMAIN Inputs(m, j),
                      m < n \/ j < a \/ (j = a /\ k < b), o = Inputs(m, j)[k]
               PROVE  FALSE
    BY DEF Spent
  <2>1. PICK p \in 1..m : \E q \in DOMAIN Chain[p] :
          p \in DOMAIN Chain /\ (p < m \/ q < j) /\ o \in OutputsOf(Chain[p][q])
    BY <1>1, SpendsEarlier
  <2>2. PICK q \in DOMAIN Chain[p] :
          p \in DOMAIN Chain /\ (p < m \/ q < j) /\ o \in OutputsOf(Chain[p][q])
    BY <2>1
  <2>3. m \in Nat /\ p \in Nat /\ m <= n /\ p <= m
    BY <1>1, ChainFacts
  <2>4. p = n /\ q = a
    BY <2>2, MadeOnceInChain, OutputIds
  <2>5. j \in Nat /\ m = n
    BY <1>1, <2>3, <2>4, ChainFacts
  <2> HIDE DEF b, made
  <2> QED BY <1>1, <2>2, <2>4, <2>5
<1> QED BY <1>2, <1>3, <1>4 DEF Live

-----------------------------------------------------------------------------
(* What is left of a block. *)

\* A transaction of which inputs are left.
LeftOf(n, a, b) ==
  [tx |-> Blocks[n][a], inputs |-> SubSeq(Inputs(n, a), b, Len(Inputs(n, a)))]

\* todo at a place.
Rest(n, a, b) ==
  [j \in 1..(Len(Blocks[n]) + 1 - a) |-> LeftOf(n, a + j - 1, IF j = 1 THEN b ELSE 1)]

Lefts == [tx : AllTxs, inputs : Seq(AllOutputs)]

\* The place in numbers.
LEMMA PlaceFacts ==
  ASSUME NEW n \in DOMAIN Blocks, NEW a, NEW b, IsPlace(n, a, b)
  PROVE  /\ a \in Nat /\ a >= 1 /\ a <= Len(Blocks[n]) + 1 /\ b \in Nat /\ b >= 1
         /\ a \in DOMAIN Blocks[n] <=> a # Len(Blocks[n]) + 1
         /\ a = Len(Blocks[n]) + 1 => b = 1
         /\ a \in DOMAIN Blocks[n] => /\ b <= Len(Inputs(n, a)) + 1
                                      /\ b \in DOMAIN Inputs(n, a) <=> b # Len(Inputs(n, a)) + 1
<1>1. Len(Blocks[n]) \in Nat /\ DOMAIN Blocks[n] = 1..Len(Blocks[n])
  BY ChainFacts
<1>2. a \in Nat /\ a >= 1 /\ a <= Len(Blocks[n]) + 1
  BY <1>1 DEF IsPlace
<1>3. CASE a = Len(Blocks[n]) + 1
  BY <1>1, <1>2, <1>3 DEF IsPlace
<1>4. CASE a # Len(Blocks[n]) + 1
  <2>1. a \in DOMAIN Blocks[n] /\ a <= Len(Blocks[n])
    BY <1>1, <1>2, <1>4
  <2>2. Len(Inputs(n, a)) \in Nat /\ DOMAIN Inputs(n, a) = 1..Len(Inputs(n, a))
    BY <2>1, ChainFacts
  <2> QED BY <1>1, <1>2, <1>4, <2>1, <2>2 DEF IsPlace
<1> QED BY <1>3, <1>4

\* From a place to the next.
LEMMA NextPlaces ==
  ASSUME NEW n \in DOMAIN Blocks, NEW a, NEW b, IsPlace(n, a, b)
  PROVE  /\ a \in DOMAIN Blocks[n] /\ b \in DOMAIN Inputs(n, a) => IsPlace(n, a, b + 1)
         /\ a \in DOMAIN Blocks[n] => IsPlace(n, a + 1, 1)
<1>1. Len(Blocks[n]) \in Nat /\ DOMAIN Blocks[n] = 1..Len(Blocks[n]) /\ a \in Nat /\ b \in Nat
  BY ChainFacts, PlaceFacts
<1>2. ASSUME a \in DOMAIN Blocks[n], b \in DOMAIN Inputs(n, a) PROVE IsPlace(n, a, b + 1)
  <2>1. Len(Inputs(n, a)) \in Nat /\ DOMAIN Inputs(n, a) = 1..Len(Inputs(n, a))
    BY <1>2, ChainFacts
  <2> QED BY <1>1, <1>2, <2>1 DEF IsPlace
<1>3. ASSUME a \in DOMAIN Blocks[n] PROVE IsPlace(n, a + 1, 1)
  <2>1. a + 1 \in 1..(Len(Blocks[n]) + 1)
    BY <1>1, <1>3
  <2>2. a + 1 <= Len(Blocks[n]) => Len(Inputs(n, a + 1)) \in Nat
    BY <1>1, <2>1, ChainFacts
  <2> QED BY <2>1, <2>2 DEF IsPlace
<1> QED BY <1>2, <1>3

\* The first place of a block is one.
LEMMA FirstPlace ==
  ASSUME NEW n \in DOMAIN Blocks
  PROVE  IsPlace(n, 1, 1)
<1>1. Len(Blocks[n]) \in Nat /\ DOMAIN Blocks[n] = 1..Len(Blocks[n])
  BY ChainFacts
<1>2. 1 <= Len(Blocks[n]) => Len(Inputs(n, 1)) \in Nat
  BY <1>1, ChainFacts
<1> QED BY <1>1, <1>2 DEF IsPlace

\* What is left of a transaction.
LEMMA LeftFacts ==
  ASSUME NEW n \in DOMAIN Blocks, NEW a \in DOMAIN Blocks[n],
         NEW b \in 1..(Len(Inputs(n, a)) + 1)
  PROVE  /\ LeftOf(n, a, b) \in Lefts
         /\ LeftOf(n, a, b).inputs = << >> <=> b = Len(Inputs(n, a)) + 1
         /\ b \in DOMAIN Inputs(n, a) =>
              /\ Head(LeftOf(n, a, b).inputs) = Inputs(n, a)[b]
              /\ [LeftOf(n, a, b) EXCEPT !.inputs = Tail(@)] = LeftOf(n, a, b + 1)
         /\ LeftOf(n, a, 1) = [tx |-> Blocks[n][a], inputs |-> Inputs(n, a)]
<1> DEFINE s == Inputs(n, a)
           l == SubSeq(s, b, Len(s))
<1>1. /\ s \in Seq(AllOutputs) /\ Len(s) \in Nat /\ DOMAIN s = 1..Len(s)
      /\ \A k \in DOMAIN s : s[k] \in AllOutputs
      /\ Blocks[n][a] \in AllTxs
  BY ChainFacts
<1>2. l \in Seq(AllOutputs) /\ Len(l) = IF b <= Len(s) THEN Len(s) - b + 1 ELSE 0
  <2>1. b \in Int /\ Len(s) \in Int /\ \A i \in b..Len(s) : s[i] \in AllOutputs
    BY <1>1
  <2> HIDE DEF s
  <2> QED BY <2>1, SubSeqProperties
<1>3. l = << >> <=> b = Len(s) + 1
  <2>1. l = << >> <=> Len(l) = 0
    BY <1>2, EmptySeq
  <2> QED BY <1>1, <1>2, <2>1
<1>4. b \in DOMAIN s => Head(l) = s[b] /\ Tail(l) = SubSeq(s, b + 1, Len(s))
  <2>1. b \in DOMAIN s => b \in 1..Len(s) /\ Len(s) \in b..Len(s)
    BY <1>1
  <2> HIDE DEF s
  <2> QED BY <1>1, <2>1, HeadTailOfSubSeq
<1>5. SubSeq(s, 1, Len(s)) = s
  BY <1>1, SubSeqFull
<1>6. LeftOf(n, a, b) = [tx |-> Blocks[n][a], inputs |-> l]
  BY DEF LeftOf
<1>7. LeftOf(n, a, b + 1) = [tx |-> Blocks[n][a], inputs |-> SubSeq(s, b + 1, Len(s))]
  BY DEF LeftOf
<1>8. LeftOf(n, a, 1) = [tx |-> Blocks[n][a], inputs |-> s]
  BY <1>5 DEF LeftOf
<1> HIDE DEF s, l
<1>9. LeftOf(n, a, b) \in Lefts /\ LeftOf(n, a, b).inputs = l
  BY <1>1, <1>2, <1>6 DEF Lefts
<1>10. b \in DOMAIN s => [LeftOf(n, a, b) EXCEPT !.inputs = Tail(@)] = LeftOf(n, a, b + 1)
  <2> DEFINE rest == Tail(LeftOf(n, a, b).inputs)
  <2>1. b \in DOMAIN s => rest = SubSeq(s, b + 1, Len(s))
    BY <1>4, <1>9
  <2> HIDE DEF rest
  <2>2. [LeftOf(n, a, b) EXCEPT !.inputs = rest] = [tx |-> Blocks[n][a], inputs |-> rest]
    BY <1>6
  <2> QED BY <1>7, <2>1, <2>2 DEF rest
<1> QED BY <1>3, <1>4, <1>8, <1>9, <1>10 DEF s

\* What is left of a block is a sequence.
LEMMA RestFacts ==
  ASSUME NEW n \in DOMAIN Blocks, NEW a, NEW b, IsPlace(n, a, b)
  PROVE  /\ Rest(n, a, b) \in Seq(Lefts)
         /\ Len(Rest(n, a, b)) = Len(Blocks[n]) + 1 - a
         /\ Rest(n, a, b) = << >> <=> a \notin DOMAIN Blocks[n]
         /\ a \in DOMAIN Blocks[n] => Head(Rest(n, a, b)) = LeftOf(n, a, b)
<1> DEFINE R == Rest(n, a, b)
           len == Len(Blocks[n]) + 1 - a
<1>1. Len(Blocks[n]) \in Nat /\ DOMAIN Blocks[n] = 1..Len(Blocks[n])
      /\ a \in Nat /\ a >= 1 /\ a <= Len(Blocks[n]) + 1 /\ b \in Nat /\ b >= 1
      /\ (a \in DOMAIN Blocks[n] => b \in 1..(Len(Inputs(n, a)) + 1))
      /\ (a \in DOMAIN Blocks[n] <=> a # Len(Blocks[n]) + 1)
  <2>1. a \in DOMAIN Blocks[n] => Len(Inputs(n, a)) \in Nat
    BY ChainFacts
  <2> QED BY <2>1, ChainFacts, PlaceFacts
<1>2. len \in Nat /\ (len = 0 <=> a \notin DOMAIN Blocks[n])
  BY <1>1
<1>3. ASSUME NEW j \in 1..len PROVE LeftOf(n, a + j - 1, IF j = 1 THEN b ELSE 1) \in Lefts
  <2>1. a + j - 1 \in DOMAIN Blocks[n]
    BY <1>1
  <2>2. Len(Inputs(n, a + j - 1)) \in Nat
    BY <2>1, ChainFacts
  <2>3. (IF j = 1 THEN b ELSE 1) \in 1..(Len(Inputs(n, a + j - 1)) + 1)
    <3>1. CASE j = 1
      <4>1. a + j - 1 = a
        BY <1>1, <3>1
      <4> QED BY <1>1, <2>1, <3>1, <4>1
    <3>2. CASE j # 1
      BY <2>2, <3>2
    <3> QED BY <3>1, <3>2
  <2> QED BY <2>1, <2>3, LeftFacts
<1>4. R \in [1..len -> Lefts]
  BY <1>3 DEF Rest
<1>5. R \in Seq(Lefts) /\ Len(R) = len
  <2>1. R \in Seq(Lefts)
    <3> HIDE DEF R, len
    <3>1. R \in UNION {[1..k -> Lefts] : k \in Nat}
      BY <1>2, <1>4
    <3> QED BY <3>1, SeqDef, Zenon
  <2>2. DOMAIN R = 1..len
    BY <1>4
  <2>3. Len(R) \in Nat /\ DOMAIN R = 1..Len(R)
    BY <2>1, LenProperties
  <2> HIDE DEF R, len
  <2> QED BY <1>2, <2>1, <2>2, <2>3
<1>6. R = << >> <=> Len(R) = 0
  BY <1>5, EmptySeq
<1>7. a \in DOMAIN Blocks[n] => Head(R) = LeftOf(n, a, b)
  <2> SUFFICES ASSUME a \in DOMAIN Blocks[n] PROVE Head(R) = LeftOf(n, a, b)
    OBVIOUS
  <2>1. 1 \in 1..len /\ a + 1 - 1 = a
    BY <1>1, <1>2
  <2>2. R[1] = LeftOf(n, a, b)
    BY <2>1 DEF Rest
  <2>3. Head(R) = R[1]
    <3> HIDE DEF R
    <3> QED OBVIOUS
  <2> QED BY <2>2, <2>3
<1> QED BY <1>2, <1>5, <1>6, <1>7

\* An input is done.
LEMMA RestInput ==
  ASSUME NEW n \in DOMAIN Blocks, NEW a \in DOMAIN Blocks[n], NEW b \in DOMAIN Inputs(n, a),
         IsPlace(n, a, b)
  PROVE  <<LeftOf(n, a, b + 1)>> \o Tail(Rest(n, a, b)) = Rest(n, a, b + 1)
<1> DEFINE R == Rest(n, a, b)
           N == Rest(n, a, b + 1)
           len == Len(Blocks[n]) + 1 - a
           h == LeftOf(n, a, b + 1)
<1>1. /\ R \in Seq(Lefts) /\ Len(R) = len /\ R # << >>
      /\ N \in Seq(Lefts) /\ Len(N) = len /\ N # << >> /\ h = Head(N)
  BY NextPlaces, RestFacts
<1>2. len \in Nat /\ len >= 1 /\ a \in Nat
  BY ChainFacts
<1>3. \A j \in 1..len : j # 1 => R[j] = N[j]
  BY DEF Rest
<1> HIDE DEF R, N, len, h
<1>4. Head(N) \in Lefts /\ Tail(R) \in Seq(Lefts) /\ Tail(N) \in Seq(Lefts)
      /\ Len(Tail(R)) = len - 1 /\ Len(Tail(N)) = len - 1
  BY <1>1, HeadTailProperties
<1>5. \A j \in 1..(len - 1) : Tail(R)[j] = R[j + 1] /\ Tail(N)[j] = N[j + 1]
  BY <1>1, <1>4, HeadTailProperties
<1>6. Tail(R) = Tail(N)
  <2>1. \A j \in 1..(len - 1) : Tail(R)[j] = Tail(N)[j]
    <3>1. \A j \in 1..(len - 1) : j + 1 \in 1..len /\ j + 1 # 1
      BY <1>2
    <3> QED BY <1>3, <1>5, <3>1
  <2> QED BY <1>4, <2>1, SeqEqual
<1>7. <<Head(N)>> \o Tail(N) = N
  BY <1>1
<1> QED BY <1>1, <1>6, <1>7 DEF R, N, h

\* A transaction is done.
LEMMA RestOutputs ==
  ASSUME NEW n \in DOMAIN Blocks, NEW a \in DOMAIN Blocks[n], NEW b, IsPlace(n, a, b)
  PROVE  Tail(Rest(n, a, b)) = Rest(n, a + 1, 1)
<1> DEFINE R == Rest(n, a, b)
           N == Rest(n, a + 1, 1)
           len == Len(Blocks[n]) + 1 - a
<1>1. /\ R \in Seq(Lefts) /\ Len(R) = len /\ R # << >>
      /\ N \in Seq(Lefts) /\ Len(N) = Len(Blocks[n]) + 1 - (a + 1)
  BY NextPlaces, RestFacts
<1>2. len \in Nat /\ len >= 1 /\ a \in Nat /\ Len(Blocks[n]) \in Nat
      /\ Len(Blocks[n]) + 1 - (a + 1) = len - 1
  BY ChainFacts
<1>3. \A j \in 1..(len - 1) : R[j + 1] = N[j]
  <2> SUFFICES ASSUME NEW j \in 1..(len - 1) PROVE R[j + 1] = N[j]
    OBVIOUS
  <2>1. j + 1 \in 1..len /\ j + 1 # 1 /\ a + (j + 1) - 1 = (a + 1) + j - 1
        /\ j \in 1..(Len(Blocks[n]) + 1 - (a + 1))
    BY <1>2
  <2>2. R[j + 1] = LeftOf(n, a + (j + 1) - 1, 1)
    BY <2>1 DEF Rest
  <2>3. N[j] = LeftOf(n, (a + 1) + j - 1, 1)
    BY <2>1 DEF Rest
  <2> QED BY <2>1, <2>2, <2>3
<1> HIDE DEF R, N, len
<1>4. Tail(R) \in Seq(Lefts) /\ Len(Tail(R)) = len - 1
      /\ \A j \in 1..(len - 1) : Tail(R)[j] = R[j + 1]
  BY <1>1, HeadTailProperties
<1>5. Tail(R) = N
  <2>1. \A j \in 1..(len - 1) : Tail(R)[j] = N[j]
    BY <1>3, <1>4
  <2> QED BY <1>1, <1>2, <1>4, <2>1, SeqEqual
<1> QED BY <1>5 DEF R, N

\* index_block begins with all of the block.
LEMMA RestFirst ==
  ASSUME NEW n \in DOMAIN Blocks
  PROVE  [i \in DOMAIN Blocks[n] |-> [tx |-> Blocks[n][i], inputs |-> Blocks[n][i].inputs]]
           = Rest(n, 1, 1)
<1>1. Len(Blocks[n]) \in Nat /\ DOMAIN Blocks[n] = 1..Len(Blocks[n])
      /\ Len(Blocks[n]) + 1 - 1 = Len(Blocks[n])
  BY ChainFacts
<1>2. ASSUME NEW i \in DOMAIN Blocks[n]
      PROVE  [tx |-> Blocks[n][i], inputs |-> Blocks[n][i].inputs]
               = LeftOf(n, 1 + i - 1, IF i = 1 THEN 1 ELSE 1)
  <2>1. i \in Nat /\ 1 + i - 1 = i /\ 1 \in 1..(Len(Inputs(n, i)) + 1)
    BY ChainFacts
  <2>2. LeftOf(n, i, 1) = [tx |-> Blocks[n][i], inputs |-> Inputs(n, i)]
    BY <2>1, LeftFacts
  <2> QED BY <2>1, <2>2 DEF Inputs
<1> QED BY <1>1, <1>2 DEF Rest

-----------------------------------------------------------------------------
(* The fetcher: the answers to a batch, in whatever order its parts come.  *)

\* The ids that outputs are asked for by.
Txids(s) == [i \in DOMAIN s |-> s[i].txid]

\* A nonempty set of numbers has a least.
LEMMA LeastNumber ==
  ASSUME NEW T \in SUBSET Nat, T # {}
  PROVE  \E r \in T : \A s \in T : r <= s
<1>1. PICK r \in T : \A s \in T : ~(<<s, r>> \in OpToRel(<, Nat))
  BY WFMin, NatLessThanWellFounded
<1>2. \A s \in T : ~(s < r)
  BY <1>1 DEF OpToRel
<1> QED BY <1>2

\* Numbers up to n that increase n times are these numbers.
LEMMA Increasing ==
  ASSUME NEW n \in Nat, NEW h \in [1..n -> 1..n],
         \A i, j \in 1..n : i < j => h[i] < h[j]
  PROVE  \A i \in 1..n : h[i] = i
<1>1. \A i \in 1..n : h[i] \in Nat /\ h[i] >= 1 /\ h[i] <= n
  OBVIOUS
<1>2. \A i \in 1..n : h[i] >= i
  <2> DEFINE T == {i \in 1..n : h[i] < i}
  <2> SUFFICES ASSUME T # {} PROVE FALSE
    BY <1>1
  <2>1. T \in SUBSET Nat
    OBVIOUS
  <2>2. PICK i \in T : \A s \in T : i <= s
    <3> HIDE DEF T
    <3> QED BY <2>1, LeastNumber
  <2>3. i \in 1..n /\ h[i] < i /\ h[i] >= 1 /\ i \in Nat
    BY <1>1, <2>2
  <2>4. i - 1 \in 1..n /\ i - 1 < i
    BY <2>3, <1>1
  <2>5. h[i - 1] >= i - 1
    BY <1>1, <2>2, <2>3, <2>4
  <2>6. h[i - 1] < h[i]
    BY <2>3, <2>4
  <2> QED BY <1>1, <2>3, <2>4, <2>5, <2>6
<1>3. \A i \in 1..n : h[i] <= i
  <2> DEFINE T == {k \in 0..(n - 1) : h[n - k] > n - k}
  <2> SUFFICES ASSUME NEW x \in 1..n, h[x] > x PROVE FALSE
    BY <1>1
  <2>1. n - x \in 0..(n - 1) /\ n - (n - x) = x
    OBVIOUS
  <2>2. T \in SUBSET Nat /\ T # {}
    <3>1. T \in SUBSET Nat
      OBVIOUS
    <3>2. h[n - (n - x)] > n - (n - x)
      BY <2>1
    <3>3. n - x \in T
      BY <2>1, <3>2
    <3> HIDE DEF T
    <3> QED BY <3>1, <3>3
  <2>3. PICK k \in T : \A s \in T : k <= s
    <3> HIDE DEF T
    <3> QED BY <2>2, LeastNumber
  <2>4. k \in 0..(n - 1) /\ h[n - k] > n - k /\ n - k \in 1..n
    BY <2>3
  <2>5. k # 0
    BY <1>1, <2>4
  <2>6. k - 1 \in 0..(n - 1) /\ ~(k <= k - 1)
    BY <2>4, <2>5
  <2>7. n - (k - 1) \in 1..n /\ n - k < n - (k - 1)
    BY <2>4, <2>6
  <2>8. ~(h[n - (k - 1)] > n - (k - 1))
    BY <2>3, <2>6
  <2>9. h[n - k] < h[n - (k - 1)]
    BY <2>4, <2>7
  <2>10. h[n - k] \in Nat /\ h[n - (k - 1)] \in Nat
    BY <1>1, <2>4, <2>7
  <2> QED BY <2>4, <2>7, <2>8, <2>9, <2>10
<1> QED BY <1>1, <1>2, <1>3

\* The results to a part of a batch, in any order.
Results(chunk) == {[id |-> i, txid |-> chunk[i].txid] : i \in DOMAIN chunk}

\* get_transactions puts them in the order of the part.
LEMMA ResultsInOrder ==
  ASSUME NEW chunk \in Seq(AllOutputs), NEW received \in SetToSeqs(Results(chunk))
  PROVE  InOrder(received) = Txids(chunk)
<1> DEFINE n == Len(chunk)
           R == Results(chunk)
           res == [i \in 1..n |-> [id |-> i, txid |-> chunk[i].txid]]
           Sorted(s) == s \in SetToSeqs(R) /\ \A i, j \in DOMAIN s : i < j => s[i].id < s[j].id
<1>1. n \in Nat /\ DOMAIN chunk = 1..n
  BY LenProperties
<1>2. /\ res \in [1..n -> R]
      /\ \A i, j \in 1..n : res[i] = res[j] => i = j
      /\ \A x \in R : \E i \in 1..n : res[i] = x
  BY <1>1 DEF Results
<1>3. IsFiniteSet(R) /\ Cardinality(R) = n
  <2>1. res \in Bijection(1..n, R)
    <3> HIDE DEF res, n, R
    <3> QED BY <1>2, Fun_IsBij
  <2>2. IsFiniteSet(1..n) /\ Cardinality(1..n) = n
    BY <1>1, FS_Interval
  <2> HIDE DEF res, n, R
  <2>3. ExistsBijection(1..n, R)
    BY <2>1 DEF ExistsBijection
  <2> QED BY <2>2, <2>3, FS_Bijection
<1>4. \A s : s \in SetToSeqs(R) <=> s \in [1..n -> R] /\ \A i, j \in 1..n : i # j => s[i] # s[j]
  BY <1>3 DEF SetToSeqs
<1>5. Range(received) = R
  <2>1. received \in Injection(1..n, R)
    <3> HIDE DEF n, R
    <3>1. received \in [1..n -> R] /\ \A i, j \in 1..n : received[i] = received[j] => i = j
      BY <1>4 DEF R
    <3> QED BY <3>1, Fun_IsInj
  <2>2. IsFiniteSet(1..n) /\ Cardinality(1..n) = n
    BY <1>1, FS_Interval
  <2> HIDE DEF n, R
  <2>3. received \in Surjection(1..n, R)
    BY <1>3, <2>1, <2>2, FS_Injection
  <2> QED BY <2>3, Fun_SurjectionProperties
<1>6. Sorted(res)
  <2>1. res \in SetToSeqs(R)
    <3> HIDE DEF res, n, R
    <3> QED BY <1>2, <1>4
  <2>2. DOMAIN res = 1..n /\ \A i \in 1..n : res[i].id = i
    OBVIOUS
  <2> HIDE DEF res, n, R
  <2> QED BY <2>1, <2>2
<1> DEFINE sorted == CHOOSE s \in SetToSeqs(R) :
                       \A i, j \in DOMAIN s : i < j => s[i].id < s[j].id
<1>7. Sorted(sorted)
  <2> HIDE DEF res, R
  <2> QED BY <1>6
<1>8. \A i \in 1..n : sorted[i] = res[i]
  <2> HIDE DEF sorted
  <2>1. sorted \in [1..n -> R] /\ \A i, j \in 1..n : i < j => sorted[i].id < sorted[j].id
    BY <1>4, <1>7
  <2> DEFINE h == [i \in 1..n |-> sorted[i].id]
  <2>2. \A i \in 1..n : sorted[i].id \in 1..n /\ sorted[i] = res[sorted[i].id]
    BY <1>1, <2>1 DEF Results
  <2>3. h \in [1..n -> 1..n] /\ \A i, j \in 1..n : i < j => h[i] < h[j]
    BY <2>1, <2>2
  <2>4. \A i \in 1..n : h[i] = i
    <3> HIDE DEF h, n
    <3> QED BY <1>1, <2>3, Increasing
  <2>5. \A i \in 1..n : sorted[i].id = i
    BY <2>4
  <2> HIDE DEF res, h, R
  <2> QED BY <2>2, <2>5
<1>9. DOMAIN sorted = 1..n
  <2> HIDE DEF sorted, R
  <2> QED BY <1>4, <1>7
<1>10. InOrder(received) = [i \in DOMAIN sorted |-> sorted[i].txid]
  BY <1>5 DEF InOrder
<1> HIDE DEF sorted
<1> QED BY <1>1, <1>8, <1>9, <1>10 DEF Txids

\* Sequences put together one by one.
LEMMA FlattenIs ==
  ASSUME NEW seqs, Len(seqs) \in Nat, Len(seqs) # 0, NEW f,
         f = [i \in 1..Len(seqs) |-> IF i = 1 THEN seqs[i] ELSE f[i - 1] \o seqs[i]]
  PROVE  FlattenSeq(seqs) = f[Len(seqs)]
<1> DEFINE n == Len(seqs)
           g == CHOOSE flatten : flatten = [i \in 1..n |-> IF i = 1 THEN seqs[i]
                                                           ELSE flatten[i - 1] \o seqs[i]]
           T == {i \in 1..n : g[i] # f[i]}
<1>1. g = [i \in 1..n |-> IF i = 1 THEN seqs[i] ELSE g[i - 1] \o seqs[i]]
  <2>1. \E h : h = [i \in 1..n |-> IF i = 1 THEN seqs[i] ELSE h[i - 1] \o seqs[i]]
    BY Zenon
  <2> QED BY <2>1, Zenon
<1>2. FlattenSeq(seqs) = g[n]
  BY DEF FlattenSeq
<1> HIDE DEF g
<1>3. T = {}
  <2> SUFFICES ASSUME T # {} PROVE FALSE
    OBVIOUS
  <2>1. T \in SUBSET Nat
    OBVIOUS
  <2>2. PICK i \in T : \A s \in T : i <= s
    <3> HIDE DEF T
    <3> QED BY <2>1, LeastNumber
  <2>3. i \in 1..n /\ g[i] # f[i] /\ i \in Nat
    BY <2>2
  <2>4. i # 1
    BY <1>1, <2>3
  <2>5. i - 1 \in 1..n /\ ~(i <= i - 1)
    BY <2>3, <2>4
  <2>6. g[i - 1] = f[i - 1]
    BY <2>2, <2>5
  <2>7. g[i] = g[i - 1] \o seqs[i] /\ f[i] = f[i - 1] \o seqs[i]
    BY <1>1, <2>3, <2>4
  <2> QED BY <2>3, <2>6, <2>7
<1>4. g[n] = f[n]
  <2>1. n \in 1..n
    OBVIOUS
  <2> QED BY <1>3, <2>1
<1> QED BY <1>2, <1>4

-----------------------------------------------------------------------------
(* Where the updater is in a block. *)

AtPlace(a, b) == IsPlace(Height, a, b) /\ todo = Rest(Height, a, b)

\* Nothing is left, or outputs are to be listed, or an input is to be done.
LEMMA Places ==
  ASSUME Height \in DOMAIN Blocks, NEW a, NEW b, AtPlace(a, b)
  PROVE  /\ todo = << >> => a = Len(Blocks[Height]) + 1 /\ b = 1
         /\ todo # << >> => a \in DOMAIN Blocks[Height] /\ Current.tx = Blocks[Height][a]
         /\ todo # << >> /\ Current.inputs = << >> =>
              /\ b = Len(Inputs(Height, a)) + 1
              /\ IsPlace(Height, a + 1, 1) /\ Tail(todo) = Rest(Height, a + 1, 1)
         /\ todo # << >> /\ Current.inputs # << >> =>
              /\ b \in DOMAIN Inputs(Height, a) /\ Input = Inputs(Height, a)[b]
              /\ IsPlace(Height, a, b + 1) /\ AfterInput = Rest(Height, a, b + 1)
<1> DEFINE n == Height
<1>1. IsPlace(n, a, b) /\ todo = Rest(n, a, b)
  BY DEF AtPlace
<1> HIDE DEF n
<1>2. n \in DOMAIN Blocks
  BY DEF n
<1>3. todo = << >> => a = Len(Blocks[n]) + 1 /\ b = 1
  <2>1. Rest(n, a, b) = << >> <=> a \notin DOMAIN Blocks[n]
    BY <1>1, <1>2, RestFacts
  <2>2. /\ a \in DOMAIN Blocks[n] <=> a # Len(Blocks[n]) + 1
        /\ a = Len(Blocks[n]) + 1 => b = 1
    BY <1>1, <1>2, PlaceFacts
  <2> QED BY <1>1, <2>1, <2>2
<1>4. ASSUME todo # << >>
      PROVE  /\ a \in DOMAIN Blocks[n] /\ Current = LeftOf(n, a, b)
             /\ b \in 1..(Len(Inputs(n, a)) + 1) /\ Len(Inputs(n, a)) \in Nat
             /\ b \in DOMAIN Inputs(n, a) <=> b # Len(Inputs(n, a)) + 1
  <2>1. a \in DOMAIN Blocks[n] /\ Head(todo) = LeftOf(n, a, b)
    BY <1>1, <1>2, <1>4, RestFacts
  <2>2. Len(Inputs(n, a)) \in Nat
    BY <1>2, <2>1, ChainFacts
  <2>3. /\ b \in Nat /\ b >= 1 /\ b <= Len(Inputs(n, a)) + 1
        /\ b \in DOMAIN Inputs(n, a) <=> b # Len(Inputs(n, a)) + 1
    BY <1>1, <1>2, <2>1, PlaceFacts
  <2> QED BY <2>1, <2>2, <2>3 DEF Current
<1>5. ASSUME todo # << >> PROVE Current.tx = Blocks[n][a]
  BY <1>4, <1>5 DEF LeftOf
<1>6. ASSUME todo # << >>, Current.inputs = << >>
      PROVE  /\ b = Len(Inputs(n, a)) + 1
             /\ IsPlace(n, a + 1, 1) /\ Tail(todo) = Rest(n, a + 1, 1)
  <2>1. b = Len(Inputs(n, a)) + 1
    <3>1. LeftOf(n, a, b).inputs = << >> <=> b = Len(Inputs(n, a)) + 1
      BY <1>2, <1>4, <1>6, LeftFacts
    <3> QED BY <1>4, <1>6, <3>1
  <2>2. IsPlace(n, a + 1, 1)
    BY <1>1, <1>2, <1>4, <1>6, NextPlaces
  <2>3. Tail(todo) = Rest(n, a + 1, 1)
    BY <1>1, <1>2, <1>4, <1>6, RestOutputs
  <2> QED BY <2>1, <2>2, <2>3
<1>7. ASSUME todo # << >>, Current.inputs # << >>
      PROVE  /\ b \in DOMAIN Inputs(n, a) /\ Input = Inputs(n, a)[b]
             /\ IsPlace(n, a, b + 1) /\ AfterInput = Rest(n, a, b + 1)
  <2>1. b \in DOMAIN Inputs(n, a)
    <3>1. a \in DOMAIN Blocks[n] /\ b \in 1..(Len(Inputs(n, a)) + 1)
      BY <1>4, <1>7
    <3>2. LeftOf(n, a, b).inputs = << >> <=> b = Len(Inputs(n, a)) + 1
      BY <1>2, <3>1, LeftFacts
    <3> QED BY <1>4, <1>7, <3>2
  <2>2. Input = Inputs(n, a)[b]
    <3>1. a \in DOMAIN Blocks[n] /\ b \in 1..(Len(Inputs(n, a)) + 1)
      BY <1>4, <1>7
    <3>2. Head(LeftOf(n, a, b).inputs) = Inputs(n, a)[b]
      BY <1>2, <2>1, <3>1, LeftFacts
    <3> QED BY <1>4, <1>7, <3>2 DEF Input
  <2>3. [Current EXCEPT !.inputs = Tail(@)] = LeftOf(n, a, b + 1)
    <3>1. [LeftOf(n, a, b) EXCEPT !.inputs = Tail(@)] = LeftOf(n, a, b + 1)
      BY <1>2, <1>4, <1>7, <2>1, LeftFacts
    <3> HIDE DEF Current
    <3> QED BY <1>4, <1>7, <3>1, Zenon
  <2>4. AfterInput = <<LeftOf(n, a, b + 1)>> \o Tail(Rest(n, a, b))
    <3>1. AfterInput = <<[Current EXCEPT !.inputs = Tail(@)]>> \o Tail(todo)
      BY Zenon DEF AfterInput
    <3> QED BY <1>1, <2>3, <3>1, Zenon
  <2> QED BY <1>1, <1>2, <1>4, <1>7, <2>1, <2>2, <2>4, RestInput, NextPlaces
<1> QED BY <1>3, <1>4, <1>5, <1>6, <1>7 DEF n

-----------------------------------------------------------------------------
(* Types, and what is read of the tables in each phase. *)

IsTables(t, n) ==
  /\ t = [blocks |-> t.blocks, txouts |-> t.txouts, listed |-> t.listed,
          complete |-> t.complete]
  /\ t.blocks \in 0..n
  /\ t.complete \in BOOLEAN

Types ==
  /\ setting \in BOOLEAN
  /\ mined \in 0..Len(Blocks)
  /\ IsTables(db, mined)
  /\ IsTables(wtx, mined)
  /\ pc \in {"idle", "block", "request", "receive", "commit", "panicked"}
  /\ pc \in {"request", "receive"} => Height <= mined
  /\ pc = "idle" => wtx = db /\ cache = {}
  /\ pc = "receive" /\ ~setting => todo = << >>

\* Types at the start.
LEMMA InitTypes == Init => Types
<1> SUFFICES ASSUME Init PROVE Types
  OBVIOUS
<1>1. Len(Blocks) \in Nat
  BY ChainFacts
<1>2. db = [blocks |-> 0, txouts |-> {}, listed |-> {}, complete |-> TRUE] /\ wtx = db /\ mined = 0
  BY DEF Init, NoTables
<1>3. IsTables(db, mined) /\ IsTables(wtx, mined)
  BY <1>2 DEF IsTables
<1> QED BY <1>1, <1>3 DEF Init, Types

\* The write transaction after an input, after outputs and after a block, and what
\* is committed.
LEMMA Written ==
  ASSUME Types
  PROVE  /\ \A txout : Unlist(txout) =>
              wtx' = [blocks |-> wtx.blocks, txouts |-> wtx.txouts \ {Input},
                      listed |-> wtx.listed \ {[script |-> ScriptOf(txout), output |-> Input]},
                      complete |-> wtx.complete]
         /\ ListOutputs =>
              wtx' = [blocks |-> wtx.blocks, txouts |-> wtx.txouts,
                      listed |-> wtx.listed \cup {Listing(o) : o \in OutputsOf(Current.tx)},
                      complete |-> wtx.complete]
         /\ EndBlock =>
              wtx' = [blocks |-> wtx.blocks + 1, txouts |-> wtx.txouts, listed |-> wtx.listed,
                      complete |-> (wtx.complete /\ setting)]
         /\ Flushed = [blocks |-> wtx.blocks, txouts |-> wtx.txouts \cup cache,
                       listed |-> wtx.listed, complete |-> wtx.complete]
<1>1. IsTables(wtx, mined)
  BY DEF Types
<1>2. wtx = [blocks |-> wtx.blocks, txouts |-> wtx.txouts, listed |-> wtx.listed,
             complete |-> wtx.complete]
  BY <1>1 DEF IsTables
<1>3. ASSUME NEW txout, Unlist(txout)
      PROVE  wtx' = [blocks |-> wtx.blocks, txouts |-> wtx.txouts \ {Input},
                     listed |-> wtx.listed \ {[script |-> ScriptOf(txout), output |-> Input]},
                     complete |-> wtx.complete]
  <2> DEFINE gone == [script |-> ScriptOf(txout), output |-> Input]
  <2>1. wtx' = [wtx EXCEPT !.txouts = @ \ {Input}, !.listed = @ \ {gone}]
    BY <1>3, Zenon DEF Unlist
  <2> HIDE DEF gone
  <2> QED BY <1>2, <2>1 DEF gone
<1>4. ASSUME ListOutputs
      PROVE  wtx' = [blocks |-> wtx.blocks, txouts |-> wtx.txouts,
                     listed |-> wtx.listed \cup {Listing(o) : o \in OutputsOf(Current.tx)},
                     complete |-> wtx.complete]
  <2> DEFINE new == {Listing(o) : o \in OutputsOf(Current.tx)}
  <2>1. wtx' = [wtx EXCEPT !.listed = @ \cup new]
    BY <1>4, Zenon DEF ListOutputs
  <2> HIDE DEF new
  <2> QED BY <1>2, <2>1 DEF new
<1>5. ASSUME EndBlock
      PROVE  wtx' = [blocks |-> wtx.blocks + 1, txouts |-> wtx.txouts, listed |-> wtx.listed,
                     complete |-> (wtx.complete /\ setting)]
  <2>1. wtx' = [wtx EXCEPT !.blocks = @ + 1, !.complete = @ /\ setting]
    BY <1>5, Zenon DEF EndBlock
  <2> QED BY <1>2, <2>1
<1>6. Flushed = [blocks |-> wtx.blocks, txouts |-> wtx.txouts \cup cache,
                 listed |-> wtx.listed, complete |-> wtx.complete]
  <2>1. Flushed = [wtx EXCEPT !.txouts = @ \cup cache]
    BY Zenon DEF Flushed
  <2> QED BY <1>2, <2>1
<1> QED BY <1>3, <1>4, <1>5, <1>6

\* What is dropped.
LEMMA Dropped ==
  ASSUME Drop
  PROVE  /\ wtx' = db /\ db' = db /\ todo' = << >> /\ cache' = {}
         /\ requests' = << >> /\ answers' = << >> /\ lagged' = FALSE /\ fetcher' = Idle
BY DEF Drop

\* The fetcher leaves the updater alone.
LEMMA UpdaterStays ==
  ASSUME FetchThread \/ FetchFails
  PROVE  UNCHANGED <<setting, indexAddresses, mined, db, wtx, pc, todo, cache>>
BY DEF FetchThread, FetchFails, config, external, updater

\* Each action keeps the types, and begins a block only when there is one.
LEMMA TypesStep ==
  ASSUME Types, [Next]_vars
  PROVE  Types'
<1> DEFINE Phases == {"idle", "block", "request", "receive", "commit", "panicked"}
           Same == UNCHANGED <<setting, mined, db>>
<1>1. /\ setting \in BOOLEAN /\ mined \in 0..Len(Blocks)
      /\ IsTables(db, mined) /\ IsTables(wtx, mined)
      /\ pc \in Phases
      /\ pc \in {"request", "receive"} => Height <= mined
      /\ pc = "idle" => wtx = db /\ cache = {}
      /\ pc = "receive" /\ ~setting => todo = << >>
  BY DEF Types
<1>2. Len(Blocks) \in Nat /\ mined \in Nat
  BY <1>1, ChainFacts
<1>3. ASSUME UNCHANGED <<setting, mined, db, wtx, pc, todo, cache>> PROVE Types'
  BY <1>1, <1>3 DEF Types, Height
<1>4. ASSUME UNCHANGED <<setting, mined, db, wtx>>, NEW p \in Phases, pc' = p, p # "idle",
             p \in {"request", "receive"} => Height <= mined,
             p = "receive" /\ ~setting => todo' = << >>
      PROVE  Types'
  BY <1>1, <1>4 DEF Types, Height
<1>5. ASSUME UNCHANGED mined, setting' \in BOOLEAN, Drop, pc' = "idle" PROVE Types'
  BY <1>1, <1>5, Dropped DEF Types
<1>6. ASSUME UNCHANGED <<setting, mined, db, pc>>, pc = "receive", IsTables(wtx', mined),
             wtx'.blocks = wtx.blocks, setting \/ todo' = << >>
      PROVE  Types'
  BY <1>1, <1>6 DEF Types, Height
<1>7. CASE UNCHANGED vars
  BY <1>3, <1>7 DEF vars, config, external, updater
<1>8. CASE BeginUpdate
  BY <1>4, <1>8 DEF BeginUpdate, Goto, config, external, updater
<1>9. CASE BeginBlock
  <2>1. CASE setting => NothingToReceive
    BY <1>4, <1>9, <2>1 DEF BeginBlock, Goto, config, external
  <2>2. CASE ~(setting => NothingToReceive)
    BY <1>4, <1>9, <2>2 DEF BeginBlock, Goto, config, external
  <2> QED BY <2>1, <2>2
<1>10. CASE Request
  BY <1>1, <1>4, <1>10 DEF Request, Goto, config, external
<1>11. CASE RequestFails
  BY <1>1, <1>5, <1>11 DEF RequestFails, Goto, config, external
<1>12. CASE Requested
  BY <1>1, <1>4, <1>12 DEF Requested, Goto, config, external
<1>13. ASSUME NEW txout, AtInput, Unlist(txout), Goto("receive") PROVE Types'
  <2>1. wtx' = [blocks |-> wtx.blocks, txouts |-> wtx.txouts \ {Input},
                listed |-> wtx.listed \ {[script |-> ScriptOf(txout), output |-> Input]},
                complete |-> wtx.complete]
    BY <1>13, Written
  <2>2. IsTables(wtx', mined) /\ wtx'.blocks = wtx.blocks
    BY <1>1, <2>1 DEF IsTables
  <2> QED BY <1>1, <1>6, <1>13, <2>2 DEF AtInput, Unlist, Goto, config, external
<1>14. CASE SpendKnown
  BY <1>13, <1>14 DEF SpendKnown
<1>15. CASE SpendFetched
  BY <1>13, <1>15 DEF SpendFetched
<1>16. CASE ReceiveFails
  BY <1>1, <1>5, <1>16 DEF ReceiveFails, Goto, config, external
<1>17. CASE ListOutputs
  <2>1. wtx' = [blocks |-> wtx.blocks, txouts |-> wtx.txouts,
                listed |-> wtx.listed \cup {Listing(o) : o \in OutputsOf(Current.tx)},
                complete |-> wtx.complete]
    BY <1>17, Written
  <2>2. IsTables(wtx', mined) /\ wtx'.blocks = wtx.blocks
    BY <1>1, <2>1 DEF IsTables
  <2> QED BY <1>1, <1>6, <1>17, <2>2 DEF ListOutputs, Goto, config, external
<1>18. CASE EndBlock
  <2>1. wtx' = [blocks |-> wtx.blocks + 1, txouts |-> wtx.txouts, listed |-> wtx.listed,
                complete |-> (wtx.complete /\ setting)]
    BY <1>18, Written
  <2>2. pc = "receive" /\ wtx.blocks \in Nat /\ wtx.blocks + 1 <= mined
        /\ wtx.complete \in BOOLEAN
    BY <1>1, <1>2, <1>18 DEF EndBlock, Height, IsTables
  <2>3. IsTables(wtx', mined)
    BY <1>1, <1>2, <2>1, <2>2 DEF IsTables
  <2>4. UNCHANGED <<setting, mined, db>> /\ pc' \in {"commit", "block"}
    BY <1>18 DEF EndBlock, Goto, config, external
  <2> QED BY <1>1, <2>3, <2>4 DEF Types
<1>19. CASE Commit
  <2>1. db' = Flushed /\ wtx' = Flushed /\ pc' = "block" /\ UNCHANGED <<setting, mined>>
    BY <1>19 DEF Commit, Goto, config, external
  <2>2. IsTables(Flushed, mined)
    <3>1. Flushed = [blocks |-> wtx.blocks, txouts |-> wtx.txouts \cup cache,
                     listed |-> wtx.listed, complete |-> wtx.complete]
      BY Written
    <3> QED BY <1>1, <3>1 DEF IsTables
  <2> QED BY <1>1, <2>1, <2>2 DEF Types
<1>20. CASE Finish
  <2>1. CASE uncommitted > 0
    BY <1>4, <1>20, <2>1 DEF Finish, Goto, config, external, updater
  <2>2. CASE ~(uncommitted > 0)
    BY <1>1, <1>5, <1>20, <2>2 DEF Finish, Goto, config, external
  <2> QED BY <2>1, <2>2
<1>21. CASE FetchThread \/ FetchFails
  BY <1>3, <1>21, UpdaterStays
<1>22. CASE Mine
  <2>1. mined' = mined + 1 /\ mined < Len(Blocks)
        /\ UNCHANGED <<setting, db, wtx, pc, todo, cache>>
    BY <1>22, BlocksAreSeq DEF Mine, config, updater
  <2>2. IsTables(db, mined') /\ IsTables(wtx, mined')
    BY <1>1, <1>2, <2>1 DEF IsTables
  <2>3. pc \in {"request", "receive"} => Height <= mined'
    BY <1>1, <1>2, <2>1 DEF Height, IsTables
  <2> QED BY <1>1, <1>2, <2>1, <2>2, <2>3 DEF Types, Height
<1>23. CASE Restart
  BY <1>1, <1>5, <1>23 DEF Restart
<1> QED
  BY <1>7, <1>8, <1>9, <1>10, <1>11, <1>12, <1>14, <1>15, <1>16, <1>17, <1>18, <1>19, <1>20,
     <1>21, <1>22, <1>23 DEF Next, Update

\* In the phases that look at a block there is one.
LEMMA HeightFacts ==
  ASSUME Types
  PROVE  /\ db.blocks \in 0..Len(Blocks) /\ wtx.blocks \in 0..Len(Blocks)
         /\ Height \in Nat /\ Height - 1 = wtx.blocks
         /\ Height <= mined => Height \in DOMAIN Blocks
<1>1. /\ mined \in 0..Len(Blocks) /\ Len(Blocks) \in Nat /\ DOMAIN Blocks = 1..Len(Blocks)
      /\ db.blocks \in 0..mined /\ wtx.blocks \in 0..mined
  BY ChainFacts DEF Types, IsTables
<1>2. mined \in Nat /\ mined <= Len(Blocks) /\ wtx.blocks \in Nat /\ db.blocks \in Nat
  BY <1>1
<1> QED BY <1>1, <1>2 DEF Height

-----------------------------------------------------------------------------
(* What the tables list, and what of it is still in the cache. *)

Fit(t, c, L) ==
  /\ t.txouts \cup c = L
  /\ t.listed = {Listing(o) : o \in L}

\* The ids of a block's own transactions.
Own(n) == {t.txid : t \in Txs(n)}

Complete ==
  /\ db.complete => Fit(db, {}, Unspent(db.blocks))
  /\ wtx.complete /\ pc \in {"idle", "block", "request", "commit"} =>
       Fit(wtx, cache, Unspent(wtx.blocks))

\* Within a block the tables are as they have to be at a place in it, and what the
\* block has made and not yet spent is cached.
Midway ==
  pc = "receive" /\ setting =>
    \E a, b : /\ AtPlace(a, b)
              /\ wtx.complete => Fit(wtx, cache, Live(Height, a, b))
              /\ \A o \in Live(Height, a, b) : o.txid \in Own(Height) => o \in cache

TableInv == Types /\ Complete /\ Midway

\* An output is unlisted, if it was listed.
LEMMA FitWithout ==
  ASSUME NEW t, NEW c, NEW L, NEW o, Fit(t, c, L), NEW r, r.output = o, o \in L => r = Listing(o),
         NEW u, u.txouts = t.txouts \ {o}, u.listed = t.listed \ {r}
  PROVE  Fit(u, c \ {o}, L \ {o})
<1>1. \A p : Listing(p).output = p
  BY DEF Listing
<1>2. ASSUME NEW x
      PROVE  x \in {Listing(p) : p \in L} \ {r} <=> x \in {Listing(p) : p \in L \ {o}}
  <2>1. ASSUME NEW p \in L, x = Listing(p) PROVE x = r <=> p = o
    BY <1>1, <2>1
  <2> QED BY <2>1
<1> DEFINE S == {Listing(p) : p \in L}
           T == {Listing(p) : p \in L \ {o}}
<1>3. t.listed = S /\ t.txouts \cup c = L
  BY DEF Fit
<1>4. (\A x : x \in S \ {r} <=> x \in T) /\ (Fit(u, c \ {o}, L \ {o}) <=>
        u.txouts \cup (c \ {o}) = L \ {o} /\ u.listed = T)
  BY <1>2 DEF Fit
<1> HIDE DEF S, T
<1> QED BY <1>3, <1>4

\* Outputs are listed.
LEMMA FitWith ==
  ASSUME NEW t, NEW c, NEW L, NEW O, Fit(t, c, L), NEW u,
         u.txouts = t.txouts, u.listed = t.listed \cup {Listing(o) : o \in O}
  PROVE  Fit(u, c \cup O, L \cup O)
<1> DEFINE S == {Listing(p) : p \in L}
           N == {Listing(p) : p \in O}
           T == {Listing(p) : p \in L \cup O}
<1>1. ASSUME NEW x PROVE x \in S \cup N <=> x \in T
  OBVIOUS
<1>2. t.listed = S /\ t.txouts \cup c = L /\ u.listed = t.listed \cup N
      /\ (Fit(u, c \cup O, L \cup O) <=> u.txouts \cup (c \cup O) = L \cup O /\ u.listed = T)
  BY DEF Fit
<1> HIDE DEF S, N, T
<1> QED BY <1>1, <1>2

\* A block begins without outputs of its own.
LEMMA NoneOfItsOwn ==
  ASSUME NEW n \in DOMAIN Blocks, NEW o \in Live(n, 1, 1)
  PROVE  o.txid \notin Own(n)
<1> SUFFICES ASSUME o.txid \in Own(n) PROVE FALSE
  OBVIOUS
<1>1. n \in Nat /\ \A m \in 1..n : m \in DOMAIN Blocks
  BY ChainFacts
<1>2. PICK m \in 1..n : \E j \in DOMAIN Blocks[m] :
        (m < n \/ j < 1) /\ o \in OutputsOf(Blocks[m][j])
  BY DEF Live, Created
<1>3. PICK j \in DOMAIN Blocks[m] : (m < n \/ j < 1) /\ o \in OutputsOf(Blocks[m][j])
  BY <1>2
<1>4. m \in DOMAIN Blocks /\ j \in Nat /\ ~(j < 1)
  BY <1>1, ChainFacts
<1>5. PICK i \in DOMAIN Blocks[n] : o.txid = Blocks[n][i].txid
  BY DEF Own, Txs, Range
<1>6. m = n
  BY <1>4, <1>5, <1>3, MadeOnce
<1> QED BY <1>1, <1>4, <1>6, <1>3

\* No block is indexed and no output listed at the start.
LEMMA InitTables == Init => TableInv
<1> SUFFICES ASSUME Init PROVE TableInv
  OBVIOUS
<1>1. db = [blocks |-> 0, txouts |-> {}, listed |-> {}, complete |-> TRUE]
      /\ wtx = db /\ cache = {} /\ pc = "idle"
  BY DEF Init, NoTables
<1>2. Unspent(0) = {}
  <2>1. Indexed(0) = {}
    BY DEF Indexed
  <2> QED BY <2>1 DEF Unspent
<1>3. Fit(db, {}, Unspent(db.blocks)) /\ Fit(wtx, cache, Unspent(wtx.blocks))
  BY <1>1, <1>2 DEF Fit
<1> QED BY <1>1, <1>3, InitTypes DEF TableInv, Complete, Midway

\* The input that is next is known, or missing: the outputs of its own block are
\* cached.
LEMMA NextInput ==
  ASSUME TableInv, AtInput
  PROVE  /\ setting /\ Height \in DOMAIN Blocks
         /\ ~Known => Missing(Input)
<1>1. pc = "receive" /\ todo # << >> /\ Current.inputs # << >>
  BY DEF AtInput
<1>2. setting /\ Height \in DOMAIN Blocks
  BY <1>1, HeightFacts DEF TableInv, Types
<1>3. PICK a, b : /\ AtPlace(a, b)
                  /\ \A o \in Live(Height, a, b) : o.txid \in Own(Height) => o \in cache
  BY <1>1, <1>2 DEF TableInv, Midway
<1>4. a \in DOMAIN Blocks[Height] /\ b \in DOMAIN Inputs(Height, a) /\ Input = Inputs(Height, a)[b]
  BY <1>1, <1>2, <1>3, Places
<1>5. Input.txid \in Own(Height) => Input \in Live(Height, a, b)
  <2>1. \A i \in DOMAIN Blocks[Height] :
          Input.txid = Blocks[Height][i].txid => Input \in Live(Height, a, b)
    BY <1>2, <1>4, LiveInput
  <2> QED BY <2>1 DEF Own, Txs, Range
<1>6. ~Known => Missing(Input)
  BY <1>3, <1>5 DEF Known, Missing, Own
<1> QED BY <1>2, <1>6

\* An input is done: it was known, or it was not listed.
LEMMA SpendKeepsTables ==
  ASSUME TableInv, AtInput, NEW txout, Known => txout = Input, Unlist(txout),
         pc' = "receive", UNCHANGED setting
  PROVE  Complete' /\ Midway'
<1>1. pc = "receive" /\ todo # << >> /\ Current.inputs # << >>
  BY DEF AtInput
<1>2. setting /\ Height \in DOMAIN Blocks
  BY NextInput
<1>3. PICK a, b : /\ AtPlace(a, b)
                  /\ wtx.complete => Fit(wtx, cache, Live(Height, a, b))
                  /\ \A o \in Live(Height, a, b) : o.txid \in Own(Height) => o \in cache
  BY <1>1, <1>2 DEF TableInv, Midway
<1>4. /\ a \in DOMAIN Blocks[Height] /\ b \in DOMAIN Inputs(Height, a)
      /\ Input = Inputs(Height, a)[b]
      /\ IsPlace(Height, a, b + 1) /\ AfterInput = Rest(Height, a, b + 1)
  BY <1>1, <1>2, <1>3, Places
<1>5. Live(Height, a, b + 1) = Live(Height, a, b) \ {Input}
  BY <1>2, <1>4, LiveInput
<1>6. /\ wtx' = [blocks |-> wtx.blocks, txouts |-> wtx.txouts \ {Input},
                 listed |-> wtx.listed \ {[script |-> ScriptOf(txout), output |-> Input]},
                 complete |-> wtx.complete]
      /\ cache' = cache \ {Input} /\ todo' = AfterInput /\ db' = db
  <2>1. wtx' = [blocks |-> wtx.blocks, txouts |-> wtx.txouts \ {Input},
                listed |-> wtx.listed \ {[script |-> ScriptOf(txout), output |-> Input]},
                complete |-> wtx.complete]
    BY Written DEF TableInv
  <2> QED BY <2>1 DEF Unlist
<1>7. Height' = Height
  BY <1>6 DEF Height
<1>8. AtPlace(a, b + 1)'
  BY <1>4, <1>6, <1>7 DEF AtPlace
<1>9. ASSUME wtx'.complete PROVE Fit(wtx', cache', Live(Height, a, b + 1))
  <2> DEFINE gone == [script |-> ScriptOf(txout), output |-> Input]
  <2>1. wtx.complete /\ wtx'.txouts = wtx.txouts \ {Input} /\ wtx'.listed = wtx.listed \ {gone}
    BY <1>6, <1>9
  <2>2. Fit(wtx, cache, Live(Height, a, b))
    BY <1>3, <2>1
  <2>3. Input \in Live(Height, a, b) => gone = Listing(Input)
    BY <2>2 DEF Fit, Known, Listing
  <2>4. gone.output = Input
    OBVIOUS
  <2> HIDE DEF gone
  <2>5. Fit(wtx', cache \ {Input}, Live(Height, a, b) \ {Input})
    BY <2>1, <2>2, <2>3, <2>4, FitWithout
  <2> QED BY <1>5, <1>6, <2>5
<1>10. \A o \in Live(Height, a, b + 1) : o.txid \in Own(Height) => o \in cache'
  BY <1>3, <1>5, <1>6
<1>11. Midway'
  BY <1>7, <1>8, <1>9, <1>10 DEF Midway
<1> QED BY <1>1, <1>6, <1>11 DEF TableInv, Complete

\* Outputs are listed.
LEMMA ListKeepsTables ==
  ASSUME TableInv, ListOutputs
  PROVE  Complete' /\ Midway'
<1> DEFINE O == OutputsOf(Current.tx)
<1>1. pc = "receive" /\ todo # << >> /\ Current.inputs = << >>
  BY DEF ListOutputs
<1>2. setting /\ Height \in DOMAIN Blocks
  BY <1>1, HeightFacts DEF TableInv, Types
<1>3. PICK a, b : /\ AtPlace(a, b)
                  /\ wtx.complete => Fit(wtx, cache, Live(Height, a, b))
                  /\ \A o \in Live(Height, a, b) : o.txid \in Own(Height) => o \in cache
  BY <1>1, <1>2 DEF TableInv, Midway
<1>4. /\ a \in DOMAIN Blocks[Height] /\ Current.tx = Blocks[Height][a]
      /\ b = Len(Inputs(Height, a)) + 1
      /\ IsPlace(Height, a + 1, 1) /\ Tail(todo) = Rest(Height, a + 1, 1)
  BY <1>1, <1>2, <1>3, Places
<1>5. Live(Height, a + 1, 1) = Live(Height, a, b) \cup O
  BY <1>2, <1>4, LiveOutputs
<1>6. /\ wtx' = [blocks |-> wtx.blocks, txouts |-> wtx.txouts,
                 listed |-> wtx.listed \cup {Listing(o) : o \in O},
                 complete |-> wtx.complete]
      /\ cache' = cache \cup O /\ todo' = Tail(todo) /\ db' = db
      /\ pc' = "receive" /\ setting' = setting
  <2>1. wtx' = [blocks |-> wtx.blocks, txouts |-> wtx.txouts,
                listed |-> wtx.listed \cup {Listing(o) : o \in O},
                complete |-> wtx.complete]
    BY Written DEF TableInv
  <2> QED BY <2>1 DEF ListOutputs, Goto, config, external
<1> HIDE DEF O
<1>7. Height' = Height
  BY <1>6 DEF Height
<1>8. AtPlace(a + 1, 1)'
  BY <1>4, <1>6, <1>7 DEF AtPlace
<1>9. ASSUME wtx'.complete PROVE Fit(wtx', cache', Live(Height, a + 1, 1))
  <2>1. wtx.complete /\ wtx'.txouts = wtx.txouts
        /\ wtx'.listed = wtx.listed \cup {Listing(o) : o \in O}
    BY <1>6, <1>9
  <2>2. Fit(wtx', cache \cup O, Live(Height, a, b) \cup O)
    BY <1>3, <2>1, FitWith
  <2> QED BY <1>5, <1>6, <2>2
<1>10. \A o \in Live(Height, a + 1, 1) : o.txid \in Own(Height) => o \in cache'
  BY <1>3, <1>5, <1>6
<1>11. Midway'
  BY <1>7, <1>8, <1>9, <1>10 DEF Midway
<1> QED BY <1>6, <1>11 DEF TableInv, Complete

\* Each action keeps the tables as they have to be at its place.
LEMMA TablesStep ==
  ASSUME TableInv, [Next]_vars
  PROVE  TableInv'
<1> SUFFICES Complete' /\ Midway'
  BY TypesStep DEF TableInv
<1>1. Types /\ Complete /\ Midway
  BY DEF TableInv
<1>2. ASSUME UNCHANGED <<setting, db, wtx, pc, todo, cache>> PROVE Complete' /\ Midway'
  BY <1>1, <1>2 DEF Complete, Midway, AtPlace, Height
<1>3. ASSUME UNCHANGED <<db, wtx, cache>>, pc \in {"idle", "block", "request"},
             pc' \in {"block", "request", "commit", "panicked"}
      PROVE  Complete' /\ Midway'
  BY <1>1, <1>3 DEF Complete, Midway
<1>4. ASSUME Drop, pc' = "idle" PROVE Complete' /\ Midway'
  BY <1>1, <1>4, Dropped DEF Complete, Midway
<1>5. CASE UNCHANGED vars
  BY <1>2, <1>5 DEF vars, config, updater
<1>6. CASE BeginUpdate
  BY <1>3, <1>6 DEF BeginUpdate, Goto, updater
<1>7. CASE BeginBlock
  BY <1>3, <1>7 DEF BeginBlock, Goto
<1>8. CASE Request
  BY <1>3, <1>8 DEF Request, Goto
<1>9. CASE RequestFails
  BY <1>4, <1>9 DEF RequestFails, Goto
<1>10. CASE Requested
  <2>1. pc = "request" /\ pc' = "receive" /\ UNCHANGED <<setting, db, wtx, cache>>
        /\ (setting => todo' = Todo)
    BY <1>10 DEF Requested, Goto, config
  <2>2. ASSUME setting
        PROVE  /\ AtPlace(1, 1)'
               /\ wtx.complete => Fit(wtx, cache, Live(Height, 1, 1))
               /\ \A o \in Live(Height, 1, 1) : o.txid \in Own(Height) => o \in cache
    <3>1. Height \in DOMAIN Blocks /\ Height - 1 = wtx.blocks
      BY <1>1, <2>1, HeightFacts DEF Types
    <3>2. IsPlace(Height, 1, 1) /\ Todo = Rest(Height, 1, 1)
      BY <3>1, FirstPlace, RestFirst DEF Todo
    <3>3. Live(Height, 1, 1) = Unspent(wtx.blocks)
      BY <3>1, LiveAtFirst
    <3>4. Height' = Height
      BY <2>1 DEF Height
    <3> QED BY <1>1, <2>1, <2>2, <3>1, <3>2, <3>3, <3>4, NoneOfItsOwn DEF AtPlace, Complete
  <2>3. Height' = Height
    BY <2>1 DEF Height
  <2>4. Midway'
    BY <2>1, <2>2, <2>3 DEF Midway
  <2> QED BY <1>1, <2>1, <2>4 DEF Complete
<1>11. CASE SpendKnown
  BY <1>11, SpendKeepsTables DEF SpendKnown, Goto, config
<1>12. CASE SpendFetched
  <2>1. AtInput /\ ~Known /\ Unlist(Head(answers)) /\ pc' = "receive" /\ UNCHANGED setting
    BY <1>12 DEF SpendFetched, Goto, config
  <2> QED BY <2>1, SpendKeepsTables
<1>13. CASE ReceiveFails
  BY <1>4, <1>13 DEF ReceiveFails, Goto
<1>14. CASE ListOutputs
  BY <1>14, ListKeepsTables
<1>15. CASE EndBlock
  <2>1. /\ wtx' = [blocks |-> wtx.blocks + 1, txouts |-> wtx.txouts, listed |-> wtx.listed,
                   complete |-> (wtx.complete /\ setting)]
        /\ pc = "receive" /\ todo = << >> /\ pc' \in {"commit", "block"}
        /\ UNCHANGED <<db, cache>>
    BY <1>1, <1>15, Written DEF EndBlock, Goto
  <2>2. ASSUME wtx'.complete PROVE Fit(wtx', cache', Unspent(wtx'.blocks))
    <3>1. wtx.complete /\ setting /\ Height \in DOMAIN Blocks /\ wtx'.blocks = Height
      BY <1>1, <2>1, <2>2, HeightFacts DEF Types, Height
    <3>2. PICK a, b : AtPlace(a, b) /\ Fit(wtx, cache, Live(Height, a, b))
      BY <1>1, <2>1, <3>1 DEF Midway
    <3>3. a = Len(Blocks[Height]) + 1 /\ b = 1
      BY <2>1, <3>1, <3>2, Places
    <3>4. Live(Height, a, b) = Unspent(Height)
      BY <3>1, <3>3, LiveAtLast
    <3> QED BY <2>1, <3>1, <3>2, <3>4 DEF Fit
  <2> QED BY <1>1, <2>1, <2>2 DEF Complete, Midway
<1>16. CASE Commit
  <2>1. /\ pc = "commit" /\ pc' = "block" /\ db' = Flushed /\ wtx' = Flushed /\ cache' = {}
        /\ Flushed = [blocks |-> wtx.blocks, txouts |-> wtx.txouts \cup cache,
                      listed |-> wtx.listed, complete |-> wtx.complete]
    BY <1>1, <1>16, Written DEF Commit, Goto
  <2>2. Flushed.complete => Fit(Flushed, {}, Unspent(Flushed.blocks))
    BY <1>1, <2>1 DEF Complete, Fit
  <2> QED BY <2>1, <2>2 DEF Complete, Midway
<1>17. CASE Finish
  <2>1. CASE uncommitted > 0
    BY <1>3, <1>17, <2>1 DEF Finish, Goto, updater
  <2>2. CASE ~(uncommitted > 0)
    BY <1>4, <1>17, <2>2 DEF Finish, Goto
  <2> QED BY <2>1, <2>2
<1>18. CASE FetchThread \/ FetchFails
  BY <1>2, <1>18, UpdaterStays
<1>19. CASE Mine
  BY <1>2, <1>19 DEF Mine, config, updater
<1>20. CASE Restart
  BY <1>4, <1>20 DEF Restart
<1> QED
  BY <1>5, <1>6, <1>7, <1>8, <1>9, <1>10, <1>11, <1>12, <1>13, <1>14, <1>15, <1>16, <1>17,
     <1>18, <1>19, <1>20 DEF Next, Update

(***************************************************************************)
(* AddressesAreUnspent, for every chain and first rune height: what is     *)
(* committed lists the outputs made at or above that height and unspent,   *)
(* under their scripts and no other.  Inputs that spend older outputs are  *)
(* fetched and unlist nothing.                                             *)
(***************************************************************************)
THEOREM ListedAreUnspent == Spec => []AddressesAreUnspent
<1>1. TableInv => AddressesAreUnspent
  BY DEF TableInv, Complete, Fit, AddressesAreUnspent
<1> QED BY <1>1, InitTables, TablesStep, PTL DEF Spec

-----------------------------------------------------------------------------
(* A batch and its parts. *)

\* Quotient and remainder.
LEMMA DivMod ==
  ASSUME NEW h \in Nat, NEW d \in Nat \ {0}
  PROVE  /\ h % d \in 0..(d - 1) /\ h \div d \in Nat
         /\ h = d * (h \div d) + (h % d)
OBVIOUS

\* Multiples of the size of a part.
LEMMA Times ==
  /\ \A a, d \in Int : (a - 1) * d = a * d - d /\ a * d = d * a /\ 0 * d = 0 /\ a * d \in Int
  /\ \A a, b, d \in Nat : a <= b => a * d <= b * d
OBVIOUS

\* The least of two numbers.
LEMMA MinOfTwo == \A a, b \in Int : Min({a, b}) = IF a <= b THEN a ELSE b
<1> SUFFICES ASSUME NEW a \in Int, NEW b \in Int PROVE Min({a, b}) = IF a <= b THEN a ELSE b
  OBVIOUS
<1> DEFINE m == CHOOSE x \in {a, b} : \A y \in {a, b} : x =< y
<1>1. \E x \in {a, b} : \A y \in {a, b} : x =< y
  OBVIOUS
<1>2. m \in {a, b} /\ \A y \in {a, b} : m =< y
  <2> HIDE <1>1
  <2> QED BY <1>1
<1>3. Min({a, b}) = m
  BY DEF Min
<1> HIDE DEF m
<1> QED BY <1>2, <1>3

SizeOf(batch) == (Len(batch) \div ParallelRequests) + 1
CountOf(batch) == (Len(batch) + SizeOf(batch) - 1) \div SizeOf(batch)
\* Where a part ends.
EndOf(batch, c) == Min({c * SizeOf(batch), Len(batch)})

\* The parts follow each other, from the first of the batch to the last.
LEMMA ChunkFacts ==
  ASSUME NEW batch \in Seq(AllOutputs), batch # << >>
  PROVE  /\ CountOf(batch) \in Nat /\ CountOf(batch) >= 1 /\ SizeOf(batch) \in Nat \ {0}
         /\ Chunks(batch) = [c \in 1..CountOf(batch) |->
                               SubSeq(batch, (c - 1) * SizeOf(batch) + 1, EndOf(batch, c))]
         /\ EndOf(batch, CountOf(batch)) = Len(batch)
         /\ \A c \in 1..CountOf(batch) :
              /\ (c - 1) * SizeOf(batch) \in 0..Len(batch)
              /\ EndOf(batch, c) \in ((c - 1) * SizeOf(batch))..Len(batch)
              /\ c # CountOf(batch) => EndOf(batch, c) = c * SizeOf(batch)
<1> DEFINE l == Len(batch)
           z == SizeOf(batch)
           n == CountOf(batch)
<1>1. l \in Nat /\ l >= 1
  BY LenProperties, EmptySeq
<1>2. z \in Nat \ {0}
  <2>1. ParallelRequests \in Nat \ {0}
    BY AddressAssumption
  <2> HIDE DEF l
  <2>2. l \div ParallelRequests \in Nat
    BY <1>1, <2>1, DivMod
  <2>3. z = (l \div ParallelRequests) + 1
    BY DEF SizeOf, l
  <2> QED BY <2>2, <2>3
<1>3. n = (l + z - 1) \div z
  BY DEF CountOf
<1>4. Chunks(batch) = [c \in 1..n |-> SubSeq(batch, (c - 1) * z + 1, EndOf(batch, c))]
  BY DEF Chunks, CountOf, EndOf, SizeOf
<1>5. \A c : EndOf(batch, c) = Min({c * z, l})
  BY DEF EndOf
<1> HIDE DEF l, z, n
<1>6. n \in Nat /\ n * z <= l + z - 1 /\ l <= n * z
  <2> DEFINE w == l + z - 1
  <2>1. w \in Nat
    BY <1>1, <1>2
  <2>2. w % z \in 0..(z - 1) /\ w \div z \in Nat /\ w = z * (w \div z) + (w % z)
    <3> HIDE DEF w
    <3> QED BY <1>2, <2>1, DivMod
  <2>3. n = w \div z /\ n \in Int /\ z \in Int
    BY <1>2, <1>3, <2>2
  <2>4. n * z = z * n /\ n * z \in Int /\ w = z * n + (w % z)
    BY <2>2, <2>3, Times
  <2> QED BY <1>1, <1>2, <2>2, <2>3, <2>4
<1>7. n >= 1 /\ (n - 1) * z <= l - 1 /\ n - 1 \in Nat
  <2>1. n # 0
    BY <1>1, <1>2, <1>6, Times
  <2>2. (n - 1) * z = n * z - z /\ n * z \in Int
    BY <1>2, <1>6, Times
  <2> QED BY <1>1, <1>2, <1>6, <2>1, <2>2
<1>8. ASSUME NEW c \in 1..n
      PROVE  /\ c * z \in Int /\ (c - 1) * z \in 0..l /\ (c - 1) * z <= c * z
             /\ c # n => c * z <= l
  <2>1. c \in Nat /\ c - 1 \in Nat /\ c - 1 <= n - 1 /\ (c # n => c <= n - 1)
    BY <1>6
  <2>2. (c - 1) * z <= (n - 1) * z /\ (c # n => c * z <= (n - 1) * z)
    BY <1>2, <1>7, <2>1, Times
  <2>3. 0 * z <= (c - 1) * z /\ 0 * z = 0
    BY <1>2, <2>1, Times
  <2>4. (c - 1) * z = c * z - z /\ c * z \in Int /\ (c - 1) * z \in Int /\ (n - 1) * z \in Int
    BY <1>2, <1>7, <2>1, Times
  <2> QED BY <1>1, <1>2, <1>7, <2>2, <2>3, <2>4
<1>9. ASSUME NEW c \in 1..n
      PROVE  EndOf(batch, c) = IF c * z <= l THEN c * z ELSE l
  <2>1. c * z \in Int /\ l \in Int
    BY <1>1, <1>8
  <2>2. EndOf(batch, c) = Min({c * z, l})
    BY <1>5
  <2>3. \A x \in Int : Min({x, l}) = IF x <= l THEN x ELSE l
    BY <2>1, MinOfTwo
  <2> DEFINE x == c * z
  <2>4. x \in Int /\ EndOf(batch, c) = Min({x, l})
    BY <2>1, <2>2
  <2>5. EndOf(batch, c) = IF x <= l THEN x ELSE l
    <3> HIDE DEF x
    <3> QED BY <2>3, <2>4
  <2> QED BY <2>5
<1>10. ASSUME NEW c \in 1..n
       PROVE  /\ (c - 1) * z \in 0..l
              /\ EndOf(batch, c) \in ((c - 1) * z)..l
              /\ c # n => EndOf(batch, c) = c * z
  BY <1>1, <1>8, <1>9
<1>11. EndOf(batch, n) = l
  <2>1. n \in 1..n /\ n * z \in Int
    BY <1>6, <1>7, <1>8
  <2> QED BY <1>1, <1>6, <1>9, <2>1
<1> QED BY <1>2, <1>4, <1>6, <1>7, <1>10, <1>11 DEF l, z, n

Ids == {o.txid : o \in AllOutputs}

\* The ids of a part are a part of the ids.
LEMMA TxidsFacts ==
  ASSUME NEW s \in Seq(AllOutputs)
  PROVE  /\ Txids(s) \in Seq(Ids) /\ Len(Txids(s)) = Len(s)
         /\ \A m \in 1..(Len(s) + 1) : \A n \in (m - 1)..Len(s) :
              Txids(SubSeq(s, m, n)) = SubSeq(Txids(s), m, n)
<1> DEFINE t == Txids(s)
<1>1. Len(s) \in Nat /\ DOMAIN s = 1..Len(s) /\ \A i \in 1..Len(s) : s[i] \in AllOutputs
  BY LenProperties, ElementOfSeq
<1>2. t \in [1..Len(s) -> Ids] /\ \A i \in 1..Len(s) : t[i] = s[i].txid
  BY <1>1 DEF Txids, Ids
<1> HIDE DEF t
<1>3. t \in Seq(Ids)
  <2>1. t \in UNION {[1..k -> Ids] : k \in Nat}
    BY <1>1, <1>2
  <2> QED BY <2>1, SeqDef, Zenon
<1>4. Len(t) = Len(s)
  BY <1>1, <1>2, <1>3, LenProperties
<1>5. ASSUME NEW m \in 1..(Len(s) + 1), NEW n \in (m - 1)..Len(s)
      PROVE  Txids(SubSeq(s, m, n)) = SubSeq(t, m, n)
  <2> DEFINE p == SubSeq(s, m, n)
             q == SubSeq(t, m, n)
             k == n - m + 1
  <2>1. m \in Int /\ n \in Int /\ m..n \subseteq 1..Len(s) /\ k \in Nat
        /\ (m <= n => k = n - m + 1) /\ (~(m <= n) => k = 0)
    BY <1>1
  <2>2. p \in Seq(AllOutputs) /\ Len(p) = k /\ \A i \in 1..k : p[i] = s[m + i - 1]
    BY <1>1, <2>1, SubSeqProperties
  <2>3. q \in Seq(Ids) /\ Len(q) = k /\ \A i \in 1..k : q[i] = t[m + i - 1]
    BY <1>1, <1>2, <1>3, <1>4, <2>1, SubSeqProperties
  <2>4. \A i \in 1..k : m + i - 1 \in 1..Len(s)
    BY <1>1, <2>1
  <2> HIDE DEF p, q, k
  <2>5. DOMAIN p = 1..k /\ DOMAIN q = 1..k
    BY <2>2, <2>3, LenProperties
  <2>6. \A i \in 1..k : p[i].txid = q[i]
    BY <1>2, <2>2, <2>3, <2>4
  <2>7. q = [i \in 1..k |-> q[i]]
    <3>1. q \in [1..k -> Ids]
      BY <2>3, LenProperties
    <3> QED BY <3>1
  <2>8. Txids(p) = q
    BY <2>5, <2>6, <2>7 DEF Txids
  <2> QED BY <2>8 DEF p, q
<1> QED BY <1>3, <1>4, <1>5 DEF t

\* All answers, put together, are the ids of the batch, one by one.
LEMMA AllReplies ==
  ASSUME NEW batch \in Seq(AllOutputs), batch # << >>, NEW replies,
         replies = [c \in DOMAIN Chunks(batch) |-> Txids(Chunks(batch)[c])]
  PROVE  FlattenSeq(replies) = Txids(batch)
<1> DEFINE l == Len(batch)
           z == SizeOf(batch)
           n == CountOf(batch)
           ids == Txids(batch)
           E(c) == EndOf(batch, c)
           f == [c \in 1..n |-> SubSeq(ids, 1, E(c))]
<1>1. /\ n \in Nat /\ n >= 1 /\ E(n) = l
      /\ Chunks(batch) = [c \in 1..n |-> SubSeq(batch, (c - 1) * z + 1, E(c))]
  BY ChunkFacts
<1>2. \A c \in 1..n : /\ (c - 1) * z \in 0..l /\ E(c) \in ((c - 1) * z)..l
                      /\ c # n => E(c) = c * z
  BY ChunkFacts
<1>3. l \in Nat /\ ids \in Seq(Ids) /\ Len(ids) = l
  BY LenProperties, TxidsFacts
<1>4. z \in Int
  BY ChunkFacts
<1>5. \A c \in 1..n : replies[c] = SubSeq(ids, (c - 1) * z + 1, E(c))
  <2> SUFFICES ASSUME NEW c \in 1..n
               PROVE  replies[c] = SubSeq(ids, (c - 1) * z + 1, E(c))
    OBVIOUS
  <2> DEFINE k == (c - 1) * z
  <2>1. replies[c] = Txids(SubSeq(batch, k + 1, E(c)))
    BY <1>1
  <2>2. k \in 0..l /\ E(c) \in k..l
    BY <1>2
  <2> HIDE DEF k, E
  <2>3. k + 1 \in 1..(l + 1) /\ E(c) \in ((k + 1) - 1)..l
    BY <1>3, <2>2
  <2>4. Txids(SubSeq(batch, k + 1, E(c))) = SubSeq(ids, k + 1, E(c))
    BY <2>3, TxidsFacts
  <2> QED BY <2>1, <2>4 DEF k
<1>6. DOMAIN replies = 1..n /\ Len(replies) = n
  <2> DEFINE S == {replies[c] : c \in 1..n}
  <2>1. replies \in [1..n -> S]
    BY <1>1
  <2>2. replies \in Seq(S)
    <3> HIDE DEF S, n
    <3>1. replies \in UNION {[1..k -> S] : k \in Nat}
      BY <1>1, <2>1
    <3> QED BY <3>1, SeqDef, Zenon
  <2> HIDE DEF S, n
  <2> QED BY <1>1, <2>1, <2>2, LenProperties
<1>7. f = [c \in 1..Len(replies) |-> IF c = 1 THEN replies[c] ELSE f[c - 1] \o replies[c]]
  <2>1. ASSUME NEW c \in 1..n, c = 1 PROVE f[c] = replies[c]
    <3>1. (c - 1) * z + 1 = 1
      BY <1>4, <2>1, Times
    <3> QED BY <1>5, <2>1, <3>1
  <2>2. ASSUME NEW c \in 1..n, c # 1 PROVE f[c] = f[c - 1] \o replies[c]
    <3> DEFINE k == (c - 1) * z
    <3>1. c - 1 \in 1..n /\ c - 1 # n
      BY <1>1, <2>2
    <3>2. E(c - 1) = k
      BY <1>2, <3>1
    <3>3. k \in 0..l /\ E(c) \in k..l
      BY <1>2
    <3>4. f[c - 1] = SubSeq(ids, 1, k) /\ f[c] = SubSeq(ids, 1, E(c))
          /\ replies[c] = SubSeq(ids, k + 1, E(c))
      BY <1>5, <3>1, <3>2
    <3> HIDE DEF k, E, f, ids
    <3>5. 1 \in 1..(Len(ids) + 1) /\ k \in (1 - 1)..Len(ids) /\ E(c) \in k..Len(ids)
      BY <1>3, <3>3
    <3> QED BY <1>3, <3>4, <3>5, ConcatAdjacentSubSeq
  <2>3. f = [c \in 1..n |-> f[c]]
    OBVIOUS
  <2> HIDE DEF f
  <2> QED BY <1>6, <2>1, <2>2, <2>3
<1>8. FlattenSeq(replies) = f[n]
  <2> HIDE DEF f
  <2>1. Len(replies) \in Nat /\ Len(replies) # 0
    BY <1>1, <1>6
  <2> QED BY <1>6, <1>7, <2>1, FlattenIs
<1>9. f[n] = SubSeq(ids, 1, l)
  <2>1. n \in 1..n
    BY <1>1
  <2> QED BY <1>1, <2>1
<1> HIDE DEF f, ids, l
<1>10. SubSeq(ids, 1, l) = ids
  BY <1>3, SubSeqFull
<1> QED BY <1>8, <1>9, <1>10 DEF ids

\* A single answer is what it is.
LEMMA OneReply ==
  ASSUME NEW s
  PROVE  FlattenSeq(<<s>>) = s
<1> DEFINE f == [i \in 1..1 |-> s]
<1>1. Len(<<s>>) = 1 /\ <<s>>[1] = s
  OBVIOUS
<1>2. f = [i \in 1..Len(<<s>>) |-> IF i = 1 THEN <<s>>[i] ELSE f[i - 1] \o <<s>>[i]]
  BY <1>1
<1>3. f[1] = s
  OBVIOUS
<1> HIDE DEF f
<1>4. Len(<<s>>) \in Nat /\ Len(<<s>>) # 0
  BY <1>1
<1>5. FlattenSeq(<<s>>) = f[Len(<<s>>)]
  BY <1>2, <1>4, FlattenIs
<1> QED BY <1>1, <1>3, <1>5

-----------------------------------------------------------------------------
(* What is spent in a block before a place and from it on. *)

SpentBefore(n, a, b) ==
  {o \in AllOutputs : \E i \in DOMAIN Blocks[n] : \E k \in DOMAIN Inputs(n, i) :
     (i < a \/ (i = a /\ k < b)) /\ o = Inputs(n, i)[k]}
SpentFrom(n, a, b) ==
  {o \in AllOutputs : \E i \in DOMAIN Blocks[n] : \E k \in DOMAIN Inputs(n, i) :
     (i > a \/ (i = a /\ k >= b)) /\ o = Inputs(n, i)[k]}

\* One output is spent before another.
Before(n, o, p) ==
  \E i, j \in DOMAIN Blocks[n] : \E k \in DOMAIN Inputs(n, i), l \in DOMAIN Inputs(n, j) :
    /\ i < j \/ (i = j /\ k < l)
    /\ o = Inputs(n, i)[k] /\ p = Inputs(n, j)[l]

\* At the beginning and at the end of a block.
LEMMA SpentAtEnds ==
  ASSUME NEW n \in DOMAIN Blocks
  PROVE  /\ SpentBefore(n, 1, 1) = {}
         /\ SpentFrom(n, Len(Blocks[n]) + 1, 1) = {}
         /\ SpentBefore(n, Len(Blocks[n]) + 1, 1) = SpentFrom(n, 1, 1)
<1> DEFINE e == Len(Blocks[n]) + 1
<1>1. ASSUME NEW i \in DOMAIN Blocks[n], NEW k \in DOMAIN Inputs(n, i)
      PROVE  /\ ~(i < 1 \/ (i = 1 /\ k < 1))
             /\ ~(i > e \/ (i = e /\ k >= 1))
             /\ i < e \/ (i = e /\ k < 1)
             /\ i > 1 \/ (i = 1 /\ k >= 1)
  <2>1. i \in Nat /\ i >= 1 /\ i <= Len(Blocks[n]) /\ Len(Blocks[n]) \in Nat /\ k \in Nat /\ k >= 1
    BY ChainFacts
  <2> QED BY <2>1
<1> HIDE DEF e
<1>2. SpentBefore(n, 1, 1) = {} /\ SpentFrom(n, e, 1) = {}
  BY <1>1 DEF SpentBefore, SpentFrom
<1>3. \A o : o \in SpentBefore(n, e, 1) <=> o \in SpentFrom(n, 1, 1)
  BY <1>1 DEF SpentBefore, SpentFrom
<1> QED BY <1>2, <1>3 DEF e

\* An input is done.
LEMMA SpentByInput ==
  ASSUME NEW n \in DOMAIN Blocks, NEW a \in DOMAIN Blocks[n], NEW b \in DOMAIN Inputs(n, a)
  PROVE  /\ Inputs(n, a)[b] \in AllOutputs
         /\ SpentBefore(n, a, b + 1) = SpentBefore(n, a, b) \cup {Inputs(n, a)[b]}
         /\ SpentFrom(n, a, b) = SpentFrom(n, a, b + 1) \cup {Inputs(n, a)[b]}
         /\ Inputs(n, a)[b] \notin SpentFrom(n, a, b + 1)
         /\ \A o \in SpentBefore(n, a, b) : Before(n, o, Inputs(n, a)[b])
         /\ \A o \in SpentFrom(n, a, b) : ~Before(n, o, Inputs(n, a)[b])
<1> DEFINE x == Inputs(n, a)[b]
<1>1. x \in AllOutputs /\ a \in Nat /\ b \in Nat
  BY ChainFacts
<1>2. \A i \in DOMAIN Blocks[n] : i \in Nat /\ \A k \in DOMAIN Inputs(n, i) : k \in Nat
  BY ChainFacts
<1>3. ASSUME NEW i \in DOMAIN Blocks[n], NEW k \in DOMAIN Inputs(n, i), Inputs(n, i)[k] = x
      PROVE  i = a /\ k = b
  BY <1>3, NoTwice
<1>4. ASSUME NEW i \in DOMAIN Blocks[n], NEW k \in DOMAIN Inputs(n, i)
      PROVE  /\ (i < a \/ (i = a /\ k < b + 1)) <=> (i < a \/ (i = a /\ k < b)) \/ (i = a /\ k = b)
             /\ (i > a \/ (i = a /\ k >= b)) <=>
                  (i > a \/ (i = a /\ k >= b + 1)) \/ (i = a /\ k = b)
             /\ ~(a > a \/ (a = a /\ b >= b + 1))
  BY <1>1, <1>2
<1>5. \A o : o \in SpentBefore(n, a, b + 1) <=> o \in SpentBefore(n, a, b) \/ o = x
  BY <1>1, <1>4 DEF SpentBefore
<1>6. \A o : o \in SpentFrom(n, a, b) <=> o \in SpentFrom(n, a, b + 1) \/ o = x
  BY <1>1, <1>4 DEF SpentFrom
<1>7. x \notin SpentFrom(n, a, b + 1)
  <2> SUFFICES ASSUME NEW i \in DOMAIN Blocks[n], NEW k \in DOMAIN Inputs(n, i),
                      i > a \/ (i = a /\ k >= b + 1), x = Inputs(n, i)[k]
               PROVE  FALSE
    BY DEF SpentFrom
  <2>1. i = a /\ k = b
    BY <1>3
  <2> QED BY <1>1, <2>1
<1>8. ASSUME NEW o \in SpentBefore(n, a, b) PROVE Before(n, o, x)
  <2>1. PICK i \in DOMAIN Blocks[n] : \E k \in DOMAIN Inputs(n, i) :
          (i < a \/ (i = a /\ k < b)) /\ o = Inputs(n, i)[k]
    BY DEF SpentBefore
  <2> QED BY <2>1 DEF Before
<1>9. ASSUME NEW o \in SpentFrom(n, a, b), Before(n, o, x) PROVE FALSE
  <2>1. PICK i \in DOMAIN Blocks[n] : \E k \in DOMAIN Inputs(n, i) :
          (i > a \/ (i = a /\ k >= b)) /\ o = Inputs(n, i)[k]
    BY DEF SpentFrom
  <2>2. PICK k \in DOMAIN Inputs(n, i) : (i > a \/ (i = a /\ k >= b)) /\ o = Inputs(n, i)[k]
    BY <2>1
  <2>3. PICK p, q \in DOMAIN Blocks[n] : \E r \in DOMAIN Inputs(n, p), s \in DOMAIN Inputs(n, q) :
          (p < q \/ (p = q /\ r < s)) /\ o = Inputs(n, p)[r] /\ x = Inputs(n, q)[s]
    BY <1>9 DEF Before
  <2>4. PICK r \in DOMAIN Inputs(n, p), s \in DOMAIN Inputs(n, q) :
          (p < q \/ (p = q /\ r < s)) /\ o = Inputs(n, p)[r] /\ x = Inputs(n, q)[s]
    BY <2>3
  <2>5. q = a /\ s = b
    BY <1>3, <2>4
  <2>6. p = i /\ r = k
    <3>1. Inputs(n, p)[r] = Inputs(n, i)[k]
      BY <2>2, <2>4
    <3> QED BY <3>1, NoTwice
  <2>7. i \in Nat /\ k \in Nat
    BY <1>2
  <2> HIDE DEF x
  <2> QED BY <1>1, <2>2, <2>4, <2>5, <2>6, <2>7
<1> QED BY <1>1, <1>5, <1>6, <1>7, <1>8, <1>9

\* All inputs of a transaction are done.
LEMMA SpentByAll ==
  ASSUME NEW n \in DOMAIN Blocks, NEW a \in DOMAIN Blocks[n]
  PROVE  /\ SpentBefore(n, a + 1, 1) = SpentBefore(n, a, Len(Inputs(n, a)) + 1)
         /\ SpentFrom(n, a + 1, 1) = SpentFrom(n, a, Len(Inputs(n, a)) + 1)
<1> DEFINE b == Len(Inputs(n, a)) + 1
<1>1. ASSUME NEW i \in DOMAIN Blocks[n], NEW k \in DOMAIN Inputs(n, i)
      PROVE  /\ (i < a + 1 \/ (i = a + 1 /\ k < 1)) <=> (i < a \/ (i = a /\ k < b))
             /\ (i > a + 1 \/ (i = a + 1 /\ k >= 1)) <=> (i > a \/ (i = a /\ k >= b))
  <2>1. i \in Nat /\ a \in Nat /\ k \in Nat /\ k >= 1 /\ b \in Nat /\ (i = a => k < b)
    BY ChainFacts
  <2> HIDE DEF b
  <2> QED BY <2>1
<1> HIDE DEF b
<1>2. \A o : o \in SpentBefore(n, a + 1, 1) <=> o \in SpentBefore(n, a, b)
  BY <1>1 DEF SpentBefore
<1>3. \A o : o \in SpentFrom(n, a + 1, 1) <=> o \in SpentFrom(n, a, b)
  BY <1>1 DEF SpentFrom
<1> QED BY <1>2, <1>3 DEF b

-----------------------------------------------------------------------------
(* Outputs in a queue, each once and in the order in which they are spent. *)

Queued(n, P, S) ==
  /\ Range(P) = S
  /\ \A x, y \in DOMAIN P : x < y => Before(n, P[x], P[y])

\* Nothing is awaited: the queue is empty.
LEMMA NoneQueued ==
  ASSUME NEW n, NEW P \in Seq(AllOutputs)
  PROVE  Queued(n, P, {}) <=> P = << >>
<1>1. Len(P) \in Nat /\ DOMAIN P = 1..Len(P) /\ (P = << >> <=> Len(P) = 0)
  BY LenProperties, EmptySeq
<1>2. Range(P) = {} <=> DOMAIN P = {}
  BY DEF Range
<1>3. DOMAIN P = {} <=> Len(P) = 0
  <2>1. Len(P) # 0 => 1 \in DOMAIN P
    BY <1>1
  <2>2. Len(P) = 0 => DOMAIN P = {}
    BY <1>1
  <2> QED BY <2>1, <2>2
<1> QED BY <1>1, <1>2, <1>3 DEF Queued

\* What is spent after all others is appended.
LEMMA QueueLonger ==
  ASSUME NEW n, NEW P \in Seq(AllOutputs), NEW S, Queued(n, P, S), NEW o \in AllOutputs,
         \A p \in S : Before(n, p, o)
  PROVE  Queued(n, Append(P, o), S \cup {o})
<1> DEFINE A == Append(P, o)
           l == Len(P)
<1>1. l \in Nat /\ DOMAIN P = 1..l
  BY LenProperties
<1>2. A \in Seq(AllOutputs) /\ DOMAIN A = 1..(l + 1) /\ A[l + 1] = o /\ \A i \in 1..l : A[i] = P[i]
  <2>1. A \in Seq(AllOutputs) /\ Len(A) = l + 1 /\ A[l + 1] = o /\ \A i \in 1..l : A[i] = P[i]
    BY <1>1, AppendProperties
  <2> QED BY <2>1, LenProperties
<1> HIDE DEF A, l
<1>3. S = Range(P) /\ \A i \in 1..l : P[i] \in S
  BY <1>1 DEF Queued, Range
<1>4. ASSUME NEW x PROVE x \in Range(A) <=> x \in S \cup {o}
  <2>1. x \in Range(A) <=> \E i \in 1..(l + 1) : A[i] = x
    BY <1>2 DEF Range
  <2>2. x \in S <=> \E i \in 1..l : P[i] = x
    BY <1>1, <1>3 DEF Range
  <2>3. \A i : i \in 1..(l + 1) <=> i \in 1..l \/ i = l + 1
    BY <1>1
  <2> QED BY <1>2, <2>1, <2>2, <2>3
<1>5. ASSUME NEW x \in 1..(l + 1), NEW y \in 1..(l + 1), x < y PROVE Before(n, A[x], A[y])
  <2>1. x \in 1..l
    BY <1>1, <1>5
  <2>2. CASE y = l + 1
    BY <1>2, <1>3, <2>1, <2>2
  <2>3. CASE y # l + 1
    <3>1. y \in 1..l
      BY <1>1, <2>3
    <3> QED BY <1>1, <1>2, <1>5, <2>1, <3>1 DEF Queued
  <2> QED BY <2>2, <2>3
<1>6. Range(A) = S \cup {o}
  BY <1>4
<1> QED BY <1>2, <1>5, <1>6 DEF Queued, A

\* What is spent before all others is the first.
LEMMA QueueShorter ==
  ASSUME NEW n, NEW P \in Seq(AllOutputs), NEW S, Queued(n, P, S), NEW o \in S,
         \A p \in S : ~Before(n, p, o)
  PROVE  P # << >> /\ Head(P) = o /\ Queued(n, Tail(P), S \ {o})
<1> DEFINE T == Tail(P)
           l == Len(P)
<1>1. l \in Nat /\ DOMAIN P = 1..l /\ (P = << >> <=> l = 0)
  BY LenProperties, EmptySeq
<1>2. S = Range(P) /\ \A i \in 1..l : P[i] \in S
  BY <1>1 DEF Queued, Range
<1>3. \A i, j \in 1..l : i < j => Before(n, P[i], P[j])
  BY <1>1 DEF Queued
<1>4. PICK i \in 1..l : P[i] = o
  BY <1>1, <1>2 DEF Range
<1>5. ASSUME NEW j \in 1..l, P[j] = o PROVE j = 1
  <2>1. 1 \in 1..l
    BY <1>1
  <2>2. ~(1 < j)
    BY <1>2, <1>3, <1>5, <2>1
  <2> QED BY <1>1, <2>2
<1>6. l # 0 /\ P # << >> /\ P[1] = o /\ 1 \in 1..l
  BY <1>1, <1>4, <1>5
<1>7. T \in Seq(AllOutputs) /\ DOMAIN T = 1..(l - 1) /\ \A j \in 1..(l - 1) : T[j] = P[j + 1]
  <2>1. T \in Seq(AllOutputs) /\ Len(T) = l - 1 /\ \A j \in 1..(l - 1) : T[j] = P[j + 1]
    BY <1>6, HeadTailProperties
  <2> QED BY <2>1, LenProperties
<1>8. Head(P) = o
  BY <1>6
<1> HIDE DEF T, l
<1>9. \A j \in 1..(l - 1) : j + 1 \in 1..l /\ j + 1 # 1
  BY <1>1
<1>10. \A j \in 1..l : j # 1 => j - 1 \in 1..(l - 1) /\ (j - 1) + 1 = j
  BY <1>1
<1>11. ASSUME NEW x PROVE x \in Range(T) <=> x \in S \ {o}
  <2>1. x \in Range(T) <=> \E j \in 1..(l - 1) : P[j + 1] = x
    BY <1>7 DEF Range
  <2>2. x \in S <=> \E j \in 1..l : P[j] = x
    BY <1>1, <1>2 DEF Range
  <2>3. ASSUME NEW j \in 1..(l - 1), P[j + 1] = x PROVE x \in S \ {o}
    BY <1>5, <1>9, <2>2, <2>3
  <2>4. ASSUME NEW j \in 1..l, P[j] = x, x # o PROVE \E k \in 1..(l - 1) : P[k + 1] = x
    BY <1>6, <1>10, <2>4
  <2> QED BY <2>1, <2>2, <2>3, <2>4
<1>12. ASSUME NEW x \in 1..(l - 1), NEW y \in 1..(l - 1), x < y PROVE Before(n, T[x], T[y])
  <2>1. x + 1 \in 1..l /\ y + 1 \in 1..l /\ x + 1 < y + 1
    BY <1>1, <1>12
  <2> QED BY <1>3, <1>7, <2>1
<1>13. Range(T) = S \ {o}
  BY <1>11
<1> QED BY <1>6, <1>7, <1>8, <1>12, <1>13 DEF Queued, T

-----------------------------------------------------------------------------
(* The requests of a block on their way, and the thread that answers them. *)

\* Each phase of the thread: a part of a batch has no answer or the right one.
Waiting == fetcher = Idle
Fetching ==
  /\ fetcher = [does |-> "fetching", batch |-> fetcher.batch, replies |-> fetcher.replies]
  /\ fetcher.batch \in Seq(AllOutputs) /\ fetcher.batch # << >>
  /\ fetcher.replies = [c \in DOMAIN Chunks(fetcher.batch) |-> fetcher.replies[c]]
  /\ \A c \in DOMAIN Chunks(fetcher.batch) :
       fetcher.replies[c] \in {<< >>, Txids(Chunks(fetcher.batch)[c])}
Sending ==
  /\ fetcher = [does |-> "sending", batch |-> fetcher.batch,
                replies |-> <<Txids(fetcher.batch)>>]
  /\ fetcher.batch \in Seq(AllOutputs) /\ fetcher.batch # << >>
HasEnded == fetcher = Ended

Channels ==
  /\ Waiting \/ Fetching \/ Sending \/ HasEnded
  /\ requests \in Seq(AllOutputs)
  /\ ~lagged => answers \in Seq(AllOutputs)

NoRequests == requests = << >> /\ answers = << >> /\ ~lagged /\ fetcher = Idle

\* The answers that have come and those that will are for the outputs S, unless an
\* answer was dropped or the thread has ended, and then some of S will not come.
Carries(n, S) ==
  /\ lagged => S # {}
  /\ ~lagged => \E Q \in Seq(AllOutputs) :
       /\ Queued(n, answers \o Q, S)
       /\ fetcher.does = "ended" => Q # << >>
       /\ fetcher.does # "ended" => Q = fetcher.batch \o requests

\* What the thread does is told from its phase.
LEMMA Phases ==
  /\ Waiting => fetcher.does = "waiting" /\ fetcher.batch = << >>
  /\ Fetching => fetcher.does = "fetching"
  /\ Sending => fetcher.does = "sending"
  /\ HasEnded => fetcher.does = "ended"
<1>1. Waiting => fetcher.does = "waiting" /\ fetcher.batch = << >>
  BY DEF Waiting, Idle
<1>2. HasEnded => fetcher.does = "ended"
  BY DEF HasEnded, Ended, Idle
<1>3. Fetching => fetcher.does = "fetching"
  <2>1. \A b, r : [does |-> "fetching", batch |-> b, replies |-> r].does = "fetching"
    OBVIOUS
  <2> QED BY <2>1 DEF Fetching
<1>4. Sending => fetcher.does = "sending"
  <2>1. \A b, r : [does |-> "sending", batch |-> b, replies |-> r].does = "sending"
    OBVIOUS
  <2> QED BY <2>1 DEF Sending
<1> QED BY <1>1, <1>2, <1>3, <1>4

\* The thread takes a batch.
LEMMA TakeMoves ==
  ASSUME Channels, TakeBatch
  PROVE  /\ Channels' /\ fetcher.does # "ended" /\ fetcher'.does # "ended"
         /\ UNCHANGED <<answers, lagged>>
         /\ fetcher'.batch \o requests' = fetcher.batch \o requests
<1> DEFINE n == Min({BatchSize, Len(requests)})
           batch == SubSeq(requests, 1, n)
           none == [c \in DOMAIN Chunks(batch) |-> << >>]
           l == Len(requests)
<1>1. /\ fetcher.does = "waiting" /\ requests # << >>
      /\ requests' = SubSeq(requests, n + 1, l)
      /\ fetcher' = [does |-> "fetching", batch |-> batch, replies |-> none]
      /\ UNCHANGED <<answers, lagged>>
  BY DEF TakeBatch
<1>2. requests \in Seq(AllOutputs) /\ l \in Nat /\ l # 0
  BY <1>1, LenProperties, EmptySeq DEF Channels
<1>3. n \in Nat /\ n >= 1 /\ n <= l
  <2>1. BatchSize \in Nat \ {0}
    BY AddressAssumption
  <2>2. n = IF BatchSize <= l THEN BatchSize ELSE l
    BY <1>2, <2>1, MinOfTwo
  <2> HIDE DEF n, l
  <2> QED BY <1>2, <2>1, <2>2
<1> HIDE DEF n
<1>4. batch \in Seq(AllOutputs) /\ Len(batch) = n /\ requests' \in Seq(AllOutputs)
  <2>1. \A i \in 1..l : requests[i] \in AllOutputs
    BY <1>2, ElementOfSeq
  <2>2. batch \in Seq(AllOutputs) /\ Len(batch) = IF 1 <= n THEN n - 1 + 1 ELSE 0
    BY <1>2, <1>3, <2>1, SubSeqProperties
  <2>3. requests' \in Seq(AllOutputs)
    BY <1>1, <1>2, <1>3, <2>1, SubSeqProperties
  <2> QED BY <1>3, <2>2, <2>3
<1>5. batch \o requests' = requests
  <2>1. batch \o SubSeq(requests, n + 1, l) = SubSeq(requests, 1, l)
    BY <1>2, <1>3, ConcatAdjacentSubSeq
  <2> QED BY <1>1, <1>2, <2>1, SubSeqFull
<1>6. batch # << >>
  BY <1>3, <1>4, EmptySeq
<1> HIDE DEF batch
<1>7. fetcher'.batch = batch /\ fetcher'.replies = none
  BY <1>1
<1>8. Fetching'
  BY <1>1, <1>4, <1>6, <1>7 DEF Fetching
<1>9. Waiting
  BY <1>1, Phases DEF Channels
<1>10. fetcher.batch \o requests = requests
  <2>1. fetcher.batch = << >>
    BY <1>9, Phases
  <2> QED BY <1>2, <2>1, ConcatEmptySeq
<1>11. fetcher'.does = "fetching"
  BY <1>1
<1>12. Channels'
  BY <1>1, <1>4, <1>8 DEF Channels
<1> QED BY <1>1, <1>5, <1>7, <1>10, <1>11, <1>12

\* The node answers a part.
LEMMA ReplyMoves ==
  ASSUME Channels, fetcher.does = "fetching", NEW c \in DOMAIN fetcher.replies, Reply(c)
  PROVE  /\ Channels' /\ fetcher'.does # "ended"
         /\ UNCHANGED <<answers, lagged, requests>> /\ fetcher'.batch = fetcher.batch
<1> DEFINE batch == fetcher.batch
           replies == fetcher.replies
           chunk == Chunks(batch)[c]
<1>1. Fetching
  BY Phases DEF Channels
<1>2. /\ fetcher = [does |-> "fetching", batch |-> batch, replies |-> replies]
      /\ batch \in Seq(AllOutputs) /\ batch # << >>
      /\ replies = [d \in DOMAIN Chunks(batch) |-> replies[d]]
      /\ \A d \in DOMAIN Chunks(batch) : replies[d] \in {<< >>, Txids(Chunks(batch)[d])}
  BY <1>1 DEF Fetching
<1>3. c \in DOMAIN Chunks(batch)
  BY <1>2
<1>4. chunk \in Seq(AllOutputs)
  <2>1. /\ Chunks(batch) = [d \in 1..CountOf(batch) |->
                              SubSeq(batch, (d - 1) * SizeOf(batch) + 1, EndOf(batch, d))]
        /\ c \in 1..CountOf(batch)
        /\ (c - 1) * SizeOf(batch) \in 0..Len(batch)
        /\ EndOf(batch, c) \in ((c - 1) * SizeOf(batch))..Len(batch)
    BY <1>2, <1>3, ChunkFacts
  <2> DEFINE k == (c - 1) * SizeOf(batch)
             e == EndOf(batch, c)
  <2>2. chunk = SubSeq(batch, k + 1, e) /\ k \in 0..Len(batch) /\ e \in k..Len(batch)
    BY <2>1
  <2> HIDE DEF k, e, chunk, batch
  <2>3. \A i \in 1..Len(batch) : batch[i] \in AllOutputs
    BY <1>2, ElementOfSeq
  <2>4. Len(batch) \in Nat
    BY <1>2, LenProperties
  <2>5. k + 1 \in Int /\ e \in Int /\ \A i \in (k + 1)..e : i \in 1..Len(batch)
    BY <2>2, <2>4
  <2> QED BY <1>2, <2>2, <2>3, <2>5, SubSeqProperties
<1>5. PICK received \in SetToSeqs(Results(chunk)) :
        fetcher' = [fetcher EXCEPT !.replies[c] = InOrder(received)]
  BY DEF Reply, Results
<1>6. UNCHANGED <<requests, answers, lagged>>
  BY DEF Reply
<1>7. InOrder(received) = Txids(chunk)
  BY <1>4, <1>5, ResultsInOrder
<1> DEFINE new == [replies EXCEPT ![c] = Txids(chunk)]
<1>8. fetcher' = [does |-> "fetching", batch |-> batch, replies |-> new]
  <2> DEFINE t == Txids(chunk)
  <2>1. fetcher' = [fetcher EXCEPT !.replies[c] = t]
    BY <1>5, <1>7
  <2> HIDE DEF t, batch, replies
  <2>2. fetcher' = [does |-> "fetching", batch |-> batch, replies |-> [replies EXCEPT ![c] = t]]
    BY <1>2, <2>1
  <2> QED BY <2>2 DEF t
<1>9. /\ new = [d \in DOMAIN Chunks(batch) |-> new[d]]
      /\ \A d \in DOMAIN Chunks(batch) : new[d] \in {<< >>, Txids(Chunks(batch)[d])}
  <2> HIDE DEF batch, replies
  <2>1. new = [d \in DOMAIN Chunks(batch) |-> IF d = c THEN Txids(chunk) ELSE replies[d]]
    BY <1>2
  <2> HIDE DEF new
  <2> QED BY <1>2, <2>1
<1> HIDE DEF new
<1>10. fetcher'.batch = batch /\ fetcher'.replies = new /\ fetcher'.does = "fetching"
  BY <1>8
<1>11. Fetching'
  BY <1>2, <1>8, <1>9, <1>10 DEF Fetching
<1>12. Channels'
  BY <1>6, <1>11 DEF Channels
<1> QED BY <1>6, <1>10, <1>12

\* The thread sends an answer: it is the output that was asked for.
LEMMA AnswerMoves ==
  ASSUME Channels, setting, SendAnswer
  PROVE  /\ Channels' /\ fetcher.does # "ended" /\ fetcher'.does # "ended"
         /\ fetcher.batch \in Seq(AllOutputs) /\ fetcher.batch # << >>
         /\ requests' = requests /\ (lagged => lagged')
         /\ ~lagged' => /\ answers \in Seq(AllOutputs)
                        /\ answers' = Append(answers, Head(fetcher.batch))
                        /\ fetcher'.batch = Tail(fetcher.batch)
<1> DEFINE batch == fetcher.batch
           txids == FlattenSeq(fetcher.replies)
           answer == Output(Head(txids), Head(batch).vout)
           rest == [does |-> "sending", batch |-> Tail(batch), replies |-> <<Tail(txids)>>]
<1>1. /\ Answered \/ fetcher.does = "sending"
      /\ fetcher' = IF Len(batch) = 1 THEN Idle ELSE rest
      /\ lagged' = (lagged \/ Len(answers) = AnswerCap)
      /\ answers' = Append(IF Len(answers) = AnswerCap THEN Tail(answers) ELSE answers, answer)
      /\ requests' = requests
  BY DEF SendAnswer
<1>2. fetcher.does # "ended" /\ batch \in Seq(AllOutputs) /\ batch # << >> /\ txids = Txids(batch)
  <2>1. CASE Answered
    <3>1. Fetching
      BY <2>1, Phases DEF Channels, Answered
    <3>2. /\ batch \in Seq(AllOutputs) /\ batch # << >>
          /\ fetcher.replies = [c \in DOMAIN Chunks(batch) |-> fetcher.replies[c]]
          /\ \A c \in DOMAIN Chunks(batch) :
               fetcher.replies[c] \in {<< >>, Txids(Chunks(batch)[c])}
      BY <3>1 DEF Fetching
    <3>3. \A c \in DOMAIN Chunks(batch) : fetcher.replies[c] # << >>
      BY <2>1, <3>2 DEF Answered
    <3> DEFINE all == [c \in DOMAIN Chunks(batch) |-> Txids(Chunks(batch)[c])]
    <3>4. fetcher.replies = all
      BY <3>2, <3>3
    <3>5. FlattenSeq(all) = Txids(batch)
      BY <3>2, AllReplies
    <3> HIDE DEF all
    <3> QED BY <3>1, <3>2, <3>4, <3>5, Phases
  <2>2. CASE fetcher.does = "sending"
    <3>1. Sending
      BY <2>2, Phases DEF Channels
    <3>2. batch \in Seq(AllOutputs) /\ batch # << >> /\ fetcher.replies = <<Txids(batch)>>
      <4>1. \A b, r : [does |-> "sending", batch |-> b, replies |-> r].replies = r
        OBVIOUS
      <4> QED BY <3>1, <4>1 DEF Sending
    <3> QED BY <2>2, <3>2, OneReply
  <2> QED BY <1>1, <2>1, <2>2
<1> HIDE DEF txids
<1>3. /\ Len(batch) \in Nat /\ Len(batch) # 0 /\ DOMAIN batch = 1..Len(batch)
      /\ Head(batch) = batch[1] /\ Head(batch) \in AllOutputs
      /\ Tail(batch) \in Seq(AllOutputs) /\ Len(Tail(batch)) = Len(batch) - 1
  BY <1>2, HeadTailProperties, LenProperties, EmptySeq
<1>4. answer = Head(batch)
  <2>1. txids \in Seq(Ids) /\ Len(txids) = Len(batch)
    BY <1>2, TxidsFacts
  <2>2. Head(txids) = txids[1]
    BY <2>1, <1>3
  <2>3. txids[1] = batch[1].txid
    BY <1>2, <1>3 DEF Txids
  <2>4. \A o \in AllOutputs : o = Output(o.txid, o.vout)
    BY OutputIds DEF AllOutputs
  <2> QED BY <1>3, <2>2, <2>3, <2>4
<1>5. Tail(txids) = Txids(Tail(batch))
  <2>1. Tail(batch) = SubSeq(batch, 2, Len(batch))
    BY <1>2, HeadTailProperties
  <2>2. txids \in Seq(Ids) /\ Len(txids) = Len(batch)
    BY <1>2, TxidsFacts
  <2>3. txids # << >>
    BY <1>3, <2>2, EmptySeq
  <2>4. Tail(txids) = SubSeq(txids, 2, Len(batch))
    BY <2>2, <2>3, HeadTailProperties
  <2>5. 2 \in 1..(Len(batch) + 1) /\ Len(batch) \in (2 - 1)..Len(batch)
    BY <1>3
  <2> QED BY <1>2, <2>1, <2>4, <2>5, TxidsFacts
<1> HIDE DEF answer
<1>6. (Waiting \/ Sending)' /\ fetcher'.does # "ended" /\ fetcher'.batch = Tail(batch)
  <2>1. CASE Len(batch) = 1
    <3>1. fetcher' = Idle
      BY <1>1, <2>1
    <3>2. Tail(batch) = << >>
      <4>1. Len(Tail(batch)) = 0 /\ Tail(batch) \in Seq(AllOutputs)
        BY <1>3, <2>1
      <4> QED BY <4>1, EmptySeq
    <3> QED BY <3>1, <3>2 DEF Waiting, Idle
  <2>2. CASE Len(batch) # 1
    <3>1. fetcher' = [does |-> "sending", batch |-> Tail(batch),
                      replies |-> <<Txids(Tail(batch))>>]
      BY <1>1, <1>5, <2>2
    <3>2. Tail(batch) # << >>
      <4>1. Len(Tail(batch)) # 0
        BY <1>3, <2>2
      <4> QED BY <1>3, <4>1, EmptySeq
    <3> DEFINE t == Tail(batch)
    <3> HIDE DEF t
    <3>3. fetcher' = [does |-> "sending", batch |-> t, replies |-> <<Txids(t)>>]
          /\ t \in Seq(AllOutputs) /\ t # << >>
      BY <1>3, <3>1, <3>2 DEF t
    <3>4. fetcher'.batch = t /\ fetcher'.does = "sending"
      BY <3>3
    <3> QED BY <3>3, <3>4 DEF Sending, t
  <2> QED BY <2>1, <2>2
<1>7. (lagged => lagged') /\ (~lagged' => ~lagged /\ answers' = Append(answers, Head(batch)))
  BY <1>1, <1>4
<1>8. ~lagged' => answers \in Seq(AllOutputs) /\ answers' \in Seq(AllOutputs)
  <2>1. ASSUME answers \in Seq(AllOutputs) PROVE Append(answers, Head(batch)) \in Seq(AllOutputs)
    BY <1>3, <2>1, AppendProperties
  <2> QED BY <1>7, <2>1 DEF Channels
<1>9. Channels'
  BY <1>1, <1>6, <1>8 DEF Channels
<1> QED BY <1>1, <1>2, <1>6, <1>7, <1>8, <1>9

\* The thread changes nothing of what is under way, and it does not give up.
LEMMA ThreadCarries ==
  ASSUME Channels, setting, FetchThread, NEW n, NEW S, Carries(n, S)
  PROVE  Channels' /\ Carries(n, S)'
<1>1. CASE TakeBatch
  <2>1. /\ Channels' /\ fetcher.does # "ended" /\ fetcher'.does # "ended"
        /\ UNCHANGED <<answers, lagged>>
        /\ fetcher'.batch \o requests' = fetcher.batch \o requests
    BY <1>1, TakeMoves
  <2> QED BY <2>1 DEF Carries
<1>2. CASE fetcher.does = "fetching" /\ \E c \in DOMAIN fetcher.replies : Reply(c)
  <2>1. PICK c \in DOMAIN fetcher.replies : Reply(c)
    BY <1>2
  <2>2. /\ Channels' /\ fetcher'.does # "ended"
        /\ UNCHANGED <<answers, lagged, requests>> /\ fetcher'.batch = fetcher.batch
    BY <1>2, <2>1, ReplyMoves
  <2> QED BY <1>2, <2>2 DEF Carries
<1>3. CASE SendAnswer
  <2> DEFINE batch == fetcher.batch
  <2>1. /\ Channels' /\ fetcher.does # "ended" /\ fetcher'.does # "ended"
        /\ batch \in Seq(AllOutputs) /\ batch # << >>
        /\ requests' = requests /\ (lagged => lagged')
        /\ ~lagged' => /\ answers \in Seq(AllOutputs)
                       /\ answers' = Append(answers, Head(batch))
                       /\ fetcher'.batch = Tail(batch)
    BY <1>3, AnswerMoves
  <2>2. requests \in Seq(AllOutputs)
    BY DEF Channels
  <2>3. ASSUME S = {} PROVE ~lagged'
    <3>1. ~lagged
      BY <2>3 DEF Carries
    <3>2. Queued(n, answers \o (batch \o requests), {}) /\ answers \in Seq(AllOutputs)
      BY <2>1, <2>3, <3>1 DEF Carries, Channels
    <3>3. /\ answers \o (batch \o requests) \in Seq(AllOutputs)
          /\ batch \o requests \in Seq(AllOutputs)
      BY <2>1, <2>2, <3>2, ConcatProperties
    <3>4. answers \o (batch \o requests) = << >>
      BY <3>2, <3>3, NoneQueued
    <3>5. batch = << >>
      BY <2>1, <2>2, <3>2, <3>3, <3>4, ConcatEqualIffEmpty
    <3> QED BY <2>1, <3>5
  <2>4. ASSUME ~lagged'
        PROVE  answers' \o (fetcher'.batch \o requests') = answers \o (batch \o requests)
               /\ fetcher'.batch \o requests' \in Seq(AllOutputs)
    <3> DEFINE h == Head(batch)
               t == Tail(batch)
               r == t \o requests
    <3>1. h \in AllOutputs /\ t \in Seq(AllOutputs) /\ batch = <<h>> \o t
      BY <2>1, HeadTailProperties
    <3>2. answers \in Seq(AllOutputs) /\ <<h>> \in Seq(AllOutputs)
          /\ Append(answers, h) = answers \o <<h>>
      BY <2>1, <2>4, <3>1
    <3>3. fetcher'.batch \o requests' = r /\ answers' = Append(answers, h)
      BY <2>1, <2>4
    <3> HIDE DEF h, t
    <3>4. r \in Seq(AllOutputs)
      BY <2>2, <3>1, ConcatProperties
    <3>5. batch \o requests = <<h>> \o r
      BY <2>2, <3>1, <3>2, ConcatAssociative
    <3> HIDE DEF r, batch
    <3>6. (answers \o <<h>>) \o r = answers \o (<<h>> \o r)
      BY <3>2, <3>4, ConcatAssociative
    <3> QED BY <3>2, <3>3, <3>4, <3>5, <3>6
  <2>5. ASSUME ~lagged'
        PROVE  Queued(n, answers \o (batch \o requests), S)
    BY <2>1, <2>5 DEF Carries
  <2>6. Carries(n, S)'
    BY <2>1, <2>3, <2>4, <2>5 DEF Carries
  <2> QED BY <2>1, <2>6
<1> QED BY <1>1, <1>2, <1>3 DEF FetchThread

\* It gives up a batch, the answers to which will not come.
LEMMA FailureCarries ==
  ASSUME Channels, FetchFails, NEW n, NEW S, Carries(n, S)
  PROVE  Channels' /\ Carries(n, S)'
<1>1. /\ fetcher.does = "fetching" /\ fetcher' = Ended
      /\ UNCHANGED <<requests, answers, lagged>>
  BY DEF FetchFails
<1>2. Fetching /\ fetcher.batch \in Seq(AllOutputs) /\ fetcher.batch # << >>
  <2>1. Fetching
    BY <1>1, Phases DEF Channels
  <2> QED BY <2>1 DEF Fetching
<1>3. fetcher'.does = "ended" /\ HasEnded'
  BY <1>1 DEF HasEnded, Ended, Idle
<1>4. fetcher.batch \o requests \in Seq(AllOutputs) /\ fetcher.batch \o requests # << >>
  BY <1>2, ConcatProperties, ConcatEqualIffEmpty DEF Channels
<1>5. Channels'
  BY <1>1, <1>3 DEF Channels
<1>6. Carries(n, S)'
  BY <1>1, <1>3, <1>4 DEF Carries
<1> QED BY <1>5, <1>6

\* One more output is requested.
LEMMA RequestCarries ==
  ASSUME Channels, NEW n, NEW S, Carries(n, S), NEW o \in AllOutputs,
         \A p \in S : Before(n, p, o), fetcher.does # "ended",
         requests' = Append(requests, o), UNCHANGED <<answers, lagged, fetcher>>
  PROVE  Channels' /\ Carries(n, S \cup {o})'
<1>1. requests' \in Seq(AllOutputs) /\ requests \in Seq(AllOutputs)
  BY AppendProperties DEF Channels
<1>2. Channels'
  BY <1>1 DEF Channels, Waiting, Fetching, Sending, HasEnded
<1>3. fetcher.batch \in Seq(AllOutputs)
  <2>1. Waiting \/ Fetching \/ Sending
    BY Phases DEF Channels
  <2>2. << >> \in Seq(AllOutputs)
    BY EmptySeq
  <2> QED BY <2>1, <2>2, Phases DEF Fetching, Sending
<1>4. ASSUME ~lagged
      PROVE  /\ Queued(n, answers \o (fetcher.batch \o requests'), S \cup {o})
             /\ fetcher.batch \o requests' \in Seq(AllOutputs)
  <2> DEFINE b == fetcher.batch
             q == b \o requests
             P == answers \o q
  <2>1. answers \in Seq(AllOutputs) /\ Queued(n, P, S)
    BY <1>4 DEF Channels, Carries
  <2>2. q \in Seq(AllOutputs)
    BY <1>1, <1>3, ConcatProperties
  <2>3. P \in Seq(AllOutputs) /\ <<o>> \in Seq(AllOutputs)
    <3> HIDE DEF q
    <3> QED BY <2>1, <2>2, ConcatProperties
  <2>4. Append(requests, o) = requests \o <<o>>
    BY <1>1
  <2>5. b \o (requests \o <<o>>) = q \o <<o>>
    <3>1. b \in Seq(AllOutputs)
      BY <1>3
    <3> HIDE DEF b
    <3>2. (b \o requests) \o <<o>> = b \o (requests \o <<o>>)
      BY <1>1, <2>3, <3>1, ConcatAssociative
    <3> QED BY <3>2
  <2>6. answers \o (q \o <<o>>) = P \o <<o>>
    <3> HIDE DEF q
    <3> QED BY <2>1, <2>2, <2>3, ConcatAssociative
  <2> HIDE DEF P
  <2>7. P \o <<o>> = Append(P, o)
    BY <2>3
  <2>8. Queued(n, Append(P, o), S \cup {o})
    BY <2>1, <2>3, QueueLonger
  <2>9. b \o requests' \in Seq(AllOutputs)
    BY <1>1, <1>3, ConcatProperties
  <2> QED BY <2>4, <2>5, <2>6, <2>7, <2>8, <2>9
<1>5. Carries(n, S \cup {o})'
  BY <1>4 DEF Carries
<1> QED BY <1>2, <1>5

\* The answer that is next is the first output that is awaited.
LEMMA AnswerFits ==
  ASSUME Channels, NEW n, NEW S, Carries(n, S), NEW o \in S,
         \A p \in S : ~Before(n, p, o), ~lagged, answers # << >>
  PROVE  /\ Head(answers) = o
         /\ answers' = Tail(answers) /\ UNCHANGED <<requests, lagged, fetcher>> =>
              Channels' /\ Carries(n, S \ {o})'
<1>1. answers \in Seq(AllOutputs)
  BY DEF Channels
<1>2. PICK Q \in Seq(AllOutputs) :
        /\ Queued(n, answers \o Q, S)
        /\ fetcher.does = "ended" => Q # << >>
        /\ fetcher.does # "ended" => Q = fetcher.batch \o requests
  BY DEF Carries
<1> DEFINE P == answers \o Q
           h == Head(answers)
           t == Tail(answers)
<1>3. h \in AllOutputs /\ t \in Seq(AllOutputs) /\ answers = <<h>> \o t
  BY <1>1, HeadTailProperties
<1> HIDE DEF h, t
<1>4. <<h>> \in Seq(AllOutputs) /\ t \o Q \in Seq(AllOutputs)
  BY <1>2, <1>3, ConcatProperties
<1>5. P = <<h>> \o (t \o Q) /\ P \in Seq(AllOutputs)
  BY <1>1, <1>2, <1>3, <1>4, ConcatAssociative, ConcatProperties
<1>6. Head(P) = h /\ Tail(P) = t \o Q
  <2> DEFINE r == t \o Q
  <2>1. r \in Seq(AllOutputs) /\ P = <<h>> \o r
    BY <1>4, <1>5
  <2> HIDE DEF r, P
  <2>2. Head(<<h>> \o r) = h /\ Tail(<<h>> \o r) = r
    BY <1>3, <2>1
  <2> QED BY <2>1, <2>2 DEF r
<1>7. Head(P) = o /\ Queued(n, Tail(P), S \ {o})
  <2>1. P \in Seq(AllOutputs) /\ Queued(n, P, S)
    BY <1>2, <1>5
  <2> HIDE DEF P
  <2> QED BY <2>1, QueueShorter
<1>8. Queued(n, t \o Q, S \ {o}) /\ h = o
  BY <1>6, <1>7
<1>9. ASSUME answers' = t, UNCHANGED <<requests, lagged, fetcher>>
      PROVE  Channels' /\ Carries(n, S \ {o})'
  <2>1. Channels'
    BY <1>3, <1>9 DEF Channels, Waiting, Fetching, Sending, HasEnded
  <2>2. Carries(n, S \ {o})'
    BY <1>2, <1>8, <1>9 DEF Carries
  <2> QED BY <2>1, <2>2
<1> QED BY <1>8, <1>9 DEF h, t

\* When nothing is awaited nothing is left.
LEMMA NothingCarried ==
  ASSUME Channels, NEW n, Carries(n, {})
  PROVE  NoRequests
<1>1. ~lagged /\ answers \in Seq(AllOutputs) /\ requests \in Seq(AllOutputs)
  BY DEF Carries, Channels
<1>2. PICK Q \in Seq(AllOutputs) :
        /\ Queued(n, answers \o Q, {})
        /\ fetcher.does = "ended" => Q # << >>
        /\ fetcher.does # "ended" => Q = fetcher.batch \o requests
  BY <1>1 DEF Carries
<1>3. answers \o Q = << >>
  BY <1>1, <1>2, ConcatProperties, NoneQueued
<1>4. answers = << >> /\ Q = << >>
  BY <1>1, <1>2, <1>3, ConcatEqualIffEmpty
<1>5. fetcher.batch \o requests = << >> /\ ~HasEnded
  BY <1>2, <1>4, Phases
<1>6. ASSUME fetcher.batch \in Seq(AllOutputs) PROVE fetcher.batch = << >> /\ requests = << >>
  BY <1>1, <1>5, <1>6, ConcatEqualIffEmpty
<1>7. Waiting
  BY <1>5, <1>6 DEF Channels, Fetching, Sending
<1>8. requests = << >>
  <2>1. fetcher.batch = << >> /\ << >> \in Seq(AllOutputs)
    BY <1>7, Phases, EmptySeq
  <2> QED BY <1>6, <2>1
<1> QED BY <1>1, <1>4, <1>7, <1>8 DEF NoRequests, Waiting

\* And the other way round.
LEMMA NothingCarries ==
  ASSUME NoRequests, NEW n
  PROVE  Channels /\ Carries(n, {})
<1>1. << >> \in Seq(AllOutputs) /\ << >> \o << >> = << >>
  BY EmptySeq, ConcatEmptySeq
<1>2. Waiting /\ requests = << >> /\ answers = << >> /\ ~lagged
  BY DEF NoRequests, Waiting
<1>3. fetcher.does # "ended" /\ fetcher.batch = << >>
  BY <1>2, Phases
<1>4. Queued(n, << >>, {})
  BY <1>1, NoneQueued
<1> QED BY <1>1, <1>2, <1>3, <1>4 DEF Channels, Carries

-----------------------------------------------------------------------------
(* Nothing is asked twice or in vain, and nothing is left over. *)

\* The outputs that have to be asked for.
Wanted == {o \in AllOutputs : Missing(o)}
\* Those before a place have been, those from it on are awaited.
Asked(a, b) == SpentBefore(Height, a, b) \cap Wanted
Awaited(a, b) == SpentFrom(Height, a, b) \cap Wanted

Orderly ==
  /\ pc # "panicked"
  /\ ~indexAddresses => NoRequests /\ (pc = "request" => todo = << >>)
  /\ indexAddresses /\ setting =>
       /\ Channels
       /\ pc \in {"idle", "block", "commit"} => NoRequests
       /\ pc = "request" => \E a, b : AtPlace(a, b) /\ Carries(Height, Asked(a, b))
       /\ pc = "receive" => \E a, b : AtPlace(a, b) /\ Carries(Height, Awaited(a, b))

QueueInv == TableInv /\ Orderly

\* Two places with as much left are the same.
LEMMA OnePlace ==
  ASSUME Height \in DOMAIN Blocks, NEW a, NEW b, AtPlace(a, b), NEW c, NEW d, AtPlace(c, d)
  PROVE  a = c /\ b = d
<1> DEFINE n == Height
<1>1. /\ IsPlace(n, a, b) /\ IsPlace(n, c, d)
      /\ todo = Rest(n, a, b) /\ todo = Rest(n, c, d)
  BY DEF AtPlace
<1> HIDE DEF n
<1>2. n \in DOMAIN Blocks
  BY DEF n
<1>3. /\ Len(todo) = Len(Blocks[n]) + 1 - a
      /\ a \in DOMAIN Blocks[n] => Head(todo) = LeftOf(n, a, b)
  BY <1>1, <1>2, RestFacts
<1>4. /\ Len(todo) = Len(Blocks[n]) + 1 - c
      /\ c \in DOMAIN Blocks[n] => Head(todo) = LeftOf(n, c, d)
  BY <1>1, <1>2, RestFacts
<1>5. /\ a \in Nat /\ (a \in DOMAIN Blocks[n] <=> a # Len(Blocks[n]) + 1)
      /\ a = Len(Blocks[n]) + 1 => b = 1
      /\ b \in Nat /\ b >= 1
      /\ a \in DOMAIN Blocks[n] => b <= Len(Inputs(n, a)) + 1
  BY <1>1, <1>2, PlaceFacts
<1>6. /\ c \in Nat
      /\ c = Len(Blocks[n]) + 1 => d = 1
      /\ d \in Nat /\ d >= 1
      /\ c \in DOMAIN Blocks[n] => d <= Len(Inputs(n, c)) + 1
  BY <1>1, <1>2, PlaceFacts
<1>7. a = c /\ Len(Blocks[n]) \in Nat
  BY <1>2, <1>3, <1>4, <1>5, <1>6, ChainFacts
<1>8. CASE a = Len(Blocks[n]) + 1
  BY <1>5, <1>6, <1>7, <1>8
<1>9. CASE a # Len(Blocks[n]) + 1
  <2> DEFINE s == Inputs(n, a)
             l == Len(s)
  <2>1. a \in DOMAIN Blocks[n] /\ s \in Seq(AllOutputs) /\ l \in Nat
        /\ \A i \in 1..l : s[i] \in AllOutputs
    BY <1>2, <1>5, <1>9, ChainFacts
  <2>2. SubSeq(s, b, l) = SubSeq(s, d, l)
    <3>1. LeftOf(n, a, b) = LeftOf(n, a, d)
      BY <1>3, <1>4, <1>7, <2>1
    <3>2. \A e : LeftOf(n, a, e).inputs = SubSeq(s, e, l)
      BY DEF LeftOf
    <3> QED BY <3>1, <3>2
  <2>3. b <= l + 1 /\ d <= l + 1
    BY <1>5, <1>6, <1>7, <2>1
  <2> HIDE DEF s, l
  <2>4. ASSUME NEW e \in Nat, e >= 1, e <= l + 1 PROVE Len(SubSeq(s, e, l)) = l + 1 - e
    <3>1. e \in Int /\ l \in Int /\ \A i \in e..l : s[i] \in AllOutputs
      BY <2>1, <2>4
    <3>2. Len(SubSeq(s, e, l)) = IF e <= l THEN l - e + 1 ELSE 0
      BY <2>1, <3>1, SubSeqProperties
    <3> QED BY <2>1, <2>4, <3>2
  <2>5. l + 1 - b = l + 1 - d
    BY <1>5, <1>6, <2>2, <2>3, <2>4
  <2> QED BY <1>5, <1>6, <1>7, <2>1, <2>5
<1> QED BY <1>8, <1>9

\* An input that needs an answer is the first of those that are awaited.
LEMMA NextAwaited ==
  ASSUME QueueInv, AtInput, indexAddresses
  PROVE  \E a, b :
           /\ AtPlace(a, b) /\ Carries(Height, Awaited(a, b)) /\ Channels
           /\ IsPlace(Height, a, b + 1) /\ AfterInput = Rest(Height, a, b + 1)
           /\ \A p \in Awaited(a, b) : ~Before(Height, p, Input)
           /\ ~Known => Input \in Awaited(a, b)
           /\ Known => Input \notin Awaited(a, b)
           /\ SpentFrom(Height, a, b) = SpentFrom(Height, a, b + 1) \cup {Input}
           /\ Input \notin SpentFrom(Height, a, b + 1)
<1>1. /\ setting /\ Height \in DOMAIN Blocks /\ (~Known => Missing(Input))
      /\ pc = "receive" /\ todo # << >> /\ Current.inputs # << >>
  BY NextInput DEF AtInput, QueueInv
<1>2. PICK a, b : AtPlace(a, b) /\ Carries(Height, Awaited(a, b))
  BY <1>1 DEF QueueInv, Orderly
<1>3. /\ a \in DOMAIN Blocks[Height] /\ b \in DOMAIN Inputs(Height, a)
      /\ Input = Inputs(Height, a)[b]
      /\ IsPlace(Height, a, b + 1) /\ AfterInput = Rest(Height, a, b + 1)
  BY <1>1, <1>2, Places
<1>4. /\ Input \in AllOutputs
      /\ SpentFrom(Height, a, b) = SpentFrom(Height, a, b + 1) \cup {Input}
      /\ Input \notin SpentFrom(Height, a, b + 1)
      /\ \A o \in SpentFrom(Height, a, b) : ~Before(Height, o, Input)
  BY <1>1, <1>3, SpentByInput
<1>5. ~Known => Input \in Awaited(a, b)
  BY <1>1, <1>4 DEF Awaited, Wanted
<1>6. Known => Input \notin Awaited(a, b)
  BY DEF Awaited, Wanted, Missing, Known
<1>7. Channels
  BY <1>1 DEF QueueInv, Orderly
<1> QED BY <1>2, <1>3, <1>4, <1>5, <1>6, <1>7 DEF Awaited

\* What is awaited after an input.
LEMMA AwaitedAfterInput ==
  ASSUME NEW txout, Types, Unlist(txout), NEW a, NEW b,
         SpentFrom(Height, a, b) = SpentFrom(Height, a, b + 1) \cup {Input},
         Input \notin SpentFrom(Height, a, b + 1)
  PROVE  Awaited(a, b + 1)' = Awaited(a, b) \ {Input}
<1>1. /\ wtx' = [blocks |-> wtx.blocks, txouts |-> wtx.txouts \ {Input},
                 listed |-> wtx.listed \ {[script |-> ScriptOf(txout), output |-> Input]},
                 complete |-> wtx.complete]
      /\ cache' = cache \ {Input}
  BY Written DEF Unlist
<1>2. Height' = Height /\ wtx'.txouts = wtx.txouts \ {Input}
  BY <1>1 DEF Height
<1> DEFINE x == Input
<1> HIDE DEF x
<1>3. \A o : o # x => (Missing(o)' <=> Missing(o))
  BY <1>1, <1>2 DEF Missing, x
<1> DEFINE W == Wanted
           V == Wanted'
           F == SpentFrom(Height, a, b)
           G == SpentFrom(Height, a, b + 1)
<1>4. \A o : o # x => (o \in V <=> o \in W)
  BY <1>3 DEF Wanted
<1>5. F = G \cup {x} /\ x \notin G
  BY DEF x
<1>6. Awaited(a, b + 1)' = G \cap V /\ Awaited(a, b) = F \cap W
  BY <1>2 DEF Awaited
<1> HIDE DEF W, V, F, G
<1> QED BY <1>4, <1>5, <1>6 DEF x

\* What a step leaves alone.
LEMMA PlacesStay ==
  ASSUME UNCHANGED <<wtx, cache>>
  PROVE  /\ Height' = Height
         /\ \A a, b : Asked(a, b)' = Asked(a, b) /\ Awaited(a, b)' = Awaited(a, b)
         /\ todo' = todo => \A a, b : AtPlace(a, b)' <=> AtPlace(a, b)
<1>1. Height' = Height
  BY DEF Height
<1>2. \A o : Missing(o)' <=> Missing(o)
  BY <1>1 DEF Missing
<1>3. Wanted' = Wanted
  BY <1>2 DEF Wanted
<1> QED BY <1>1, <1>3 DEF Asked, Awaited, AtPlace

\* The same for the channels and the thread.
LEMMA ChannelsStay ==
  ASSUME UNCHANGED channels
  PROVE  /\ Channels' <=> Channels
         /\ NoRequests' <=> NoRequests
         /\ \A n, S : Carries(n, S)' <=> Carries(n, S)
<1>1. UNCHANGED <<requests, answers, lagged, fetcher>>
  BY DEF channels
<1> QED BY <1>1 DEF Channels, Waiting, Fetching, Sending, HasEnded, NoRequests, Carries

\* A thread that was asked nothing waits.
LEMMA ThreadIdle ==
  ASSUME NoRequests
  PROVE  ~FetchThread /\ ~FetchFails
<1>1. fetcher.does = "waiting" /\ requests = << >>
  BY Phases DEF NoRequests, Waiting
<1> QED BY <1>1 DEF FetchThread, FetchFails, TakeBatch, SendAnswer, Answered

\* The requests of a block.
LEMMA RequestOrder ==
  ASSUME QueueInv, Request, indexAddresses, setting
  PROVE  /\ Channels'
         /\ \E a, b : AtPlace(a, b)' /\ Carries(Height, Asked(a, b))'
<1>1. pc = "request" /\ todo # << >> /\ UNCHANGED <<wtx, cache, answers, lagged, fetcher>>
  BY DEF Request
<1>2. Height \in DOMAIN Blocks
  BY <1>1, HeightFacts DEF QueueInv, TableInv, Types
<1>3. PICK a, b : AtPlace(a, b) /\ Carries(Height, Asked(a, b))
  BY <1>1 DEF QueueInv, Orderly
<1>4. Channels
  BY DEF QueueInv, Orderly
<1>5. Height' = Height /\ \A c, d : Asked(c, d)' = Asked(c, d)
  BY <1>1, PlacesStay
<1>6. CASE Current.inputs = << >>
  <2>1. todo' = Tail(todo) /\ UNCHANGED channels
    BY <1>1, <1>6 DEF Request, channels
  <2>2. /\ a \in DOMAIN Blocks[Height] /\ b = Len(Inputs(Height, a)) + 1
        /\ IsPlace(Height, a + 1, 1) /\ Tail(todo) = Rest(Height, a + 1, 1)
    BY <1>1, <1>2, <1>3, <1>6, Places
  <2>3. Asked(a + 1, 1) = Asked(a, b)
    BY <1>2, <2>2, SpentByAll DEF Asked
  <2>4. AtPlace(a + 1, 1)'
    BY <1>5, <2>1, <2>2 DEF AtPlace
  <2> QED BY <1>3, <1>4, <1>5, <2>1, <2>3, <2>4, ChannelsStay
<1>7. CASE Current.inputs # << >>
  <2>1. /\ a \in DOMAIN Blocks[Height] /\ b \in DOMAIN Inputs(Height, a)
        /\ Input = Inputs(Height, a)[b]
        /\ IsPlace(Height, a, b + 1) /\ AfterInput = Rest(Height, a, b + 1)
    BY <1>1, <1>2, <1>3, <1>7, Places
  <2>2. AtPlace(a, b + 1)'
    BY <1>1, <1>5, <1>7, <2>1 DEF AtPlace, Request
  <2>3. /\ Input \in AllOutputs
        /\ SpentBefore(Height, a, b + 1) = SpentBefore(Height, a, b) \cup {Input}
        /\ \A o \in SpentBefore(Height, a, b) : Before(Height, o, Input)
    BY <1>2, <2>1, SpentByInput
  <2>4. CASE Missing(Input)
    <3>1. fetcher.does # "ended" /\ requests' = Append(requests, Input)
      BY <1>7, <2>4 DEF Request
    <3>2. Asked(a, b + 1) = Asked(a, b) \cup {Input}
      BY <2>3, <2>4 DEF Asked, Wanted
    <3>3. \A p \in Asked(a, b) : Before(Height, p, Input)
      BY <2>3 DEF Asked
    <3>4. PICK n, S, x : n = Height /\ S = Asked(a, b) /\ x = Input
      OBVIOUS
    <3>5. Carries(n, S) /\ x \in AllOutputs /\ (\A p \in S : Before(n, p, x))
          /\ requests' = Append(requests, x)
      BY <1>3, <2>3, <3>1, <3>3, <3>4
    <3>6. Channels' /\ Carries(n, S \cup {x})'
      BY <1>1, <1>4, <3>1, <3>5, RequestCarries
    <3>7. Height' = n /\ Asked(a, b + 1)' = S \cup {x}
      BY <1>5, <3>2, <3>4
    <3> QED BY <2>2, <3>6, <3>7
  <2>5. CASE ~Missing(Input)
    <3>1. UNCHANGED channels
      BY <1>1, <1>7, <2>5 DEF Request, channels
    <3>2. Asked(a, b + 1) = Asked(a, b)
      BY <2>3, <2>5 DEF Asked, Wanted
    <3> QED BY <1>3, <1>4, <1>5, <2>2, <3>1, <3>2, ChannelsStay
  <2> QED BY <2>4, <2>5
<1> QED BY <1>6, <1>7

\* An input is done, with or without an answer.
LEMMA SpendOrder ==
  ASSUME QueueInv, SpendKnown \/ SpendFetched, indexAddresses
  PROVE  /\ Channels'
         /\ \E a, b : AtPlace(a, b)' /\ Carries(Height, Awaited(a, b))'
<1>1. AtInput /\ \E txout : Unlist(txout)
  BY DEF SpendKnown, SpendFetched
<1>2. PICK txout : Unlist(txout)
  BY <1>1
<1>3. PICK a, b :
        /\ AtPlace(a, b) /\ Carries(Height, Awaited(a, b)) /\ Channels
        /\ IsPlace(Height, a, b + 1) /\ AfterInput = Rest(Height, a, b + 1)
        /\ \A p \in Awaited(a, b) : ~Before(Height, p, Input)
        /\ ~Known => Input \in Awaited(a, b)
        /\ Known => Input \notin Awaited(a, b)
        /\ SpentFrom(Height, a, b) = SpentFrom(Height, a, b + 1) \cup {Input}
        /\ Input \notin SpentFrom(Height, a, b + 1)
  BY <1>1, NextAwaited
<1>4. PICK n, S, x : n = Height /\ S = Awaited(a, b) /\ x = Input
  OBVIOUS
<1>5. /\ wtx' = [blocks |-> wtx.blocks, txouts |-> wtx.txouts \ {Input},
                 listed |-> wtx.listed \ {[script |-> ScriptOf(txout), output |-> Input]},
                 complete |-> wtx.complete]
      /\ todo' = AfterInput
  BY <1>2, Written DEF Unlist, QueueInv, TableInv
<1>6. Height' = n
  BY <1>4, <1>5 DEF Height
<1>7. AtPlace(a, b + 1)'
  BY <1>3, <1>4, <1>5, <1>6 DEF AtPlace
<1>8. Awaited(a, b + 1)' = S \ {x}
  <2>1. Types
    BY DEF QueueInv, TableInv
  <2>2. Awaited(a, b + 1)' = Awaited(a, b) \ {Input}
    BY <1>2, <1>3, <2>1, AwaitedAfterInput
  <2> QED BY <1>4, <2>2
<1>9. CASE SpendKnown
  <2>1. UNCHANGED channels /\ Known
    BY <1>9 DEF SpendKnown
  <2>2. S \ {x} = S
    BY <1>3, <1>4, <2>1
  <2>3. Channels' /\ Carries(n, S)'
    BY <1>3, <1>4, <2>1, ChannelsStay
  <2> QED BY <1>6, <1>7, <1>8, <2>2, <2>3
<1>10. CASE SpendFetched
  <2>1. ~Known /\ ~lagged /\ answers # << >> /\ answers' = Tail(answers)
        /\ UNCHANGED <<requests, lagged, fetcher>>
    BY <1>10 DEF SpendFetched
  <2>2. Carries(n, S) /\ Channels /\ x \in S /\ \A p \in S : ~Before(n, p, x)
    BY <1>3, <1>4, <2>1
  <2>3. Channels' /\ Carries(n, S \ {x})'
    BY <2>1, <2>2, AnswerFits
  <2> QED BY <1>6, <1>7, <1>8, <2>3
<1> QED BY <1>9, <1>10

\* Outputs of the block were not asked for.
LEMMA ListOrder ==
  ASSUME QueueInv, ListOutputs, indexAddresses, setting
  PROVE  /\ Channels'
         /\ \E a, b : AtPlace(a, b)' /\ Carries(Height, Awaited(a, b))'
<1>1. pc = "receive" /\ todo # << >> /\ Current.inputs = << >> /\ todo' = Tail(todo)
      /\ UNCHANGED channels
  BY DEF ListOutputs
<1>2. Height \in DOMAIN Blocks
  BY <1>1, HeightFacts DEF QueueInv, TableInv, Types
<1>3. PICK a, b : AtPlace(a, b) /\ Carries(Height, Awaited(a, b))
  BY <1>1 DEF QueueInv, Orderly
<1>4. /\ a \in DOMAIN Blocks[Height] /\ b = Len(Inputs(Height, a)) + 1
      /\ Current.tx = Blocks[Height][a]
      /\ IsPlace(Height, a + 1, 1) /\ Tail(todo) = Rest(Height, a + 1, 1)
  BY <1>1, <1>2, <1>3, Places
<1>5. SpentFrom(Height, a + 1, 1) = SpentFrom(Height, a, b)
  BY <1>2, <1>4, SpentByAll
<1>6. /\ wtx' = [blocks |-> wtx.blocks, txouts |-> wtx.txouts,
                 listed |-> wtx.listed \cup {Listing(o) : o \in OutputsOf(Current.tx)},
                 complete |-> wtx.complete]
      /\ cache' = cache \cup OutputsOf(Current.tx)
  BY Written DEF ListOutputs, QueueInv, TableInv
<1>7. Height' = Height /\ wtx'.txouts = wtx.txouts
  BY <1>6 DEF Height
<1>8. \A o \in OutputsOf(Current.tx) : o.txid \in {t.txid : t \in Txs(Height)}
  BY <1>4, OutputIds DEF Txs, Range
<1>9. \A o : Missing(o)' <=> Missing(o)
  BY <1>6, <1>7, <1>8 DEF Missing
<1>10. Awaited(a + 1, 1)' = Awaited(a, b)
  <2>1. Wanted' = Wanted
    BY <1>9 DEF Wanted
  <2> QED BY <1>5, <1>7, <2>1 DEF Awaited
<1>11. AtPlace(a + 1, 1)'
  BY <1>1, <1>4, <1>7 DEF AtPlace
<1>12. Channels
  BY DEF QueueInv, Orderly
<1> QED BY <1>1, <1>3, <1>7, <1>10, <1>11, <1>12, ChannelsStay

\* At the end of a block nothing is left.
LEMMA EndOrder ==
  ASSUME QueueInv, EndBlock, setting
  PROVE  NoRequests
<1>1. pc = "receive" /\ todo = << >>
  BY DEF EndBlock
<1>2. CASE indexAddresses
  <2>1. Height \in DOMAIN Blocks
    BY <1>1, HeightFacts DEF QueueInv, TableInv, Types
  <2>2. PICK a, b : AtPlace(a, b) /\ Carries(Height, Awaited(a, b))
    BY <1>1, <1>2 DEF QueueInv, Orderly
  <2>3. a = Len(Blocks[Height]) + 1 /\ b = 1
    BY <1>1, <2>1, <2>2, Places
  <2>4. Awaited(a, b) = {}
    BY <2>1, <2>3, SpentAtEnds DEF Awaited
  <2>5. Channels /\ Carries(Height, {})
    BY <1>2, <2>2, <2>4 DEF QueueInv, Orderly
  <2> QED BY <2>5, NothingCarried
<1>3. CASE ~indexAddresses
  BY <1>3 DEF QueueInv, Orderly
<1> QED BY <1>2, <1>3

\* Each action keeps the requests and answers in order.
LEMMA OrderStep ==
  ASSUME QueueInv, [Next]_vars
  PROVE  QueueInv'
<1> SUFFICES Orderly'
  BY TablesStep DEF QueueInv
<1>1. TableInv /\ Types /\ Orderly
  BY DEF QueueInv, TableInv
<1> DEFINE Setup == UNCHANGED <<setting, indexAddresses>>
<1>2. ASSUME Setup, UNCHANGED <<wtx, pc, todo, cache>>, UNCHANGED channels PROVE Orderly'
  <2>1. Height' = Height /\ \A a, b : /\ AtPlace(a, b)' <=> AtPlace(a, b)
                                      /\ Asked(a, b)' = Asked(a, b)
                                      /\ Awaited(a, b)' = Awaited(a, b)
    BY <1>2, PlacesStay
  <2>2. /\ Channels' <=> Channels
        /\ NoRequests' <=> NoRequests
        /\ \A n, S : Carries(n, S)' <=> Carries(n, S)
    BY <1>2, ChannelsStay
  <2> QED BY <1>1, <1>2, <2>1, <2>2 DEF Orderly
<1>3. ASSUME NoRequests' PROVE Channels'
  BY <1>3, EmptySeq DEF NoRequests, Channels, Waiting
<1>4. ASSUME Setup, UNCHANGED channels, pc' \in {"block", "commit"},
             pc \in {"idle", "block", "commit"} \/ (setting => NoRequests)
      PROVE  Orderly'
  BY <1>1, <1>3, <1>4, ChannelsStay DEF Orderly
<1>5. ASSUME Drop, pc' = "idle" PROVE Orderly'
  <2>1. NoRequests'
    BY <1>5, Dropped DEF NoRequests
  <2> QED BY <1>3, <1>5, <2>1 DEF Orderly
<1>6. CASE UNCHANGED vars
  BY <1>2, <1>6 DEF vars, config, updater
<1>7. CASE BeginUpdate
  BY <1>4, <1>7 DEF BeginUpdate, Goto, config
<1>8. CASE BeginBlock
  <2>1. /\ pc = "block" /\ Height <= mined
        /\ pc' = IF setting => NothingToReceive THEN "request" ELSE "panicked"
        /\ todo' = IF indexAddresses THEN Todo ELSE << >>
        /\ Setup /\ UNCHANGED <<wtx, cache>> /\ UNCHANGED channels
    BY <1>8 DEF BeginBlock, Goto, config
  <2>2. setting => NoRequests
    <3>1. setting \in BOOLEAN
      BY <1>1 DEF Types
    <3> QED BY <1>1, <2>1 DEF Orderly
  <2>3. pc' = "request"
    <3>1. NoRequests => NothingToReceive
      BY Phases DEF NoRequests, NothingToReceive, Waiting
    <3> QED BY <2>1, <2>2, <3>1
  <2>4. ASSUME indexAddresses, setting
        PROVE  AtPlace(1, 1)' /\ Carries(Height, Asked(1, 1))'
    <3>1. Height \in DOMAIN Blocks
      BY <1>1, <2>1, HeightFacts
    <3>2. IsPlace(Height, 1, 1) /\ Todo = Rest(Height, 1, 1)
      BY <3>1, FirstPlace, RestFirst DEF Todo
    <3>3. Height' = Height /\ Asked(1, 1)' = Asked(1, 1)
      BY <2>1, PlacesStay
    <3>4. AtPlace(1, 1)'
      BY <2>1, <2>4, <3>2, <3>3 DEF AtPlace
    <3>5. Asked(1, 1) = {}
      BY <3>1, SpentAtEnds DEF Asked
    <3>6. PICK n : n = Height
      OBVIOUS
    <3>7. Carries(n, {})
      BY <2>2, <2>4, NothingCarries
    <3>8. Carries(n, {})'
      BY <2>1, <3>7, ChannelsStay
    <3> QED BY <3>3, <3>4, <3>5, <3>6, <3>8
  <2>5. (NoRequests' <=> NoRequests) /\ (Channels' <=> Channels)
    BY <2>1, ChannelsStay
  <2> QED BY <1>1, <2>1, <2>3, <2>4, <2>5 DEF Orderly
<1>9. CASE Request
  <2>1. pc = "request" /\ todo # << >> /\ pc' = "request" /\ Setup
    BY <1>9 DEF Request, Goto, config
  <2>2. indexAddresses
    BY <1>1, <2>1 DEF Orderly
  <2>3. setting => Channels' /\ \E a, b : AtPlace(a, b)' /\ Carries(Height, Asked(a, b))'
    BY <1>9, <2>2, RequestOrder
  <2> QED BY <2>1, <2>2, <2>3 DEF Orderly
<1>10. CASE RequestFails
  BY <1>5, <1>10 DEF RequestFails, Goto
<1>11. CASE Requested
  <2>1. /\ pc = "request" /\ todo = << >> /\ pc' = "receive" /\ Setup
        /\ todo' = IF setting THEN Todo ELSE << >>
        /\ UNCHANGED <<wtx, cache>> /\ UNCHANGED channels
    BY <1>11 DEF Requested, Goto, config
  <2>2. ASSUME indexAddresses, setting
        PROVE  AtPlace(1, 1)' /\ Carries(Height, Awaited(1, 1))'
    <3>1. Height \in DOMAIN Blocks
      BY <1>1, <2>1, HeightFacts DEF Types
    <3>2. PICK a, b : AtPlace(a, b) /\ Carries(Height, Asked(a, b))
      BY <1>1, <2>1, <2>2 DEF Orderly
    <3>3. a = Len(Blocks[Height]) + 1 /\ b = 1
      BY <2>1, <3>1, <3>2, Places
    <3>4. Asked(a, b) = Awaited(1, 1)
      BY <3>1, <3>3, SpentAtEnds DEF Asked, Awaited
    <3>5. IsPlace(Height, 1, 1) /\ Todo = Rest(Height, 1, 1)
      BY <3>1, FirstPlace, RestFirst DEF Todo
    <3>6. Height' = Height /\ Awaited(1, 1)' = Awaited(1, 1)
      BY <2>1, PlacesStay
    <3>7. AtPlace(1, 1)'
      BY <2>1, <2>2, <3>5, <3>6 DEF AtPlace
    <3> QED BY <2>1, <3>2, <3>4, <3>6, <3>7, ChannelsStay
  <2>3. (NoRequests' <=> NoRequests) /\ (Channels' <=> Channels)
    BY <2>1, ChannelsStay
  <2> QED BY <1>1, <2>1, <2>2, <2>3 DEF Orderly
<1>12. CASE SpendKnown \/ SpendFetched
  <2>1. AtInput /\ pc' = "receive" /\ Setup
    BY <1>12 DEF SpendKnown, SpendFetched, Goto, config
  <2>2. CASE indexAddresses
    BY <1>12, <2>1, <2>2, SpendOrder DEF Orderly
  <2>3. CASE ~indexAddresses
    <3>1. NoRequests
      BY <1>1, <2>3 DEF Orderly
    <3>2. UNCHANGED channels
      BY <1>12, <3>1 DEF SpendKnown, SpendFetched, NoRequests
    <3>3. NoRequests'
      BY <3>1, <3>2, ChannelsStay
    <3> QED BY <2>1, <2>3, <3>3 DEF Orderly
  <2> QED BY <2>2, <2>3
<1>13. CASE ReceiveFails
  BY <1>5, <1>13 DEF ReceiveFails, Goto
<1>14. CASE ListOutputs
  <2>1. pc = "receive" /\ pc' = "receive" /\ Setup /\ UNCHANGED channels
    BY <1>14 DEF ListOutputs, Goto, config
  <2>2. indexAddresses /\ setting =>
          Channels' /\ \E a, b : AtPlace(a, b)' /\ Carries(Height, Awaited(a, b))'
    BY <1>14, ListOrder
  <2>3. NoRequests' <=> NoRequests
    BY <2>1, ChannelsStay
  <2> QED BY <1>1, <2>1, <2>2, <2>3 DEF Orderly
<1>15. CASE EndBlock
  BY <1>4, <1>15, EndOrder DEF EndBlock, Goto, config
<1>16. CASE Commit
  BY <1>4, <1>16 DEF Commit, Goto, config
<1>17. CASE Finish
  <2>1. CASE uncommitted > 0
    BY <1>4, <1>17, <2>1 DEF Finish, Goto, config
  <2>2. CASE ~(uncommitted > 0)
    BY <1>5, <1>17, <2>2 DEF Finish, Goto
  <2> QED BY <2>1, <2>2
<1>18. CASE FetchThread \/ FetchFails
  <2>1. UNCHANGED <<setting, indexAddresses, wtx, pc, todo, cache>>
    BY <1>18, UpdaterStays
  <2>2. ~NoRequests
    BY <1>18, ThreadIdle
  <2>3. Height' = Height /\ \A a, b : /\ AtPlace(a, b)' <=> AtPlace(a, b)
                                      /\ Asked(a, b)' = Asked(a, b)
                                      /\ Awaited(a, b)' = Awaited(a, b)
    BY <2>1, PlacesStay
  <2>4. ASSUME NEW n, NEW S, Channels, setting, Carries(n, S)
        PROVE  Channels' /\ Carries(n, S)'
    BY <1>18, <2>4, ThreadCarries, FailureCarries
  <2>5. ASSUME indexAddresses, setting, pc \in {"request", "receive"} PROVE Channels'
    BY <1>1, <2>4, <2>5 DEF Orderly
  <2>6. ASSUME indexAddresses, setting, pc = "request"
        PROVE  \E a, b : AtPlace(a, b)' /\ Carries(Height, Asked(a, b))'
    <3>1. PICK a, b : AtPlace(a, b) /\ Carries(Height, Asked(a, b))
      BY <1>1, <2>6 DEF Orderly
    <3>2. PICK n, S : n = Height /\ S = Asked(a, b)
      OBVIOUS
    <3>3. Carries(n, S)'
      BY <1>1, <2>4, <2>6, <3>1, <3>2 DEF Orderly
    <3> QED BY <2>3, <3>1, <3>2, <3>3
  <2>7. ASSUME indexAddresses, setting, pc = "receive"
        PROVE  \E a, b : AtPlace(a, b)' /\ Carries(Height, Awaited(a, b))'
    <3>1. PICK a, b : AtPlace(a, b) /\ Carries(Height, Awaited(a, b))
      BY <1>1, <2>7 DEF Orderly
    <3>2. PICK n, S : n = Height /\ S = Awaited(a, b)
      OBVIOUS
    <3>3. Carries(n, S)'
      BY <1>1, <2>4, <2>7, <3>1, <3>2 DEF Orderly
    <3> QED BY <2>3, <3>1, <3>2, <3>3
  <2>8. pc \in {"idle", "block", "request", "receive", "commit", "panicked"}
    BY <1>1 DEF Types
  <2>9. indexAddresses
    BY <1>1, <2>2 DEF Orderly
  <2> QED BY <1>1, <2>1, <2>2, <2>5, <2>6, <2>7, <2>8, <2>9 DEF Orderly
<1>19. CASE Mine
  BY <1>2, <1>19 DEF Mine, config, updater
<1>20. CASE Restart
  BY <1>5, <1>20 DEF Restart
<1> QED
  BY <1>6, <1>7, <1>8, <1>9, <1>10, <1>11, <1>12, <1>13, <1>14, <1>15, <1>16, <1>17,
     <1>18, <1>19, <1>20 DEF Next, Update

\* Nothing is requested at the start.
LEMMA InitOrder == Init => QueueInv
<1> SUFFICES ASSUME Init PROVE QueueInv
  OBVIOUS
<1>1. NoRequests /\ pc = "idle"
  BY DEF Init, NoRequests
<1>2. Channels
  BY <1>1, NothingCarries
<1> QED BY <1>1, <1>2, InitTables DEF QueueInv, Orderly

\* What is on its way fits what is left of the block, always.
LEMMA QueueInvariant == Spec => []QueueInv
BY InitOrder, OrderStep, PTL DEF Spec

(***************************************************************************)
(* AnswerIsSpent, for every chain, size of a batch and number of parallel  *)
(* requests: the answer that is taken for an input is what it spends.      *)
(***************************************************************************)
THEOREM AnswersAreInOrder == Spec => []AnswerIsSpent
<1>1. QueueInv => AnswerIsSpent
  <2> SUFFICES ASSUME QueueInv, AtInput, ~Known, ~lagged, answers # << >>
               PROVE  Head(answers) = Input
    BY DEF AnswerIsSpent
  <2>1. indexAddresses
    BY DEF QueueInv, Orderly, NoRequests
  <2>2. PICK a, b : /\ Carries(Height, Awaited(a, b)) /\ Channels
                    /\ \A p \in Awaited(a, b) : ~Before(Height, p, Input)
                    /\ ~Known => Input \in Awaited(a, b)
    BY <2>1, NextAwaited
  <2>3. PICK n, S, x : n = Height /\ S = Awaited(a, b) /\ x = Input
    OBVIOUS
  <2>4. Carries(n, S) /\ x \in S /\ \A p \in S : ~Before(n, p, x)
    BY <2>2, <2>3
  <2>5. Head(answers) = x
    BY <2>2, <2>4, AnswerFits
  <2> QED BY <2>3, <2>5
<1> QED BY <1>1, QueueInvariant, PTL

(***************************************************************************)
(* NothingIsLeftOver: "Previous block did not consume all inputs" is never *)
(* said.                                                                   *)
(***************************************************************************)
THEOREM AssertionHolds == Spec => []NothingIsLeftOver
<1>1. QueueInv => NothingIsLeftOver
  BY DEF QueueInv, Orderly, NothingIsLeftOver
<1> QED BY <1>1, QueueInvariant, PTL

=============================================================================
