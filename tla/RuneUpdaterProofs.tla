------------------------- MODULE RuneUpdaterProofs -------------------------
(***************************************************************************)
(* Theorems about Runestone and RuneUpdater, for all transactions the chain*)
(* may hold and amounts of any width.                                      *)
(*                                                                         *)
(* First the codec: what is deciphered fits the transaction.  Then the     *)
(* types of RuneUpdater, the return of an input that was not converted, and*)
(* that its supplies follow SupplyCurve.  Then the outputs it keeps: rows  *)
(* of balances and the ends of the two chains are unspent outputs, one     *)
(* transaction mints in a block, and conversions of a block descend from   *)
(* one another.  Last the amounts it moves: in every loop of index_runes   *)
(* what the outputs hold, what the transaction has in hand and what is     *)
(* burned add up to the supply of each rune, and what a conversion is      *)
(* computed for is what its outputs are given.                             *)
(***************************************************************************)
EXTENDS RuneUpdater, ArithmeticProofs, SequenceTheorems

-----------------------------------------------------------------------------
(* The codec. *)

Integer == 0..(LotModulus - 1)

-----------------------------------------------------------------------------
(***************************************************************************)
(* Doubling an amount and adding the bit of its rune loses nothing, and    *)
(* fits in the integer it is written as (encipher's encoded_amt).          *)
(***************************************************************************)
LEMMA AmountIsDecoded ==
  ASSUME NEW e \in Edict, e.amount < HalfLot
  PROVE  /\ EncodedAmount(e) \in Nat
         /\ DecipheredEdict(EncodedAmount(e), e.output - 1) = e
<1>1. HalfLot \in Int
  BY LotAssumption DEF HalfLot
<1>2. /\ e.amount \in Nat
      /\ e.output \in Nat \ {0}
      /\ e.id \in {ID0, ID1}
      /\ e = [id |-> e.id, amount |-> e.amount, output |-> e.output]
  BY DEF Edict, Rune
<1>3. ID0 # ID1
  BY DEF ID0, ID1
<1>4. EncodedAmount(e) = 2 * e.amount + IdBit(e.id)
  BY <1>1, <1>2 DEF EncodedAmount
<1>5. IdBit(e.id) \in {0, 1} /\ (IdBit(e.id) = 0 <=> e.id = ID0)
  BY DEF IdBit
<1>6. /\ EncodedAmount(e) \in Nat
      /\ EncodedAmount(e) % 2 = IdBit(e.id)
      /\ EncodedAmount(e) \div 2 = e.amount
  BY <1>2, <1>4, <1>5
<1> QED
  BY <1>2, <1>3, <1>5, <1>6 DEF DecipheredEdict

(***************************************************************************)
(* encipher's `2 * edict.amount + encoded_id` never leaves a u128: an      *)
(* amount of half the width or more is lowered first.                      *)
(***************************************************************************)
THEOREM EncipherNeverOverflows ==
  ASSUME NEW e \in Edict, LotModulus >= 4
  PROVE  EncodedAmount(e) \in Integer
<1>1. HalfLot \in Nat /\ HalfLot >= 1 /\ 2 * HalfLot <= LotModulus - 1
  BY LotAssumption DEF HalfLot
<1>2. e.amount \in Nat /\ IdBit(e.id) \in {0, 1}
  BY DEF Edict, IdBit
<1> DEFINE amount == IF e.amount >= HalfLot THEN HalfLot - 1 ELSE e.amount
<1>3. amount \in Nat /\ amount <= HalfLot - 1
  BY <1>1, <1>2
<1>4. EncodedAmount(e) = 2 * amount + IdBit(e.id)
  BY DEF EncodedAmount
<1> HIDE DEF amount
<1> QED
  BY <1>1, <1>2, <1>3, <1>4, LotAssumption DEF Integer

-----------------------------------------------------------------------------
(***************************************************************************)
(* Whatever integers a transaction carries, what decipher makes of them    *)
(* points at outputs the transaction has and holds half the width of an    *)
(* amount: index_runes allocates edicts to outputs and adds their amounts  *)
(* relying on it (WellFormed in RuneUpdater).                              *)
(***************************************************************************)
THEOREM DecipheredFits ==
  ASSUME NEW n \in Nat, NEW payload \in Seq(Integer)
  PROVE  FitsOutputs(Decipher(n, payload), n)
<1> DEFINE edicts == DecipheredEdicts(payload)
           Amount(i) == payload[(Len(payload) % 2) + 2 * i - 1]
           Target(i) == payload[(Len(payload) % 2) + 2 * i]
<1>1. Len(payload) \in Nat /\ \A k \in 1..Len(payload) : payload[k] \in Integer
  BY ElementOfSeq, LenProperties
<1>2. \A k \in 1..Len(payload) : payload[k] \in Nat /\ payload[k] < LotModulus
  BY <1>1, LotAssumption DEF Integer
<1>3. DOMAIN edicts = 1..(Len(payload) \div 2)
  BY DEF DecipheredEdicts
<1>4. ASSUME NEW i \in DOMAIN edicts
      PROVE  /\ edicts[i].output = Target(i) + 1
             /\ edicts[i].amount = Amount(i) \div 2
             /\ Amount(i) \in Nat /\ Amount(i) < LotModulus
             /\ Target(i) \in Nat
  <2>1. /\ (Len(payload) % 2) + 2 * i - 1 \in 1..Len(payload)
        /\ (Len(payload) % 2) + 2 * i \in 1..Len(payload)
    BY <1>1, <1>3
  <2>2. edicts[i] = DecipheredEdict(Amount(i), Target(i))
    BY <1>3 DEF DecipheredEdicts
  <2> QED
    BY <1>2, <2>1, <2>2 DEF DecipheredEdict
<1>5. CASE \A i \in DOMAIN edicts : edicts[i].output <= n + 1
  <2>1. Decipher(n, payload) = [kind |-> "runestone", edicts |-> edicts,
                                pointer |-> DecipheredPointer(n, payload)]
    BY <1>5 DEF Decipher
  <2>2. DecipheredPointer(n, payload) \in 0..n
    <3>1. CASE HasPointer(payload) /\ payload[1] < n
      <4>1. 1 \in 1..Len(payload)
        BY <1>1, <3>1 DEF HasPointer
      <4>2. payload[1] \in Nat
        BY <1>2, <4>1
      <4> QED
        BY <3>1, <4>2 DEF DecipheredPointer
    <3> QED
      BY <3>1 DEF DecipheredPointer
  <2>3. ASSUME NEW i \in DOMAIN edicts
        PROVE  /\ edicts[i].output \in 1..(n + 1)
               /\ edicts[i].amount * 2 < LotModulus
    <3> HIDE DEF edicts, Amount, Target
    <3>1. edicts[i].output \in Nat \ {0} /\ edicts[i].output <= n + 1
      BY <1>4, <1>5
    <3>2. edicts[i].amount * 2 <= Amount(i)
      BY <1>4
    <3>3. edicts[i].amount \in Nat
      BY <1>4
    <3> QED
      BY <1>4, <3>1, <3>2, <3>3, LotAssumption
  <2> HIDE DEF edicts
  <2> QED
    BY <2>1, <2>2, <2>3 DEF FitsOutputs
<1>6. CASE ~ \A i \in DOMAIN edicts : edicts[i].output <= n + 1
  BY <1>6 DEF Decipher, Cenotaph, FitsOutputs
<1> QED
  BY <1>5, <1>6

-----------------------------------------------------------------------------
(***************************************************************************)
(* The assertion of mint, send and convert that a transaction deciphers to *)
(* the runestone it was made from (mint.rs:157, send.rs:274,               *)
(* convert.rs:670) cannot fail when the amounts are below half of a u128.  *)
(* The parity of the payload tells the pointer from the first amount.      *)
(***************************************************************************)
THEOREM DecipherOfEncipher ==
  ASSUME NEW stone \in Artifact, NEW n \in Nat,
         stone.kind = "runestone",
         FitsOutputs(stone, n),
         \A i \in DOMAIN stone.edicts : stone.edicts[i].amount < HalfLot
  PROVE  Decipher(n, Encipher(stone)) = stone
<1> DEFINE m == Len(stone.edicts)
           head == PointerIntegers(stone)
           tail == [k \in 1..(2 * m) |->
                      LET e == stone.edicts[(k + 1) \div 2]
                      IN  IF k % 2 = 1 THEN EncodedAmount(e) ELSE e.output - 1]
           payload == Encipher(stone)
           offset == Len(payload) % 2
<1>1. /\ stone.edicts \in Seq(Edict)
      /\ stone.pointer \in 0..n
      /\ stone = [kind |-> "runestone", edicts |-> stone.edicts,
                  pointer |-> stone.pointer]
  BY DEF Artifact, FitsOutputs
<1>2. /\ m \in Nat
      /\ DOMAIN stone.edicts = 1..m
      /\ \A i \in 1..m : stone.edicts[i] \in Edict
  BY <1>1, ElementOfSeq, LenProperties
<1>3. ASSUME NEW i \in 1..m
      PROVE  /\ tail[2 * i - 1] = EncodedAmount(stone.edicts[i])
             /\ tail[2 * i] = stone.edicts[i].output - 1
  <2>1. /\ 2 * i - 1 \in 1..(2 * m) /\ 2 * i \in 1..(2 * m)
        /\ ((2 * i - 1) + 1) \div 2 = i /\ (2 * i + 1) \div 2 = i
        /\ (2 * i - 1) % 2 = 1 /\ (2 * i) % 2 = 0
    BY <1>2
  <2> QED
    BY <2>1
<1>4. /\ tail \in Seq(Nat)
      /\ Len(tail) = 2 * m
  <2>1. ASSUME NEW k \in 1..(2 * m)
        PROVE  tail[k] \in Nat
    <3>1. (k + 1) \div 2 \in 1..m
      BY <1>2
    <3> DEFINE e == stone.edicts[(k + 1) \div 2]
    <3>2. e \in Edict /\ e.amount < HalfLot
      BY <1>2, <3>1
    <3>3. EncodedAmount(e) \in Nat
      BY <3>2, AmountIsDecoded
    <3>4. e.output - 1 \in Nat
      BY <3>2 DEF Edict
    <3>5. tail[k] = IF k % 2 = 1 THEN EncodedAmount(e) ELSE e.output - 1
      OBVIOUS
    <3> QED
      BY <3>3, <3>4, <3>5
  <2>2. tail \in [1..(2 * m) -> Nat]
    BY <2>1
  <2> HIDE DEF tail
  <2> QED
    BY <1>2, <2>2
<1>5. head \in Seq(Nat) /\ Len(head) \in {0, 1} /\ (Len(head) = 0 <=> stone.pointer = 0)
      /\ (stone.pointer # 0 => head[1] = stone.pointer - 1)
  BY <1>1 DEF PointerIntegers
<1>6. payload = head \o tail
  BY DEF Encipher
<1>7. Len(payload) % 2 = offset
  OBVIOUS
<1>8. payload = Encipher(stone)
  OBVIOUS
<1> HIDE DEF m, head, tail, payload, offset
<1>9. /\ Len(payload) = Len(head) + 2 * m
      /\ \A k \in 1..(Len(head) + 2 * m) :
           payload[k] = IF k <= Len(head) THEN head[k] ELSE tail[k - Len(head)]
  BY <1>4, <1>5, <1>6, ConcatProperties
<1>10. /\ Len(head) + 2 * m \in Nat
       /\ (Len(head) + 2 * m) % 2 = Len(head)
       /\ (Len(head) + 2 * m) \div 2 = m
  <2>1. CASE Len(head) = 0
    BY <1>2, <2>1
  <2>2. CASE Len(head) = 1
    BY <1>2, <2>2
  <2> QED
    BY <1>5, <2>1, <2>2
<1>11. offset = Len(head) /\ Len(payload) \div 2 = m
  BY <1>7, <1>9, <1>10
<1>12. DecipheredPointer(n, payload) = stone.pointer
  <2>1. CASE stone.pointer = 0
    <3>1. Len(payload) % 2 = 0
      BY <1>5, <1>7, <1>11, <2>1
    <3>2. ~ HasPointer(payload)
      BY <3>1 DEF HasPointer
    <3> QED
      BY <2>1, <3>2 DEF DecipheredPointer
  <2>2. CASE stone.pointer # 0
    <3>1. HasPointer(payload)
      BY <1>5, <1>7, <1>11, <2>2 DEF HasPointer
    <3>2. payload[1] = stone.pointer - 1
      BY <1>2, <1>5, <1>9, <2>2
    <3>3. payload[1] < n /\ payload[1] + 1 = stone.pointer
      BY <1>1, <2>2, <3>2
    <3> QED
      BY <3>1, <3>3 DEF DecipheredPointer
  <2> QED
    BY <2>1, <2>2
<1>13. DecipheredEdicts(payload) = stone.edicts
  <2>1. ASSUME NEW i \in 1..m
        PROVE  DecipheredEdict(payload[offset + 2 * i - 1], payload[offset + 2 * i])
                 = stone.edicts[i]
    <3> DEFINE e == stone.edicts[i]
    <3>1. /\ offset + 2 * i - 1 \in 1..(Len(head) + 2 * m)
          /\ offset + 2 * i \in 1..(Len(head) + 2 * m)
          /\ ~ (offset + 2 * i - 1 <= Len(head))
          /\ ~ (offset + 2 * i <= Len(head))
          /\ (offset + 2 * i - 1) - Len(head) = 2 * i - 1
          /\ (offset + 2 * i) - Len(head) = 2 * i
      BY <1>2, <1>5, <1>11
    <3>2. /\ payload[offset + 2 * i - 1] = tail[2 * i - 1]
          /\ payload[offset + 2 * i] = tail[2 * i]
      BY <1>9, <3>1
    <3>3. /\ payload[offset + 2 * i - 1] = EncodedAmount(e)
          /\ payload[offset + 2 * i] = e.output - 1
      BY <1>3, <3>2
    <3>4. e \in Edict /\ e.amount < HalfLot
      BY <1>2
    <3> QED
      BY <3>3, <3>4, AmountIsDecoded
  <2>2. DecipheredEdicts(payload)
          = [i \in 1..m |-> DecipheredEdict(payload[offset + 2 * i - 1],
                                            payload[offset + 2 * i])]
    BY <1>7, <1>11 DEF DecipheredEdicts
  <2>3. stone.edicts = [i \in 1..m |-> stone.edicts[i]]
    BY <1>1, <1>2, LenProperties
  <2> QED
    BY <2>1, <2>2, <2>3
<1> QED
  <2>1. \A i \in DOMAIN stone.edicts : stone.edicts[i].output <= n + 1
    BY <1>2 DEF FitsOutputs, Edict
  <2> QED
    BY <1>1, <1>8, <1>12, <1>13, <2>1 DEF Decipher

-----------------------------------------------------------------------------
(* Small facts the types of the actions rest on. *)

(***************************************************************************)
(* The least number of a nonempty set, the first output of a kind, exists. *)
(***************************************************************************)
LEMMA MinExists ==
  ASSUME NEW S \in SUBSET Nat, S # {}
  PROVE  Min(S) \in S /\ \A n \in S : Min(S) <= n
<1>1. \E r \in S : \A n \in S : r <= n
  BY LeastNatural
<1> QED
  BY <1>1, Zenon DEF Min

(***************************************************************************)
(* The amounts a map has before anything is added to it.                   *)
(***************************************************************************)
LEMMA ZeroType == Zero \in [Rune -> Nat]
  BY DEF Zero

(***************************************************************************)
(* The locals of index_runes when no transaction is being indexed.         *)
(***************************************************************************)
LEMMA NoTxType ==
  /\ NoTx \in Tx
  /\ Len(NoTx.outputs) = 0
<1>1. << >> \in Seq(Output) /\ << >> \in Seq(Edict) /\ Len(<< >>) = 0
  BY EmptySeq
<1>2. NoArtifact \in Artifact
  BY <1>1 DEF NoArtifact, Artifact
<1> QED
  BY <1>1, <1>2 DEF NoTx, Tx

\* Without a transaction there are no outputs, so the empty sequence is a map of them.
LEMMA NoLocals ==
  ASSUME NEW S
  PROVE  << >> \in [1..Len(NoTx.outputs) -> S]
<1>1. Len(NoTx.outputs) = 0 /\ << >> \in Seq(S) /\ Len(<< >>) = 0
  BY NoTxType, EmptySeq
<1>2. << >> \in [1..Len(<< >>) -> S]
  BY <1>1, LenProperties
<1> QED
  BY <1>1, <1>2

(***************************************************************************)
(* The outputs of the transaction being indexed, and its edicts.           *)
(***************************************************************************)
LEMMA OutputsType ==
  ASSUME tx \in Tx
  PROVE  /\ Len(tx.outputs) \in Nat
         /\ Vouts \subseteq Nat \ {0}
         /\ \A v \in Vouts : tx.outputs[v] \in Output
         /\ \A i \in DOMAIN Edicts : Edicts[i] \in Edict
<1>1. tx.outputs \in Seq(Output) /\ Edicts \in Seq(Edict)
  BY DEF Tx, Artifact, Edicts
<1>2. Len(tx.outputs) \in Nat /\ DOMAIN Edicts = 1..Len(Edicts)
  BY <1>1, LenProperties
<1>3. \A v \in 1..Len(tx.outputs) : tx.outputs[v] \in Output
  BY <1>1, ElementOfSeq
<1>4. \A i \in 1..Len(Edicts) : Edicts[i] \in Edict
  BY <1>1, ElementOfSeq
<1> QED
  BY <1>2, <1>3, <1>4 DEF Vouts

(***************************************************************************)
(* The first output of a chain's script is an output of the transaction,   *)
(* and a chain without one has no end (update_outpoints, mint).            *)
(***************************************************************************)
LEMMA FirstOutpointType ==
  ASSUME tx \in Tx, NEW c \in StateChange
  PROVE  /\ FirstOutpoint(c) \in Outpoint
         /\ FirstValue(c) \in Nat
         /\ ChainOutputs(c) # {} => Min(ChainOutputs(c)) \in ChainOutputs(c)
<1>1. ChainOutputs(c) \in SUBSET Nat /\ ChainOutputs(c) \subseteq Vouts
  BY OutputsType DEF ChainOutputs
<1>2. ChainOutputs(c) # {} => Min(ChainOutputs(c)) \in ChainOutputs(c)
  BY <1>1, MinExists
<1>3. ASSUME ChainOutputs(c) # {}
      PROVE  Min(ChainOutputs(c)) \in Nat /\ tx.outputs[Min(ChainOutputs(c))].value \in Nat
  BY <1>1, <1>2, <1>3, OutputsType DEF Output
<1>4. tx.txid \in Nat
  BY DEF Tx
<1> QED
  BY <1>2, <1>3, <1>4 DEF FirstOutpoint, FirstValue, Null, Outpoint

(***************************************************************************)
(* A set of outputs of the transaction is counted by a natural number,     *)
(* zero only if it is empty.                                               *)
(***************************************************************************)
LEMMA CountOutputs ==
  ASSUME tx \in Tx, NEW D \in SUBSET Vouts
  PROVE  Cardinality(D) \in Nat /\ (Cardinality(D) = 0 <=> D = {})
<1>1. IsFiniteSet(Vouts)
  BY OutputsType, FS_Interval DEF Vouts
<1>2. IsFiniteSet(D)
  BY <1>1, FS_Subset
<1> QED
  BY <1>2, FS_CardinalityType, FS_EmptySet

(***************************************************************************)
(* What an edict gives out is natural, and no more than the balance: the   *)
(* subtraction from unallocated is one of u128 that cannot wrap.           *)
(***************************************************************************)
EffectType(e, effect, balance) ==
  /\ effect.give \in [Vouts -> Nat]
  /\ effect.want \in [Vouts -> Nat]
  /\ effect.wanted \in Nat
  /\ effect.given \in 0..balance

\* No output is given anything, which is an amount for each.
LEMMA NothingType == Nothing \in [Vouts -> Nat]
  BY DEF Nothing

\* The effects of an edict are amounts: an edict of a rune that is not held.
LEMMA UnheldEffectType ==
  ASSUME tx \in Tx, NEW e \in Edict, NEW balance \in Nat
  PROVE  EffectType(e, UnheldEffect(e), balance)
<1> DEFINE targets == IF ToEach(e) THEN ValidDestinations ELSE {e.output}
<1>1. e.amount \in Nat
  BY DEF Edict
<1>2. (e.amount * Cardinality(targets)) % LotModulus \in Nat \/ ~ToEach(e)
  <2>1. CASE ToEach(e)
    <3>1. targets \in SUBSET Vouts
      BY <2>1 DEF ValidDestinations
    <3>2. Cardinality(targets) \in Nat
      BY <3>1, CountOutputs
    <3>3. e.amount * Cardinality(targets) \in Nat
      BY <1>1, <3>2
    <3> QED
      BY <3>3, LotAssumption
  <2> QED
    BY <2>1
<1> HIDE DEF targets
<1>3. [v \in Vouts |-> IF v \in targets THEN e.amount ELSE 0] \in [Vouts -> Nat]
  BY <1>1
<1>4. UnheldEffect(e).give \in [Vouts -> Nat] /\ UnheldEffect(e).given = 0
  BY NothingType DEF UnheldEffect
<1>5. UnheldEffect(e).want \in [Vouts -> Nat]
  BY <1>3 DEF UnheldEffect, targets
<1>6. UnheldEffect(e).wanted \in Nat
  BY <1>1, <1>2 DEF UnheldEffect, targets
<1> QED
  BY <1>4, <1>5, <1>6 DEF EffectType

\* An edict of the amount zero to every destination.
LEMMA SplitEffectType ==
  ASSUME tx \in Tx, NEW e \in Edict, NEW balance \in Nat
  PROVE  EffectType(e, SplitEffect(balance), balance)
<1> DEFINE n == Cardinality(ValidDestinations)
           part(v) == (balance \div n) +
                      (IF Rank(v, ValidDestinations) < balance % n THEN 1 ELSE 0)
           give == [v \in Vouts |-> IF v \in ValidDestinations THEN part(v) ELSE 0]
<1>1. ValidDestinations \in SUBSET Vouts
  BY DEF ValidDestinations
<1>2. n \in Nat /\ (n = 0 <=> ValidDestinations = {})
  BY <1>1, CountOutputs
<1>3. ASSUME NEW v \in ValidDestinations
      PROVE  part(v) \in Nat
  <2>1. n \in Nat \ {0}
    BY <1>2, <1>3
  <2> HIDE DEF n
  <2>2. balance \div n \in Nat
    BY <2>1, DivisionType
  <2> QED
    BY <2>2
<1> HIDE DEF part
<1>4. give \in [Vouts -> Nat]
  BY <1>3
<1>5. SplitEffect(balance) = [give |-> give, given |-> IF n = 0 THEN 0 ELSE balance,
                              want |-> Nothing, wanted |-> 0]
  BY DEF SplitEffect, part
<1> HIDE DEF give, n
<1> QED
  BY <1>4, <1>5, NothingType DEF EffectType

\* An edict of an amount to every destination.
LEMMA EachEffectType ==
  ASSUME tx \in Tx, NEW e \in Edict, NEW balance \in Nat
  PROVE  EffectType(e, EachEffect(e, balance), balance)
<1> DEFINE before(v) == e.amount * Rank(v, ValidDestinations)
           part(v) == Smaller(e.amount, Excess(balance, before(v)))
           total == e.amount * Cardinality(ValidDestinations)
           give == [v \in Vouts |-> IF v \in ValidDestinations THEN part(v) ELSE 0]
           want == [v \in Vouts |-> IF v \in ValidDestinations
                                    THEN e.amount - part(v) ELSE 0]
<1>1. e.amount \in Nat
  BY DEF Edict
<1>2. total \in Nat
  <2>1. Cardinality(ValidDestinations) \in Nat
    BY CountOutputs DEF ValidDestinations
  <2> QED
    BY <1>1, <2>1
<1>3. ASSUME NEW v \in ValidDestinations
      PROVE  part(v) \in 0..e.amount
  <2>1. Rank(v, ValidDestinations) \in Nat
    <3>1. {w \in ValidDestinations : w < v} \in SUBSET Vouts
      BY DEF ValidDestinations
    <3> QED
      BY <3>1, CountOutputs DEF Rank
  <2>2. before(v) \in Nat
    BY <1>1, <2>1
  <2> HIDE DEF before
  <2> QED
    BY <1>1, <2>2 DEF Smaller, Excess
<1>4. EachEffect(e, balance)
        = [give |-> give, given |-> Smaller(balance, total),
           want |-> want, wanted |-> Excess(total, balance)]
  BY DEF EachEffect
<1> HIDE DEF part, total
<1>5. give \in [Vouts -> Nat] /\ want \in [Vouts -> Nat]
  BY <1>1, <1>3
<1> HIDE DEF give, want
<1>6. Smaller(balance, total) \in 0..balance /\ Excess(total, balance) \in Nat
  BY <1>2 DEF Smaller, Excess
<1> QED
  BY <1>4, <1>5, <1>6 DEF EffectType

\* An edict to one output.
LEMMA SingleEffectType ==
  ASSUME tx \in Tx, NEW e \in Edict, NEW balance \in Nat
  PROVE  EffectType(e, SingleEffect(e, balance), balance)
<1> DEFINE amount == IF e.amount = 0 THEN balance ELSE Smaller(e.amount, balance)
           excess == Excess(e.amount, balance)
<1>1. amount \in 0..balance /\ excess \in Nat
  BY DEF Edict, Smaller, Excess
<1>2. SingleEffect(e, balance)
        = [give |-> [Nothing EXCEPT ![e.output] = amount], given |-> amount,
           want |-> [Nothing EXCEPT ![e.output] = excess], wanted |-> excess]
  BY DEF SingleEffect
<1> HIDE DEF amount, excess
<1>3. ASSUME NEW n \in Nat
      PROVE  [Nothing EXCEPT ![e.output] = n] \in [Vouts -> Nat]
  BY NothingType
<1>4. amount \in Nat
  BY <1>1
<1> QED
  BY <1>1, <1>2, <1>3, <1>4 DEF EffectType

\* Every edict gives natural amounts, and no more than is unallocated.
LEMMA EdictEffectType ==
  ASSUME tx \in Tx, unallocated \in [Rune -> Nat], NEW e \in Edict
  PROVE  EffectType(e, Effect(e), unallocated[e.id])
<1>1. unallocated[e.id] \in Nat
  BY DEF Edict
<1> QED
  BY <1>1, UnheldEffectType, SplitEffectType, EachEffectType, SingleEffectType DEF Effect

-----------------------------------------------------------------------------
(* The types, action by action. *)

(***************************************************************************)
(* A block that begins issues natural amounts (update_supply).             *)
(***************************************************************************)
LEMMA IssuedType ==
  ASSUME TypeOK, height \in FirstRuneHeight..MaxHeight
  PROVE  Issued \in [Rune -> Entry]
<1> DEFINE s0 == entries[ID0].supply
           s1 == entries[ID1].supply
           reward == Reward(height)
           share == [r \in Rune |-> IF r = ID0 THEN RewardShare0(s0, s1, reward)
                                               ELSE RewardShare1(s0, s1, reward)]
<1>1. entries \in [Rune -> Entry] /\ ID0 \in Rune /\ ID1 \in Rune
  BY DEF TypeOK, TablesType, Rune
<1>2. s0 \in Nat /\ s1 \in Nat /\ reward \in Nat
  BY <1>1, RewardAssumption DEF Entry
<1> HIDE DEF s0, s1, reward
<1>3. share \in [Rune -> Nat]
  BY <1>2, RewardShareType
<1>4. Issued = IF reward = 0
               THEN entries
               ELSE [r \in Rune |-> [supply |-> entries[r].supply + share[r],
                                     burned |-> entries[r].burned + share[r],
                                     mints  |-> entries[r].mints + 1]]
  BY DEF Issued, s0, s1, reward
<1> HIDE DEF share
<1> QED
  BY <1>1, <1>3, <1>4 DEF Entry

\* Each action keeps the types: update_supply.
LEMMA BeginBlockType ==
  ASSUME TypeOK, FirstRuneHeight <= height, BeginBlock
  PROVE  TypeOK'
<1>1. height \in FirstRuneHeight..MaxHeight
  BY BoundAssumption DEF TypeOK, BlockType, BeginBlock, BlockAllowed
<1>2. TablesType'
  BY <1>1, IssuedType DEF TypeOK, TablesType, BeginBlock
<1>3. BlockType'
  BY DEF TypeOK, BlockType, BeginBlock, Phases
<1>4. TransactionType'
  BY DEF TypeOK, TransactionType, BeginBlock, allocation, conversion, Vouts
<1> QED
  BY <1>2, <1>3, <1>4 DEF TypeOK

\* update_burned.
LEMMA EndBlockType ==
  ASSUME TypeOK, EndBlock
  PROVE  TypeOK'
<1>1. entries' \in [Rune -> Entry]
  BY DEF TypeOK, TablesType, BlockType, EndBlock, UpdateBurned, Entry
<1>2. TablesType'
  BY <1>1 DEF TypeOK, TablesType, EndBlock
<1>3. BlockType'
  BY ZeroType DEF TypeOK, BlockType, EndBlock, UpdateBurned, chain, history, Phases
<1>4. TransactionType'
  BY DEF TypeOK, TransactionType, EndBlock, allocation, conversion, Vouts
<1> QED
  BY <1>2, <1>3, <1>4 DEF TypeOK

\* A transaction that is taken is one of the templates with inputs.
LEMMA NextTransactionType ==
  ASSUME TypeOK, NextTransaction
  PROVE  TypeOK'
<1>1. PICK t \in Templates[nextTxid], spent \in InputSets :
        nextTxid <= MaxTxs /\ TakeTransaction(t, spent)
  BY DEF NextTransaction
<1>2. nextTxid \in Nat \ {0} /\ nextTxid \in 1..MaxTxs
  BY <1>1, BoundAssumption DEF TypeOK, BlockType
<1>3. t \in Template
  BY <1>2, TemplateAssumption
<1>4. /\ t.coinbase \in BOOLEAN /\ t.rbf \in BOOLEAN
      /\ t.outputs \in Seq(Output) /\ t.artifact \in Artifact
  BY <1>3 DEF Template
<1>5. Len(t.outputs) \in Nat /\ \A v \in 1..Len(t.outputs) : t.outputs[v] \in Output
  BY <1>4, LenProperties, ElementOfSeq
<1>6. spent \subseteq utxos /\ spent \subseteq Unspent
  BY DEF InputSets, Spendable, TypeOK, BlockType
<1>7. {u.at : u \in spent} \subseteq Outpoint
  BY <1>6 DEF Unspent
<1>8. tx' \in Tx /\ tx'.outputs = t.outputs
  BY <1>1, <1>2, <1>4, <1>7 DEF TakeTransaction, Take, Tx
<1>9. TablesType'
  BY <1>1 DEF TypeOK, TablesType, TakeTransaction, Take, tables
<1>10. utxos' \subseteq Unspent
  <2>1. ASSUME NEW v \in 1..Len(t.outputs)
        PROVE  [at |-> [txid |-> nextTxid, vout |-> v],
                script |-> t.outputs[v].script, value |-> t.outputs[v].value,
                height |-> height, coinbase |-> t.coinbase] \in Unspent
    BY <1>2, <1>4, <1>5, <2>1 DEF Unspent, Outpoint, Output, TypeOK, BlockType
  <2>2. utxos \subseteq Unspent
    BY DEF TypeOK, BlockType
  <2> QED
    BY <1>1, <2>1, <2>2 DEF TakeTransaction, Take
<1>11. nextTxid' \in Nat \ {0} /\ lineage' \subseteq Nat
  BY <1>1, <1>2 DEF TypeOK, BlockType, TakeTransaction, Take
<1>12. BlockType'
  BY <1>1, <1>10, <1>11 DEF TypeOK, BlockType, TakeTransaction, Take, Phases
<1>13. /\ allocated' \in [Vouts' -> [Rune -> Nat]]
       /\ allocatedConversion' \in [Vouts' -> [Rune -> Nat]]
  BY <1>1, <1>8, ZeroType DEF TakeTransaction, Take, Vouts
<1>14. pending' \subseteq Outpoint /\ cursor' \in Nat
  BY <1>1, <1>7 DEF TakeTransaction, Take
<1>15. TransactionType'
  BY <1>1, <1>8, <1>13, <1>14 DEF TypeOK, TransactionType, TakeTransaction, Take
<1> QED
  BY <1>9, <1>12, <1>15 DEF TypeOK

\* unallocated.
LEMMA TakeInputType ==
  ASSUME TypeOK, NEW o \in pending, TakeInput(o)
  PROVE  TypeOK'
<1>1. /\ DOMAIN balances \subseteq Outpoint
      /\ \A p \in DOMAIN balances : balances[p] \in [Rune -> Nat]
      /\ unallocated \in [Rune -> Nat]
      /\ entered \subseteq Rune
  BY DEF TypeOK, TablesType, TransactionType
<1>2. /\ DOMAIN balances' \subseteq Outpoint
      /\ \A p \in DOMAIN balances' : balances'[p] \in [Rune -> Nat]
      /\ unallocated' \in [Rune -> Nat]
      /\ entered' \subseteq Rune
  <2>1. CASE o \in DOMAIN balances
    BY <1>1, <2>1 DEF TakeInput, WithoutRow
  <2>2. CASE o \notin DOMAIN balances
    BY <1>1, <2>2 DEF TakeInput
  <2> QED
    BY <2>1, <2>2
<1>3. TablesType'
  BY <1>2 DEF TypeOK, TablesType, TakeInput
<1>4. BlockType'
  BY DEF TypeOK, BlockType, TakeInput, chain, history
<1>5. TransactionType'
  BY <1>2 DEF TypeOK, TransactionType, TakeInput, conversion, Vouts
<1> QED
  BY <1>3, <1>4, <1>5 DEF TypeOK

\* update_outpoints, the first time.
LEMMA CreateOutpointsType ==
  ASSUME TypeOK, CreateOutpoints
  PROVE  TypeOK'
<1>1. TablesType'
  BY DEF TypeOK, TablesType, CreateOutpoints, Null, Outpoint
<1>2. BlockType'
  BY DEF TypeOK, BlockType, CreateOutpoints, chain, history, Phases
<1>3. TransactionType'
  BY DEF TypeOK, TransactionType, CreateOutpoints, allocation, conversion, Vouts
<1> QED
  BY <1>1, <1>2, <1>3 DEF TypeOK

\* update_outpoints.
LEMMA MoveOutpointsType ==
  ASSUME TypeOK, MoveOutpoints
  PROVE  TypeOK'
<1>1. tx \in Tx
  BY DEF TypeOK, TransactionType
<1>2. lastOutpoint' \in [StateChange -> Outpoint] /\ lastValue' \in [StateChange -> Nat]
  BY <1>1, FirstOutpointType DEF TypeOK, TablesType, MoveOutpoints
<1>3. TablesType'
  BY <1>2 DEF TypeOK, TablesType, MoveOutpoints
<1>4. BlockType'
  BY DEF TypeOK, BlockType, MoveOutpoints, chain, history, Phases
<1>5. TransactionType'
  BY DEF TypeOK, TransactionType, MoveOutpoints, allocation, conversion, Vouts
<1> QED
  BY <1>3, <1>4, <1>5 DEF TypeOK

\* mint.
LEMMA MintType ==
  ASSUME TypeOK, Mint
  PROVE  TypeOK'
<1>1. tx \in Tx /\ tx.txid \in Nat
  BY DEF TypeOK, TransactionType, Tx
<1>2. "mint" \in StateChange
  BY DEF StateChange
<1>3. lastOutpoint' \in [StateChange -> Outpoint] /\ lastValue' \in [StateChange -> Nat]
  BY <1>1, <1>2, FirstOutpointType DEF TypeOK, TablesType, Mint
<1>4. entries' \in [Rune -> Entry]
  BY DEF TypeOK, TablesType, Mint, Entry
<1>5. unallocated' \in [Rune -> Nat]
  <2>1. \A r \in Rune : MintPot(r) \in Nat
    BY DEF TypeOK, TablesType, BlockType, Entry, MintPot
  <2> QED
    BY <2>1 DEF TypeOK, TransactionType, Mint
<1>6. TablesType'
  BY <1>3, <1>4 DEF TypeOK, TablesType, Mint
<1>7. BlockType'
  BY <1>1, ZeroType DEF TypeOK, BlockType, Mint, chain, Phases
<1>8. TransactionType'
  BY <1>5 DEF TypeOK, TransactionType, Mint, conversion, Vouts
<1> QED
  BY <1>6, <1>7, <1>8 DEF TypeOK

(***************************************************************************)
(* Steps that change pc only: a mint that is not allowed, a conversion     *)
(* that is refused, a sum that leaves the width of a Lot.                  *)
(***************************************************************************)
LEMMA NoChangeType ==
  ASSUME TypeOK, NoMint \/ OverflowEdict \/ RefuseConversion
  PROVE  TypeOK'
<1> USE DEF NoMint, OverflowEdict, RefuseConversion
<1>1. TablesType'
  BY DEF TypeOK, TablesType, tables
<1>2. BlockType'
  BY DEF TypeOK, BlockType, chain, history, Phases
<1>3. TransactionType'
  BY DEF TypeOK, TransactionType, allocation, conversion, Vouts
<1> QED
  BY <1>1, <1>2, <1>3 DEF TypeOK

\* The edict loop: what is given was unallocated, so no amount becomes negative.
LEMMA ApplyEdictType ==
  ASSUME TypeOK, ApplyEdict
  PROVE  TypeOK'
<1> DEFINE e == Edicts[cursor]
           effect == Effect(e)
<1>1. tx \in Tx /\ unallocated \in [Rune -> Nat] /\ cursor \in DOMAIN Edicts
  BY DEF TypeOK, TransactionType, ApplyEdict
<1>2. e \in Edict /\ e.id \in Rune
  BY <1>1, OutputsType DEF Edict
<1>3. EffectType(e, effect, unallocated[e.id])
  BY <1>1, <1>2, EdictEffectType
<1>4. /\ effect.give \in [Vouts -> Nat]
      /\ effect.want \in [Vouts -> Nat]
      /\ effect.wanted \in Nat
      /\ effect.given \in 0..unallocated[e.id]
  BY <1>3 DEF EffectType
<1>5. /\ cursor' = cursor + 1
      /\ lastId' = e.id
      /\ unallocated' = [unallocated EXCEPT ![e.id] = @ - effect.given]
      /\ allocated' = [v \in Vouts |->
                         [allocated[v] EXCEPT ![e.id] = @ + effect.give[v]]]
      /\ converted' = [converted EXCEPT ![e.id] = @ + effect.wanted]
      /\ allocatedConversion' =
           [v \in Vouts |->
              [allocatedConversion[v] EXCEPT ![e.id] = @ + effect.want[v]]]
  BY DEF ApplyEdict
<1> HIDE DEF e, effect
<1>6. unallocated' \in [Rune -> Nat] /\ converted' \in [Rune -> Nat]
  BY <1>2, <1>4, <1>5 DEF TypeOK, TransactionType
<1>7. allocated' \in [Vouts -> [Rune -> Nat]]
  <2>1. ASSUME NEW v \in Vouts
        PROVE  [allocated[v] EXCEPT ![e.id] = @ + effect.give[v]] \in [Rune -> Nat]
    BY <1>2, <1>4, <2>1 DEF TypeOK, TransactionType
  <2> QED
    BY <1>5, <2>1
<1>8. allocatedConversion' \in [Vouts -> [Rune -> Nat]]
  <2>1. ASSUME NEW v \in Vouts
        PROVE  [allocatedConversion[v] EXCEPT ![e.id] = @ + effect.want[v]]
                 \in [Rune -> Nat]
    BY <1>2, <1>4, <2>1 DEF TypeOK, TransactionType
  <2> QED
    BY <1>5, <2>1
<1>9. TablesType'
  BY DEF TypeOK, TablesType, ApplyEdict, tables
<1>10. BlockType'
  BY DEF TypeOK, BlockType, ApplyEdict, chain, history
<1>11. Vouts' = Vouts
  BY DEF ApplyEdict, Vouts
<1>12. TransactionType'
  BY <1>2, <1>5, <1>6, <1>7, <1>8, <1>11 DEF TypeOK, TransactionType, ApplyEdict
<1> QED
  BY <1>9, <1>10, <1>12 DEF TypeOK

\* What is left after the edicts is allocated or burned.
LEMMA AfterEdictsType ==
  ASSUME TypeOK, AllocateRest \/ BurnRest
  PROVE  TypeOK'
<1>1. TablesType'
  BY DEF TypeOK, TablesType, AllocateRest, BurnRest, AfterEdicts, tables
<1>2. BlockType'
  BY DEF TypeOK, BlockType, AllocateRest, BurnRest, AfterEdicts, chain, history, Phases
<1>3. Vouts' = Vouts
  BY DEF AllocateRest, BurnRest, AfterEdicts, Vouts
<1>4. allocated' \in [Vouts -> [Rune -> Nat]]
  BY DEF TypeOK, TransactionType, AllocateRest, BurnRest
<1>5. txBurned' \in [Rune -> Nat]
  BY DEF TypeOK, TransactionType, AllocateRest, BurnRest
<1>6. TransactionType'
  BY <1>3, <1>4, <1>5, ZeroType
     DEF TypeOK, TransactionType, AllocateRest, BurnRest, AfterEdicts, conversion
<1> QED
  BY <1>1, <1>2, <1>6 DEF TypeOK

\* What OP_RETURN outputs were allocated is burned.
LEMMA BurnOutputType ==
  ASSUME TypeOK, BurnOutput
  PROVE  TypeOK'
<1>1. TablesType'
  BY DEF TypeOK, TablesType, BurnOutput, tables
<1>2. BlockType'
  BY DEF TypeOK, BlockType, BurnOutput, chain, history
<1>3. Vouts' = Vouts
  BY DEF BurnOutput, Vouts
<1>4. allocated' \in [Vouts -> [Rune -> Nat]] /\ txBurned' \in [Rune -> Nat]
  BY ZeroType DEF TypeOK, TransactionType, BurnOutput
<1>5. TransactionType'
  BY <1>3, <1>4 DEF TypeOK, TransactionType, BurnOutput, conversion
<1> QED
  BY <1>1, <1>2, <1>5 DEF TypeOK

\* The input of a conversion is a rune, or there is none.
LEMMA DetectConversionType ==
  ASSUME TypeOK, DetectConversion
  PROVE  TypeOK'
<1>1. TablesType'
  BY DEF TypeOK, TablesType, DetectConversion, tables
<1>2. BlockType'
  BY DEF TypeOK, BlockType, DetectConversion, chain, history, Phases
<1>3. inputId' \in Rune \cup {NoRune}
  BY DEF DetectConversion, ConversionInput, Rune
<1>4. TransactionType'
  BY <1>3 DEF TypeOK, TransactionType, DetectConversion, allocation, Vouts
<1> QED
  BY <1>1, <1>2, <1>4 DEF TypeOK

(***************************************************************************)
(* The supplies and the amounts of a conversion are natural numbers.       *)
(***************************************************************************)
LEMMA AmountsType ==
  ASSUME TypeOK, inputId \in Rune
  PROVE  /\ Other(inputId) \in Rune /\ Other(inputId) # inputId
         /\ SupplyIn \in Nat /\ SupplyOut \in Nat
         /\ WantedOut \in Nat /\ txBurned[inputId] \in Nat
         /\ AmountIn \in Nat /\ AmountOut \in Nat
<1>1. Other(inputId) \in Rune /\ Other(inputId) # inputId
  BY DEF Other, Rune, ID0, ID1
<1>2. /\ entries \in [Rune -> Entry]
      /\ converted \in [Rune -> Nat]
      /\ txBurned \in [Rune -> Nat]
  BY DEF TypeOK, TablesType, TransactionType
<1>3. SupplyIn \in Nat /\ SupplyOut \in Nat
  BY <1>1, <1>2 DEF SupplyIn, SupplyOut, Entry
<1>4. WantedOut \in Nat /\ txBurned[inputId] \in Nat
  BY <1>1, <1>2 DEF WantedOut
<1>5. AmountIn \in Nat /\ AmountOut \in Nat
  BY <1>3, <1>4, WrappedType, LotAssumption DEF AmountIn, AmountOut
<1> QED
  BY <1>1, <1>3, <1>4, <1>5

(***************************************************************************)
(* What both kinds of conversion write (validate_rbf_and_conversion_outpoint*)
(* and the two entries).                                                   *)
(***************************************************************************)
LEMMA ConnectConversionType ==
  ASSUME TypeOK, ConnectConversion
  PROVE  /\ lastOutpoint' \in [StateChange -> Outpoint]
         /\ lastValue' \in [StateChange -> Nat]
         /\ require' \in BOOLEAN
         /\ lineage' \subseteq Nat
<1>1. tx \in Tx /\ tx.txid \in Nat
  BY DEF TypeOK, TransactionType, Tx
<1>2. "convert" \in StateChange
  BY DEF StateChange
<1>3. FirstOutpoint("convert") \in Outpoint /\ FirstValue("convert") \in Nat
  BY <1>1, <1>2, FirstOutpointType
<1>4. lastOutpoint' \in [StateChange -> Outpoint] /\ lastValue' \in [StateChange -> Nat]
  BY <1>3 DEF TypeOK, TablesType, ConnectConversion
<1>5. require' \in BOOLEAN
  BY DEF TypeOK, BlockType, ConnectConversion
<1> QED
  BY <1>1, <1>4, <1>5 DEF ConnectConversion

\* A conversion writes a supply of each rune.
LEMMA MoveSupplyType ==
  ASSUME TypeOK, inputId \in Rune, NEW x \in Nat, NEW y \in Nat, MoveSupply(x, y)
  PROVE  /\ entries' \in [Rune -> Entry]
         /\ entries'[inputId].supply = (SupplyIn - x) % LotModulus
         /\ entries'[Other(inputId)].supply = (SupplyOut + y) % LotModulus
<1> DEFINE out == Other(inputId)
           less == (SupplyIn - x) % LotModulus
           more == (SupplyOut + y) % LotModulus
<1>1. /\ out \in Rune /\ out # inputId
      /\ SupplyIn \in Nat /\ SupplyOut \in Nat
  BY AmountsType
<1>2. less \in Nat /\ more \in Nat
  BY <1>1, LotAssumption
<1>3. entries \in [Rune -> Entry]
  BY DEF TypeOK, TablesType
<1>4. entries' = [entries EXCEPT ![inputId].supply = less, ![out].supply = more]
  BY <1>1 DEF MoveSupply, SupplyIn, SupplyOut
<1> HIDE DEF out, less, more
<1>5. /\ entries' \in [Rune -> Entry]
      /\ entries'[inputId].supply = less
      /\ entries'[out].supply = more
  BY <1>1, <1>2, <1>3, <1>4 DEF Entry
<1> QED
  BY <1>5 DEF out, less, more

\* convert_exact_input: what is wanted is at most what is converted.
LEMMA ConvertExactInputType ==
  ASSUME TypeOK, inputId \in Rune, ConvertExactInput
  PROVE  TypeOK'
<1> DEFINE out == Other(inputId)
           residual == AmountOut - converted[out]
           extra(v) == IF v = Min(Takers) THEN residual ELSE 0
<1>1. /\ out \in Rune
      /\ AmountIn \in Nat /\ AmountOut \in Nat /\ converted[out] \in Nat
  BY AmountsType DEF WantedOut
<1>2. residual \in Nat
  BY <1>1 DEF ConvertExactInput, Acceptable, WantedOut
<1>3. ConnectConversion /\ MoveSupply(AmountIn, AmountOut)
  BY DEF ConvertExactInput
<1>4. entries' \in [Rune -> Entry]
  BY <1>1, <1>3, MoveSupplyType
<1>5. /\ lastOutpoint' \in [StateChange -> Outpoint]
      /\ lastValue' \in [StateChange -> Nat]
      /\ require' \in BOOLEAN
      /\ lineage' \subseteq Nat
  BY <1>3, ConnectConversionType
<1> HIDE DEF residual
<1>6. allocated' = [v \in Vouts |->
                      IF v \in Takers
                      THEN [allocated[v] EXCEPT
                              ![out] = @ + allocatedConversion[v][out] + extra(v)]
                      ELSE allocated[v]]
  BY DEF ConvertExactInput, residual
<1>7. txBurned' = [txBurned EXCEPT
                     ![inputId] = 0,
                     ![out] = IF Takers = {} THEN @ + residual ELSE @]
  BY DEF ConvertExactInput, residual
<1>8. allocated' \in [Vouts -> [Rune -> Nat]]
  <2>1. ASSUME NEW v \in Vouts
        PROVE  [allocated[v] EXCEPT
                  ![out] = @ + allocatedConversion[v][out] + extra(v)] \in [Rune -> Nat]
    <3>1. extra(v) \in Nat
      BY <1>2
    <3>2. allocated[v] \in [Rune -> Nat] /\ allocatedConversion[v][out] \in Nat
      BY <1>1, <2>1 DEF TypeOK, TransactionType
    <3> HIDE DEF extra, out
    <3> QED
      BY <1>1, <3>1, <3>2
  <2>2. allocated \in [Vouts -> [Rune -> Nat]]
    BY DEF TypeOK, TransactionType
  <2> HIDE DEF extra, out
  <2> QED
    BY <1>6, <2>1, <2>2
<1>9. txBurned' \in [Rune -> Nat]
  <2>1. txBurned \in [Rune -> Nat]
    BY DEF TypeOK, TransactionType
  <2> HIDE DEF out
  <2> QED
    BY <1>1, <1>2, <1>7, <2>1
<1>10. TablesType'
  BY <1>4, <1>5 DEF TypeOK, TablesType, ConvertExactInput
<1>11. BlockType'
  BY <1>5 DEF TypeOK, BlockType, ConvertExactInput, chain, Phases
<1>12. Vouts' = Vouts
  BY DEF ConvertExactInput, Vouts
<1>13. TransactionType'
  BY <1>8, <1>9, <1>12 DEF TypeOK, TransactionType, ConvertExactInput, conversion
<1> QED
  BY <1>10, <1>11, <1>13 DEF TypeOK

\* convert_exact_output: what it costs is at most what was burned.
LEMMA ConvertExactOutputType ==
  ASSUME TypeOK, inputId \in Rune, ConvertExactOutput
  PROVE  TypeOK'
<1> DEFINE out == Other(inputId)
<1>1. /\ out \in Rune
      /\ AmountIn \in Nat /\ AmountOut \in Nat
  BY AmountsType
<1>2. ConnectConversion /\ MoveSupply(AmountIn, AmountOut)
  BY DEF ConvertExactOutput
<1>3. entries' \in [Rune -> Entry]
  BY <1>1, <1>2, MoveSupplyType
<1>4. /\ lastOutpoint' \in [StateChange -> Outpoint]
      /\ lastValue' \in [StateChange -> Nat]
      /\ require' \in BOOLEAN
      /\ lineage' \subseteq Nat
  BY <1>2, ConnectConversionType
<1>5. allocated' \in [Vouts -> [Rune -> Nat]]
  <2>1. allocated' = [v \in Vouts |->
                        [allocated[v] EXCEPT ![out] = @ + allocatedConversion[v][out]]]
    BY DEF ConvertExactOutput
  <2>2. ASSUME NEW v \in Vouts
        PROVE  [allocated[v] EXCEPT ![out] = @ + allocatedConversion[v][out]]
                 \in [Rune -> Nat]
    BY <1>1, <2>2 DEF TypeOK, TransactionType
  <2> QED
    BY <2>1, <2>2
<1>6. txBurned' \in [Rune -> Nat]
  <2>1. txBurned[inputId] - AmountIn \in Nat
    BY <1>1, AmountsType DEF ConvertExactOutput, Acceptable
  <2>2. txBurned' = [txBurned EXCEPT ![inputId] = txBurned[inputId] - AmountIn]
    BY DEF ConvertExactOutput, TypeOK, TransactionType
  <2> QED
    BY <2>1, <2>2 DEF TypeOK, TransactionType
<1>7. TablesType'
  BY <1>3, <1>4 DEF TypeOK, TablesType, ConvertExactOutput
<1>8. BlockType'
  BY <1>4 DEF TypeOK, BlockType, ConvertExactOutput, chain, Phases
<1>9. Vouts' = Vouts
  BY DEF ConvertExactOutput, Vouts
<1>10. TransactionType'
  BY <1>5, <1>6, <1>9 DEF TypeOK, TransactionType, ConvertExactOutput, conversion
<1> QED
  BY <1>7, <1>8, <1>10 DEF TypeOK

\* The return of an input.
LEMMA ReturnInputType ==
  ASSUME TypeOK, ReturnInput
  PROVE  TypeOK'
<1>1. TablesType'
  BY DEF TypeOK, TablesType, ReturnInput, tables
<1>2. BlockType'
  BY DEF TypeOK, BlockType, ReturnInput, chain, history, Phases
<1>3. Vouts' = Vouts
  BY DEF ReturnInput, Vouts
<1>4. txBurned \in [Rune -> Nat] /\ allocated \in [Vouts -> [Rune -> Nat]]
  BY DEF TypeOK, TransactionType
<1>5. ASSUME NEW v \in Vouts
      PROVE  [allocated[v] EXCEPT ![inputId] = @ + txBurned[inputId]] \in [Rune -> Nat]
  <2>1. allocated[v] \in [Rune -> Nat]
    BY <1>4, <1>5
  <2>2. CASE inputId \in Rune
    <3>1. allocated[v][inputId] + txBurned[inputId] \in Nat
      BY <1>4, <2>1, <2>2
    <3> QED
      BY <2>1, <3>1
  <2>3. CASE inputId \notin Rune
    BY <2>1, <2>3
  <2> QED
    BY <2>2, <2>3
<1>6. allocated' \in [Vouts -> [Rune -> Nat]]
  BY <1>4, <1>5 DEF ReturnInput
<1>7. txBurned' \in [Rune -> Nat]
  BY <1>4 DEF ReturnInput
<1>8. TransactionType'
  BY <1>3, <1>6, <1>7 DEF TypeOK, TransactionType, ReturnInput, conversion
<1> QED
  BY <1>1, <1>2, <1>8 DEF TypeOK

\* A row is stored for an outpoint.
LEMMA StoreOutputType ==
  ASSUME TypeOK, StoreOutput
  PROVE  TypeOK'
<1> DEFINE outpoint == [txid |-> tx.txid, vout |-> cursor]
           stored == Stored(cursor)
<1>1. /\ tx \in Tx /\ cursor \in Vouts /\ cursor \in Nat
      /\ allocated \in [Vouts -> [Rune -> Nat]]
  BY DEF TypeOK, TransactionType, StoreOutput
<1>2. outpoint \in Outpoint
  BY <1>1 DEF Tx, Outpoint
<1>3. balances' = [o \in DOMAIN balances \cup (IF stored THEN {outpoint} ELSE {}) |->
                     IF stored /\ o = outpoint THEN allocated[cursor] ELSE balances[o]]
  BY DEF StoreOutput
<1> HIDE DEF outpoint, stored
<1>4. /\ DOMAIN balances' \subseteq Outpoint
      /\ \A o \in DOMAIN balances' : balances'[o] \in [Rune -> Nat]
  BY <1>1, <1>2, <1>3 DEF TypeOK, TablesType
<1>5. TablesType'
  BY <1>4 DEF TypeOK, TablesType, StoreOutput
<1>6. BlockType'
  BY DEF TypeOK, BlockType, StoreOutput, chain, history
<1>7. Vouts' = Vouts
  BY DEF StoreOutput, Vouts
<1>8. allocated' \in [Vouts -> [Rune -> Nat]] /\ txBurned' \in [Rune -> Nat]
  BY <1>1, ZeroType DEF TypeOK, TransactionType, StoreOutput
<1>9. TransactionType'
  BY <1>1, <1>7, <1>8 DEF TypeOK, TransactionType, StoreOutput, conversion
<1> QED
  BY <1>5, <1>6, <1>9 DEF TypeOK

\* The locals of index_runes are dropped.
LEMMA FinishTransactionType ==
  ASSUME TypeOK, FinishTransaction
  PROVE  TypeOK'
<1>1. TablesType'
  BY DEF TypeOK, TablesType, FinishTransaction, tables
<1>2. BlockType'
  BY DEF TypeOK, BlockType, TransactionType, FinishTransaction, chain, history, Phases
<1>3. /\ allocated' \in [Vouts' -> [Rune -> Nat]]
      /\ allocatedConversion' \in [Vouts' -> [Rune -> Nat]]
  BY NoLocals DEF FinishTransaction, Vouts
<1>4. tx' \in Tx /\ txBurned' \in [Rune -> Nat] /\ converted' \in [Rune -> Nat]
  BY NoTxType, ZeroType DEF FinishTransaction
<1>5. TransactionType'
  BY <1>3, <1>4 DEF TypeOK, TransactionType, FinishTransaction
<1> QED
  BY <1>1, <1>2, <1>5 DEF TypeOK

-----------------------------------------------------------------------------
(***************************************************************************)
(* The inductive invariant: beside the types, the height does not fall     *)
(* below that of the first block, a conversion has something to convert,   *)
(* and an input has been given back when the results are stored.           *)
(***************************************************************************)
ConversionFound == pc = "convert" => inputId \in Rune /\ Convertible(inputId)
UpdaterInvariant ==
  /\ TypeOK
  /\ FirstRuneHeight <= height
  /\ ConversionFound
  /\ InputReturned

\* The invariant holds of an empty index.
LEMMA InitInvariant == Init => UpdaterInvariant
<1> SUFFICES ASSUME Init PROVE UpdaterInvariant
  OBVIOUS
<1>1. tx \in Tx
  BY NoTxType DEF Init
<1>2. /\ allocated \in [Vouts -> [Rune -> Nat]]
      /\ allocatedConversion \in [Vouts -> [Rune -> Nat]]
  BY NoLocals DEF Init, Vouts
<1>3. TablesType
  <2>1. lastOutpoint \in [StateChange -> Outpoint]
    BY DEF Init, Missing, Outpoint
  <2>2. entries \in [Rune -> Entry]
    BY DEF Init, Entry
  <2>3. DOMAIN balances = {}
    BY DEF Init
  <2> QED
    BY <2>1, <2>2, <2>3 DEF Init, TablesType
<1>4. BlockType
  BY ZeroType, BoundAssumption DEF Init, BlockType, Phases
<1>5. TransactionType
  BY <1>1, <1>2, ZeroType DEF Init, TransactionType
<1>6. ConversionFound /\ InputReturned /\ FirstRuneHeight <= height
  BY BoundAssumption DEF Init, ConversionFound, InputReturned
<1> QED
  BY <1>3, <1>4, <1>5, <1>6 DEF UpdaterInvariant, TypeOK

\* Every step keeps the types.
LEMMA StepType ==
  ASSUME UpdaterInvariant, [Next]_vars
  PROVE  TypeOK'
<1> USE DEF UpdaterInvariant
<1>1. CASE BeginBlock
  BY <1>1, BeginBlockType
<1>2. CASE NextTransaction
  BY <1>2, NextTransactionType
<1>3. CASE \E o \in pending : TakeInput(o)
  BY <1>3, TakeInputType
<1>4. CASE CreateOutpoints
  BY <1>4, CreateOutpointsType
<1>5. CASE MoveOutpoints
  BY <1>5, MoveOutpointsType
<1>6. CASE Mint
  BY <1>6, MintType
<1>7. CASE NoMint \/ OverflowEdict \/ RefuseConversion
  BY <1>7, NoChangeType
<1>8. CASE ApplyEdict
  BY <1>8, ApplyEdictType
<1>9. CASE AllocateRest \/ BurnRest
  BY <1>9, AfterEdictsType
<1>10. CASE BurnOutput
  BY <1>10, BurnOutputType
<1>11. CASE DetectConversion
  BY <1>11, DetectConversionType
<1>12. CASE ConvertExactInput
  <2>1. inputId \in Rune
    BY <1>12 DEF ConversionFound, ConvertExactInput
  <2> QED
    BY <1>12, <2>1, ConvertExactInputType
<1>13. CASE ConvertExactOutput
  <2>1. inputId \in Rune
    BY <1>13 DEF ConversionFound, ConvertExactOutput
  <2> QED
    BY <1>13, <2>1, ConvertExactOutputType
<1>14. CASE ReturnInput
  BY <1>14, ReturnInputType
<1>15. CASE StoreOutput
  BY <1>15, StoreOutputType
<1>16. CASE FinishTransaction
  BY <1>16, FinishTransactionType
<1>17. CASE EndBlock
  BY <1>17, EndBlockType
<1>18. CASE UNCHANGED vars
  <2>1. TablesType' /\ BlockType'
    BY <1>18 DEF TypeOK, TablesType, BlockType, vars, tables, chain, history
  <2>2. TransactionType'
    BY <1>18 DEF TypeOK, TransactionType, vars, allocation, conversion, Vouts
  <2> QED
    BY <2>1, <2>2 DEF TypeOK
<1> QED
  BY <1>1, <1>2, <1>3, <1>4, <1>5, <1>6, <1>7, <1>8, <1>9, <1>10, <1>11, <1>12,
     <1>13, <1>14, <1>15, <1>16, <1>17, <1>18 DEF Next, IndexRunes, Stopped

\* The height does not go down.
LEMMA StepHeight ==
  ASSUME UpdaterInvariant, [Next]_vars
  PROVE  FirstRuneHeight <= height'
<1>1. height' = height \/ height' = height + 1
  <2>1. BeginBlock \/ EndBlock \/ NextTransaction => height' \in {height, height + 1}
    BY DEF BeginBlock, EndBlock, NextTransaction, TakeTransaction, Take
  <2>2. IndexRunes => height' = height
    BY DEF IndexRunes, TakeInput, CreateOutpoints, MoveOutpoints, Mint, NoMint,
           ApplyEdict, OverflowEdict, AllocateRest, BurnRest, AfterEdicts, BurnOutput,
           DetectConversion, ConvertExactInput, ConvertExactOutput, RefuseConversion,
           ReturnInput, StoreOutput, FinishTransaction
  <2> QED
    BY <2>1, <2>2 DEF Next, Stopped, vars
<1>2. height \in Nat
  BY DEF UpdaterInvariant, TypeOK, BlockType
<1> QED
  BY <1>1, <1>2, BoundAssumption DEF UpdaterInvariant

(***************************************************************************)
(* The loops a step can enter "convert" and "store" from.                  *)
(***************************************************************************)
LEMMA WhereStepsLead ==
  ASSUME [Next]_vars
  PROVE  /\ pc' = "convert" => DetectConversion \/ UNCHANGED vars
         /\ pc' = "store" =>
              DetectConversion \/ ReturnInput \/ StoreOutput \/ UNCHANGED vars
<1>1. BeginBlock \/ EndBlock \/ NextTransaction => pc' \notin {"convert", "store"}
  BY DEF BeginBlock, EndBlock, NextTransaction, TakeTransaction, Take
<1>2. (\E o \in pending : TakeInput(o)) => pc' \notin {"convert", "store"}
  BY DEF TakeInput
<1>3. CreateOutpoints \/ MoveOutpoints \/ Mint \/ NoMint
        => pc' \notin {"convert", "store"}
  BY DEF CreateOutpoints, MoveOutpoints, Mint, NoMint
<1>4. ApplyEdict \/ OverflowEdict \/ AllocateRest \/ BurnRest
        => pc' \notin {"convert", "store"}
  BY DEF ApplyEdict, OverflowEdict, AllocateRest, BurnRest, AfterEdicts
<1>5. BurnOutput \/ RefuseConversion \/ FinishTransaction
        => pc' \notin {"convert", "store"}
  BY DEF BurnOutput, RefuseConversion, FinishTransaction
<1>6. ConvertExactInput \/ ConvertExactOutput => pc' \notin {"convert", "store"}
  BY DEF ConvertExactInput, ConvertExactOutput
<1>7. ReturnInput \/ StoreOutput => pc' # "convert"
  BY DEF ReturnInput, StoreOutput
<1> QED
  BY <1>1, <1>2, <1>3, <1>4, <1>5, <1>6, <1>7 DEF Next, IndexRunes, Stopped

\* A conversion is computed for a rune that DetectConversion found.
LEMMA StepConversionFound ==
  ASSUME UpdaterInvariant, [Next]_vars
  PROVE  ConversionFound'
<1> SUFFICES ASSUME pc' = "convert"
             PROVE  inputId' \in Rune /\ Convertible(inputId)'
  BY DEF ConversionFound
<1>1. CASE DetectConversion
  <2>1. inputId' # NoRune /\ inputId' = ConversionInput
    BY <1>1 DEF DetectConversion
  <2>2. inputId' \in Rune /\ Convertible(inputId')
    BY <2>1 DEF ConversionInput, Rune
  <2> QED
    BY <1>1, <2>2 DEF DetectConversion, allocation, Convertible
<1>2. CASE UNCHANGED vars
  BY <1>2 DEF UpdaterInvariant, ConversionFound, Convertible, vars, allocation, conversion
<1> QED
  BY <1>1, <1>2, WhereStepsLead

\* Only the return of the input leads to the loop that stores the outputs.
LEMMA StepInputReturned ==
  ASSUME UpdaterInvariant, [Next]_vars
  PROVE  InputReturned'
<1> SUFFICES ASSUME pc' = "store", inputId' # NoRune, ValidDestinations' # {}
             PROVE  txBurned'[inputId'] = 0 \/ cursor' > 1
  BY DEF InputReturned
<1>1. CASE DetectConversion
  BY <1>1 DEF DetectConversion
<1>2. CASE ReturnInput
  <2>1. tx' = tx /\ inputId' = inputId
    BY <1>2 DEF ReturnInput, conversion
  <2>2. ValidDestinations' = ValidDestinations
    BY <2>1 DEF ValidDestinations, Vouts
  <2>3. ReturnOutputs # {}
    BY <2>2 DEF ReturnOutputs
  <2>4. inputId \in Rune /\ txBurned \in [Rune -> Nat]
    BY <2>1 DEF UpdaterInvariant, TypeOK, TransactionType
  <2>5. CASE txBurned[inputId] > 0
    BY <1>2, <2>1, <2>3, <2>4, <2>5 DEF ReturnInput
  <2>6. CASE ~(txBurned[inputId] > 0)
    BY <1>2, <2>1, <2>4, <2>6 DEF ReturnInput
  <2> QED
    BY <2>5, <2>6
<1>3. CASE StoreOutput
  <2>1. cursor \in Nat \ {0} /\ cursor' = cursor + 1
    BY <1>3, OutputsType DEF StoreOutput, UpdaterInvariant, TypeOK, TransactionType
  <2> QED
    BY <2>1
<1>4. CASE UNCHANGED vars
  <2>1. ValidDestinations' = ValidDestinations
    BY <1>4 DEF ValidDestinations, Vouts, vars
  <2> QED
    BY <1>4, <2>1
       DEF UpdaterInvariant, InputReturned, vars, allocation, conversion
<1> QED
  BY <1>1, <1>2, <1>3, <1>4, WhereStepsLead

\* Every step keeps the invariant.
LEMMA StepInvariant == UpdaterInvariant /\ [Next]_vars => UpdaterInvariant'
  BY StepType, StepHeight, StepConversionFound, StepInputReturned DEF UpdaterInvariant

(***************************************************************************)
(* UpdaterInvariant holds in every state the updater reaches.              *)
(***************************************************************************)
LEMMA Invariance == Spec => []UpdaterInvariant
  BY InitInvariant, StepInvariant, PTL DEF Spec

(***************************************************************************)
(* The tables, the fields and the locals have their types: no difference   *)
(* of two u128 in the edict loop, in update_burned, in a conversion or in  *)
(* the return of its input falls below zero.                               *)
(***************************************************************************)
THEOREM TypesCorrect == Spec => []TypeOK
<1>1. UpdaterInvariant => TypeOK
  BY DEF UpdaterInvariant
<1> QED
  BY <1>1, Invariance, PTL

(***************************************************************************)
(* InputReturned: while index_runes stores its results, nothing of the     *)
(* input of a conversion is burned that an output could take back.         *)
(***************************************************************************)
THEOREM InputIsReturned == Spec => []InputReturned
<1>1. UpdaterInvariant => InputReturned
  BY DEF UpdaterInvariant
<1> QED
  BY <1>1, Invariance, PTL

-----------------------------------------------------------------------------
(***************************************************************************)
(* The supplies follow SupplyCurve.  Its operators, instantiated here, are *)
(* those of ConversionCurve.                                               *)
(***************************************************************************)
LEMMA SameCurve ==
  ASSUME NEW a, NEW b
  PROVE  /\ Supply!SumOfSquares(a, b) = SumOfSquares(a, b)
         /\ \A n : /\ Supply!RewardShare0(a, b, n) = RewardShare0(a, b, n)
                   /\ Supply!RewardShare1(a, b, n) = RewardShare1(a, b, n)
<1>1. Supply!SumOfSquares(a, b) = SumOfSquares(a, b)
  BY DEF Supply!SumOfSquares, SumOfSquares
<1>2. \A n : Supply!Sqrt(n) = Sqrt(n)
  BY DEF Supply!Sqrt, Sqrt
<1> QED
  BY <1>1, <1>2
     DEF Supply!RewardShare0, RewardShare0, Supply!RewardShare1, RewardShare1

(***************************************************************************)
(* A point within the circle is among those SupplyCurve chooses from.      *)
(***************************************************************************)
LEMMA PointInRange ==
  ASSUME NEW a \in Nat, NEW b \in Nat, NEW a2 \in Nat, NEW b2 \in Nat,
         SumOfSquares(a2, b2) <= SumOfSquares(a, b)
  PROVE  b2 <= a + b
<1>1. /\ b2 * b2 \in Nat /\ a2 * a2 \in Nat /\ a * b \in Nat
      /\ a * a \in Nat /\ b * b \in Nat /\ a + b \in Nat
  BY Square
<1>2. (a + b) * (a + b) = a * a + b * b + 2 * (a * b)
  OBVIOUS
<1>3. b2 * b2 <= (a + b) * (a + b)
  BY <1>1, <1>2 DEF SumOfSquares
<1> QED
  BY <1>1, <1>3, Square

(***************************************************************************)
(* A conversion the updater accepts goes to such a point, if its squares   *)
(* fit: the largest output for the input, or the least input for the output*)
(***************************************************************************)
LEMMA AcceptedPoint ==
  ASSUME UpdaterInvariant, pc = "convert", Acceptable, SquaresFit
  PROVE  LET a2 == (SupplyIn - AmountIn) % LotModulus
             b2 == (SupplyOut + AmountOut) % LotModulus
         IN  /\ a2 \in 0..SupplyIn
             /\ b2 \in 0..(SupplyIn + SupplyOut)
             /\ Supply!ConvertPoint(SupplyIn, SupplyOut, a2, b2)
<1> DEFINE a == SupplyIn
           b == SupplyOut
           x == AmountIn
           y == AmountOut
           Inside == /\ x \in 0..a /\ x > 0 /\ y > 0
                     /\ (a - x) % LotModulus = a - x
                     /\ (b + y) % LotModulus = b + y
                     /\ SumOfSquares(a - x, b + y) <= SumOfSquares(a, b)
                     /\ \/ SumOfSquares(a, b) < SumOfSquares(a - x, b + y + 1)
                        \/ SumOfSquares(a, b) < SumOfSquares(a - x + 1, b + y)
<1>1. /\ inputId \in Rune /\ TypeOK
      /\ txBurned[inputId] > 0 /\ WantedOut > 0
  BY DEF UpdaterInvariant, ConversionFound, Convertible, WantedOut
<1>2. /\ a \in Nat /\ b \in Nat /\ x \in Nat /\ y \in Nat
      /\ txBurned[inputId] \in Nat /\ WantedOut \in Nat
  BY <1>1, AmountsType
<1>3. /\ LotModulus \in Nat
      /\ SumOfSquares(a, b) < LotModulus
      /\ (b + WantedOut) * (b + WantedOut) < LotModulus
  BY LotAssumption DEF SquaresFit
<1>4. ASSUME ExactInput
      PROVE  Inside
  <2>1. /\ x = txBurned[inputId] /\ y = WrappedYields(LotModulus, a, b, x)
        /\ x <= a /\ WantedOut <= y
    BY <1>4 DEF AmountIn, AmountOut, Acceptable
  <2> HIDE DEF a, b, x, y
  <2>2. x \in 0..a /\ x > 0 /\ y > 0
    BY <1>1, <1>2, <2>1
  <2>3. /\ y = ExactInputYields(a, b, x)
        /\ (a - x) % LotModulus = a - x
        /\ (b + y) % LotModulus = b + y
    BY <1>2, <1>3, <2>1, <2>2, WrappedYieldsFit
  <2>4. /\ SumOfSquares(a - x, b + y) <= SumOfSquares(a, b)
        /\ SumOfSquares(a, b) < SumOfSquares(a - x, b + y + 1)
    BY <1>2, <2>2, <2>3, ExactInputBest
  <2> QED
    BY <2>2, <2>3, <2>4
<1>5. ASSUME ~ExactInput
      PROVE  Inside
  <2>1. /\ y = WantedOut /\ x = WrappedCosts(LotModulus, a, b, y)
        /\ WrappedReachable(LotModulus, a, b, y)
    BY <1>5 DEF AmountIn, AmountOut, Acceptable
  <2> HIDE DEF a, b, x, y
  <2>2. /\ OutputReachable(a, b, y)
        /\ x = ExactOutputCosts(a, b, y)
        /\ (a - x) % LotModulus = a - x
        /\ (b + y) % LotModulus = b + y
    BY <1>2, <1>3, <2>1, WrappedCostsFit
  <2>3. /\ x \in 0..a
        /\ y > 0 => x > 0
        /\ SumOfSquares(a - x, b + y) <= SumOfSquares(a, b)
        /\ SumOfSquares(a, b) < SumOfSquares(a - x + 1, b + y)
    BY <1>2, <2>2, ExactOutputBest
  <2> QED
    BY <1>1, <2>1, <2>2, <2>3
<1>6. Inside
  BY <1>4, <1>5
<1> HIDE DEF a, b, x, y
<1>7. a - x \in 0..a /\ a - x < a /\ b + y \in Nat /\ b < b + y
  BY <1>2, <1>6
<1>8. b + y <= a + b
  BY <1>2, <1>6, <1>7, PointInRange
<1>9. Supply!ConvertPoint(a, b, a - x, b + y)
  BY <1>6, <1>7, SameCurve
     DEF Supply!ConvertPoint, Supply!InsideCircle, Supply!BestOutput, Supply!BestInput
<1> QED
  BY <1>2, <1>6, <1>7, <1>8, <1>9 DEF a, b, x, y

\* A conversion whose squares fit is a Convert of SupplyCurve.
LEMMA ConversionFollowsCurve ==
  ASSUME UpdaterInvariant, ConvertExactInput \/ ConvertExactOutput, SquaresFit
  PROVE  Supply!Next
<1> DEFINE out == Other(inputId)
           a2 == (SupplyIn - AmountIn) % LotModulus
           b2 == (SupplyOut + AmountOut) % LotModulus
<1>1. pc = "convert" /\ Acceptable /\ MoveSupply(AmountIn, AmountOut)
  BY DEF ConvertExactInput, ConvertExactOutput
<1>2. inputId \in Rune /\ TypeOK
  BY <1>1 DEF UpdaterInvariant, ConversionFound
<1>3. AmountIn \in Nat /\ AmountOut \in Nat /\ SupplyIn \in Nat /\ SupplyOut \in Nat
  BY <1>2, AmountsType
<1>4. entries'[inputId].supply = a2 /\ entries'[out].supply = b2
  BY <1>1, <1>2, <1>3, MoveSupplyType
<1>5. /\ a2 \in 0..SupplyIn
      /\ b2 \in 0..(SupplyIn + SupplyOut)
      /\ Supply!ConvertPoint(SupplyIn, SupplyOut, a2, b2)
  BY <1>1, AcceptedPoint
<1>6. SupplyIn + SupplyOut = SupplyOut + SupplyIn
  BY <1>3
<1>7. SupplyIn = entries[inputId].supply /\ SupplyOut = entries[out].supply
  BY DEF SupplyIn, SupplyOut
<1> HIDE DEF a2, b2
<1>8. CASE inputId = ID0
  <2>1. out = ID1
    BY <1>8 DEF Other
  <2>2. Supply!Tighten2Ease
    BY <1>4, <1>5, <1>7, <1>8, <2>1 DEF Supply!Tighten2Ease
  <2> QED
    BY <2>2 DEF Supply!Next, Supply!Convert
<1>9. CASE inputId = ID1
  <2>1. out = ID0
    BY <1>9 DEF Other, ID0, ID1
  <2>2. Supply!Ease2Tighten
    BY <1>4, <1>5, <1>6, <1>7, <1>9, <2>1 DEF Supply!Ease2Tighten
  <2> QED
    BY <2>2 DEF Supply!Next, Supply!Convert
<1> QED
  BY <1>2, <1>8, <1>9 DEF Rune

\* A block that begins is an Issue of SupplyCurve, or has no reward.
LEMMA IssueFollowsCurve ==
  ASSUME UpdaterInvariant, BeginBlock
  PROVE  [Supply!Next]_(Supply!supplies)
<1> DEFINE s0 == entries[ID0].supply
           s1 == entries[ID1].supply
           reward == Reward(height)
<1>1. height \in FirstRuneHeight..MaxHeight
  BY BoundAssumption
     DEF UpdaterInvariant, TypeOK, BlockType, BeginBlock, BlockAllowed
<1>2. reward \in Nat /\ reward \in {Reward(h) : h \in FirstRuneHeight..MaxHeight}
  BY <1>1, RewardAssumption
<1>3. CASE reward = 0
  BY <1>3 DEF BeginBlock, Issued, Supply!supplies
<1>4. CASE reward # 0
  <2>1. /\ ID0 \in Rune /\ ID1 \in Rune /\ ID0 # ID1
    BY DEF Rune, ID0, ID1
  <2> DEFINE share == [r \in Rune |-> IF r = ID0 THEN RewardShare0(s0, s1, reward)
                                                 ELSE RewardShare1(s0, s1, reward)]
  <2>2. entries' = [r \in Rune |-> [supply |-> entries[r].supply + share[r],
                                    burned |-> entries[r].burned + share[r],
                                    mints  |-> entries[r].mints + 1]]
    BY <1>4 DEF BeginBlock, Issued
  <2>3. share[ID0] = RewardShare0(s0, s1, reward) /\ share[ID1] = RewardShare1(s0, s1, reward)
    BY <2>1
  <2> HIDE DEF share
  <2>4. /\ entries'[ID0].supply = s0 + RewardShare0(s0, s1, reward)
        /\ entries'[ID1].supply = s1 + RewardShare1(s0, s1, reward)
    BY <2>1, <2>2, <2>3
  <2> HIDE DEF reward
  <2>5. reward > 0
    BY <1>2, <1>4
  <2>6. Supply!Issue(reward)
    BY <2>4, <2>5, SameCurve DEF Supply!Issue
  <2> QED
    BY <1>2, <2>6 DEF Supply!Next
<1> QED
  BY <1>3, <1>4

\* No other step changes a supply.
LEMMA OthersKeepSupplies ==
  ASSUME UpdaterInvariant, [Next]_vars,
         ~BeginBlock, ~ConvertExactInput, ~ConvertExactOutput
  PROVE  UNCHANGED Supply!supplies
<1>1. EndBlock \/ Mint => UNCHANGED Supply!supplies
  BY DEF EndBlock, UpdateBurned, Mint, UpdaterInvariant, TypeOK, TablesType, Entry, Rune,
         Supply!supplies
<1>2. NextTransaction \/ CreateOutpoints \/ MoveOutpoints \/ NoMint => entries' = entries
  BY DEF NextTransaction, TakeTransaction, Take, CreateOutpoints, MoveOutpoints, NoMint, tables
<1>3. (\E o \in pending : TakeInput(o)) => entries' = entries
  BY DEF TakeInput
<1>4. ApplyEdict \/ OverflowEdict \/ AllocateRest \/ BurnRest => entries' = entries
  BY DEF ApplyEdict, OverflowEdict, AllocateRest, BurnRest, AfterEdicts, tables
<1>5. BurnOutput \/ DetectConversion \/ RefuseConversion => entries' = entries
  BY DEF BurnOutput, DetectConversion, RefuseConversion, tables
<1>6. ReturnInput \/ StoreOutput \/ FinishTransaction => entries' = entries
  BY DEF ReturnInput, StoreOutput, FinishTransaction, tables
<1>7. UNCHANGED vars => entries' = entries
  BY DEF vars, tables
<1>8. entries' = entries => UNCHANGED Supply!supplies
  BY DEF Supply!supplies
<1> QED
  BY <1>1, <1>2, <1>3, <1>4, <1>5, <1>6, <1>7, <1>8 DEF Next, IndexRunes, Stopped

(***************************************************************************)
(* SupplyFollowsCurve: the updater implements SupplyCurve.  A block that   *)
(* begins is an Issue, a conversion whose squares fit in a u128 a Convert, *)
(* and every other step leaves the supplies alone.                         *)
(***************************************************************************)
THEOREM UpdaterFollowsCurve == Spec => SupplyFollowsCurve
<1>1. Init => Supply!Init
  BY DEF Init, Supply!Init, Rune
<1>2. UpdaterInvariant /\ [Next]_vars
        => [SquaresFit => Supply!Next]_(Supply!supplies)
  BY ConversionFollowsCurve, IssueFollowsCurve, OthersKeepSupplies
<1> QED
  BY <1>1, <1>2, Invariance, PTL DEF Spec, SupplyFollowsCurve

-----------------------------------------------------------------------------
(* The inductive invariant of the outputs and the chains, in parts. *)

Working == pc \notin {"idle", "block"}

(***************************************************************************)
(* Transactions are numbered in their order, from 1.                       *)
(***************************************************************************)
Numbered ==
  /\ Working <=> tx.txid > 0
  /\ tx.txid < nextTxid
  /\ \A u \in utxos : u.at.txid > 0 /\ u.at.txid < nextTxid
  /\ \A o \in tx.inputs : o.txid > 0

(***************************************************************************)
(* All inputs have been taken when the loop over them ends.                *)
(***************************************************************************)
PendingTaken == pc # "inputs" => pending = {}

(***************************************************************************)
(* While a transaction is indexed its outputs are unspent, as they are.    *)
(***************************************************************************)
OutputsCreated ==
  Working =>
    /\ \A u \in utxos :
         u.at.txid = tx.txid => /\ u.at.vout \in Vouts
                                /\ u.script = tx.outputs[u.at.vout].script
                                /\ u.value = tx.outputs[u.at.vout].value
                                /\ u.height = height
    /\ \A v \in Vouts :
         ~IsOpReturn(v) => \E u \in utxos : u.at = [txid |-> tx.txid, vout |-> v]

(***************************************************************************)
(* Both rows of STATE_CHANGE_TO_LAST_OUTPOINT are missing or neither, and  *)
(* an output they name has the chain's script and the recorded value.      *)
(***************************************************************************)
EndsRecorded ==
  /\ (\E c \in StateChange : lastOutpoint[c] = Missing)
       => \A c \in StateChange : lastOutpoint[c] = Missing
  /\ \A c \in StateChange : lastOutpoint[c].txid < nextTxid
  /\ \A c \in StateChange : \A u \in utxos :
       u.at = lastOutpoint[c] => u.script = c /\ u.value = lastValue[c]

(***************************************************************************)
(* Once a block has minted, the mint chain ends at the minter's output, of *)
(* this height, which no transaction of the block can spend.               *)
(***************************************************************************)
MintEndsAtMinter ==
  /\ \A m \in minters : m > 0 /\ m < nextTxid
  /\ pc \in {"inputs", "mint"} => tx.txid \notin minters
  /\ minters # {} /\ pc # "idle" =>
       /\ lastOutpoint["mint"].txid \in minters
       /\ \A u \in utxos : u.at.txid \in minters => u.height = height
       /\ pc = "inputs" => lastOutpoint["mint"] \notin tx.inputs

(***************************************************************************)
(* While the conversion chain is required it ends, after a conversion of   *)
(* the block, at a descendant of the last one, or was broken.              *)
(***************************************************************************)
EndDescends ==
  /\ \A m \in lineage : m > 0
  /\ Working => \A o \in tx.inputs : o.txid \in lineage => tx.txid \in lineage
  /\ require /\ lineage # {} =>
       \/ lastOutpoint["convert"] = Null
       \/ lastOutpoint["convert"].txid \in lineage

ChainInvariant ==
  /\ Numbered
  /\ PendingTaken
  /\ OutputsCreated
  /\ EndsRecorded
  /\ ChainEndUnspent
  /\ BalancesUnspent
  /\ MintEndsAtMinter
  /\ OneMintPerBlock
  /\ EndDescends

-----------------------------------------------------------------------------
(* What the steps do to the outputs and the chains. *)

Steady ==
  \/ NoMint \/ ApplyEdict \/ OverflowEdict \/ AllocateRest \/ BurnRest \/ BurnOutput
  \/ DetectConversion \/ RefuseConversion \/ ReturnInput
  \/ (\E o \in pending : TakeInput(o))
  \/ StoreOutput
  \/ UNCHANGED vars

Kept == UNCHANGED <<utxos, nextTxid, tx, height, lastOutpoint, lastValue,
                    minters, lineage, require>>
PhaseKept ==
  \/ pc' = pc
  \/ /\ pc \notin {"idle", "block", "inputs"}
     /\ pc' \notin {"idle", "block", "inputs", "mint"}

\* Most steps of index_runes leave the outputs and the chains alone.
LEMMA SteadyStep ==
  ASSUME Steady
  PROVE  Kept /\ PhaseKept
<1> USE DEF Kept, PhaseKept
<1>1. NoMint \/ OverflowEdict \/ RefuseConversion => Kept /\ PhaseKept
  BY DEF NoMint, OverflowEdict, RefuseConversion, tables, chain, history
<1>2. ApplyEdict => Kept /\ PhaseKept
  BY DEF ApplyEdict, tables, chain, history
<1>3. AllocateRest \/ BurnRest => Kept /\ PhaseKept
  BY DEF AllocateRest, BurnRest, AfterEdicts, tables, chain, history
<1>4. BurnOutput \/ DetectConversion => Kept /\ PhaseKept
  BY DEF BurnOutput, DetectConversion, tables, chain, history
<1>5. ReturnInput => Kept /\ PhaseKept
  BY DEF ReturnInput, tables, chain, history
<1>6. (\E o \in pending : TakeInput(o)) => Kept /\ PhaseKept
  BY DEF TakeInput, chain, history
<1>7. StoreOutput => Kept /\ PhaseKept
  BY DEF StoreOutput, chain, history
<1>8. UNCHANGED vars => Kept /\ PhaseKept
  BY DEF vars, tables, chain, history
<1> QED
  BY <1>1, <1>2, <1>3, <1>4, <1>5, <1>6, <1>7, <1>8 DEF Steady

\* They stay in the loops after the mint, or where they are.
LEMMA SteadyWorking ==
  ASSUME PhaseKept, tx' = tx
  PROVE  /\ Working' = Working
         /\ pc' = "inputs" <=> pc = "inputs"
         /\ pc' \in {"inputs", "mint"} => pc \in {"inputs", "mint"}
         /\ pc' = "idle" <=> pc = "idle"
         /\ pc' = "block" <=> pc = "block"
  BY DEF PhaseKept, Working

(***************************************************************************)
(* A conversion moves the end of its chain at most.                        *)
(***************************************************************************)
Converting == ConvertExactInput \/ ConvertExactOutput

\* A conversion is accepted with the outpoint it is connected to.
LEMMA ConvertingStep ==
  ASSUME Converting
  PROVE  /\ pc = "convert" /\ pc' = "return"
         /\ UNCHANGED <<utxos, nextTxid, tx, height, minters, pending, balances>>
         /\ Connected /\ ConnectConversion
  BY DEF Converting, ConvertExactInput, ConvertExactOutput, chain

\* What a mint reads and leaves alone.
LEMMA MintStep ==
  ASSUME Mint
  PROVE  /\ pc = "mint" /\ pc' = "edicts"
         /\ UNCHANGED <<utxos, nextTxid, tx, height, lineage, require, pending, balances>>
         /\ MayMint /\ minters' = minters \cup {tx.txid}
  BY DEF Mint, chain

\* The steps by what they do to the outputs.
LEMMA StepKinds ==
  ASSUME [Next]_vars
  PROVE  \/ Steady \/ BeginBlock \/ NextTransaction \/ CreateOutpoints
         \/ MoveOutpoints \/ Mint \/ Converting \/ FinishTransaction \/ EndBlock
  BY DEF Next, IndexRunes, Stopped, Steady, Converting

(***************************************************************************)
(* What a transaction is when it is taken.                                 *)
(***************************************************************************)
NewOutputs(txid, t) ==
  {[at |-> [txid |-> txid, vout |-> v],
    script |-> t.outputs[v].script, value |-> t.outputs[v].value,
    height |-> height, coinbase |-> t.coinbase] :
     v \in {w \in 1..Len(t.outputs) : t.outputs[w].script # "op_return"}}

\* A transaction that is taken is numbered, spends its inputs, creates its outputs.
LEMMA TakeStep ==
  ASSUME UpdaterInvariant, NextTransaction
  PROVE  \E t \in Template, spent \in SUBSET Spendable :
           /\ pc = "block" /\ pc' = "inputs"
           /\ nextTxid' = nextTxid + 1
           /\ tx' = [txid |-> nextTxid, inputs |-> {u.at : u \in spent},
                     coinbase |-> t.coinbase, rbf |-> t.rbf, outputs |-> t.outputs,
                     artifact |-> t.artifact]
           /\ pending' = {u.at : u \in spent}
           /\ utxos' = (utxos \ spent) \cup NewOutputs(nextTxid, t)
           /\ lineage' = IF \E u \in spent : u.at.txid \in lineage
                         THEN lineage \cup {nextTxid} ELSE lineage
           /\ UNCHANGED <<height, tables, require, minters>>
<1>1. PICK t \in Templates[nextTxid], spent \in InputSets :
        nextTxid <= MaxTxs /\ TakeTransaction(t, spent)
  BY DEF NextTransaction
<1>2. t \in Template
  <2>1. nextTxid \in 1..MaxTxs
    BY <1>1, BoundAssumption DEF UpdaterInvariant, TypeOK, BlockType
  <2> QED
    BY <2>1, TemplateAssumption
<1>3. spent \in SUBSET Spendable
  BY DEF InputSets
<1> QED
  BY <1>1, <1>2, <1>3 DEF TakeTransaction, Take, NewOutputs

-----------------------------------------------------------------------------
(* The numbers and the outputs. *)

\* The types the lemmas below use.
LEMMA TxFacts ==
  ASSUME UpdaterInvariant
  PROVE  /\ tx \in Tx /\ tx.txid \in Nat /\ nextTxid \in Nat \ {0} /\ height \in Nat
         /\ utxos \subseteq Unspent
         /\ \A u \in utxos : u.at \in Outpoint /\ u.at.txid \in Nat /\ u.height \in Nat
         /\ lastOutpoint \in [StateChange -> Outpoint]
         /\ \A c \in StateChange : lastOutpoint[c].txid \in Nat
         /\ lastValue \in [StateChange -> Nat]
         /\ pc \in Phases /\ minters \subseteq Nat /\ lineage \subseteq Nat
<1>1. /\ tx \in Tx /\ nextTxid \in Nat \ {0} /\ height \in Nat /\ utxos \subseteq Unspent
      /\ lastOutpoint \in [StateChange -> Outpoint] /\ lastValue \in [StateChange -> Nat]
      /\ pc \in Phases /\ minters \subseteq Nat /\ lineage \subseteq Nat
  BY DEF UpdaterInvariant, TypeOK, TransactionType, BlockType, TablesType
<1>2. tx.txid \in Nat
  BY <1>1 DEF Tx
<1>3. \A u \in utxos : u.at \in Outpoint /\ u.at.txid \in Nat /\ u.height \in Nat
  BY <1>1 DEF Unspent, Outpoint
<1>4. \A c \in StateChange : lastOutpoint[c].txid \in Nat
  BY <1>1 DEF Outpoint
<1> QED
  BY <1>1, <1>2, <1>3, <1>4

\* Transactions stay numbered.
LEMMA StepNumbered ==
  ASSUME UpdaterInvariant, ChainInvariant, [Next]_vars
  PROVE  Numbered'
<1> USE DEF Numbered
<1>0. Numbered
  BY DEF ChainInvariant
<1>1. CASE Steady
  <2>1. Kept /\ PhaseKept
    BY <1>1, SteadyStep
  <2>2. Working' = Working
    BY <2>1, SteadyWorking DEF Kept
  <2> QED
    BY <1>0, <2>1, <2>2 DEF Kept
<1>2. CASE BeginBlock \/ EndBlock
  BY <1>0, <1>2 DEF BeginBlock, EndBlock, Working, chain
<1>3. CASE NextTransaction
  <2>1. PICK t \in Template, spent \in SUBSET Spendable :
          /\ pc' = "inputs"
          /\ nextTxid' = nextTxid + 1
          /\ tx'.txid = nextTxid /\ tx'.inputs = {u.at : u \in spent}
          /\ utxos' = (utxos \ spent) \cup NewOutputs(nextTxid, t)
    BY <1>3, TakeStep
  <2>2. \A u \in spent : u \in utxos
    BY DEF Spendable
  <2>3. \A u \in NewOutputs(nextTxid, t) : u.at.txid = nextTxid
    BY DEF NewOutputs
  <2>4. nextTxid \in Nat \ {0} /\ \A u \in utxos : u.at.txid \in Nat
    BY TxFacts
  <2>5. Working' <=> tx'.txid > 0
    BY <2>1, <2>4 DEF Working
  <2>6. \A u \in utxos' : u.at.txid > 0 /\ u.at.txid < nextTxid'
    BY <1>0, <2>1, <2>3, <2>4
  <2>7. \A o \in tx'.inputs : o.txid > 0
    BY <1>0, <2>1, <2>2
  <2> QED
    BY <2>1, <2>4, <2>5, <2>6, <2>7
<1>4. CASE CreateOutpoints \/ MoveOutpoints
  BY <1>0, <1>4 DEF CreateOutpoints, MoveOutpoints, Working, chain
<1>5. CASE Mint
  BY <1>0, <1>5, MintStep DEF Working
<1>6. CASE Converting
  BY <1>0, <1>6, ConvertingStep DEF Working
<1>7. CASE FinishTransaction
  <2>1. tx' = NoTx /\ pc' = "block" /\ UNCHANGED <<utxos, nextTxid>>
    BY <1>7 DEF FinishTransaction, chain
  <2>2. NoTx.txid = 0 /\ NoTx.inputs = {}
    BY DEF NoTx
  <2>3. nextTxid > 0
    BY TxFacts
  <2> QED
    BY <1>0, <2>1, <2>2, <2>3 DEF Working
<1> QED
  BY <1>1, <1>2, <1>3, <1>4, <1>5, <1>6, <1>7, StepKinds

\* The loop over the inputs is left when none is pending.
LEMMA StepPendingTaken ==
  ASSUME UpdaterInvariant, ChainInvariant, [Next]_vars
  PROVE  PendingTaken'
<1> USE DEF PendingTaken
<1>0. PendingTaken
  BY DEF ChainInvariant
<1>1. CASE BeginBlock \/ EndBlock
  BY <1>0, <1>1 DEF BeginBlock, EndBlock
<1>2. CASE NextTransaction
  BY <1>2, TakeStep
<1>3. CASE \E o \in pending : TakeInput(o)
  BY <1>0, <1>3 DEF TakeInput
<1>4. CASE CreateOutpoints \/ MoveOutpoints
  BY <1>4 DEF CreateOutpoints, MoveOutpoints
<1>5. CASE Mint \/ Converting
  BY <1>0, <1>5, MintStep, ConvertingStep
<1>6. CASE NoMint \/ ApplyEdict \/ OverflowEdict
  BY <1>0, <1>6 DEF NoMint, ApplyEdict, OverflowEdict
<1>7. CASE AllocateRest \/ BurnRest \/ BurnOutput \/ DetectConversion
  BY <1>0, <1>7 DEF AllocateRest, BurnRest, AfterEdicts, BurnOutput, DetectConversion
<1>8. CASE RefuseConversion \/ ReturnInput \/ StoreOutput \/ FinishTransaction
  BY <1>0, <1>8 DEF RefuseConversion, ReturnInput, StoreOutput, FinishTransaction
<1>9. CASE UNCHANGED vars
  BY <1>0, <1>9 DEF vars
<1> QED
  BY <1>1, <1>2, <1>3, <1>4, <1>5, <1>6, <1>7, <1>8, <1>9, StepKinds DEF Steady

\* OutputsCreated is about the outputs and the transaction only.
LEMMA OutputsKept ==
  ASSUME OutputsCreated, Working' => Working, UNCHANGED <<utxos, tx, height>>
  PROVE  OutputsCreated'
  BY DEF OutputsCreated, Vouts, IsOpReturn

\* The outputs of a transaction are created with it.
LEMMA StepOutputsCreated ==
  ASSUME UpdaterInvariant, ChainInvariant, [Next]_vars
  PROVE  OutputsCreated'
<1>0. OutputsCreated
  BY DEF ChainInvariant
<1>1. CASE Steady
  BY <1>0, <1>1, SteadyStep, SteadyWorking, OutputsKept DEF Kept
<1>2. CASE BeginBlock \/ EndBlock \/ FinishTransaction
  BY <1>2 DEF BeginBlock, EndBlock, FinishTransaction, OutputsCreated, Working
<1>3. CASE NextTransaction
  <2>1. PICK t \in Template, spent \in SUBSET Spendable :
          /\ tx'.txid = nextTxid /\ tx'.outputs = t.outputs
          /\ utxos' = (utxos \ spent) \cup NewOutputs(nextTxid, t)
          /\ height' = height
    BY <1>3, TakeStep
  <2>2. \A u \in utxos : u.at.txid # nextTxid
    BY TxFacts DEF ChainInvariant, Numbered
  <2>3. Vouts' = 1..Len(t.outputs) /\ \A v : IsOpReturn(v)' <=> t.outputs[v].script = "op_return"
    BY <2>1 DEF Vouts, IsOpReturn
  <2>4. ASSUME NEW u \in utxos', u.at.txid = tx'.txid
        PROVE  /\ u.at.vout \in Vouts'
               /\ u.script = tx'.outputs[u.at.vout].script
               /\ u.value = tx'.outputs[u.at.vout].value
               /\ u.height = height'
    <3>1. u \in NewOutputs(nextTxid, t)
      BY <2>1, <2>2, <2>4
    <3> QED
      BY <2>1, <2>3, <3>1 DEF NewOutputs
  <2>5. ASSUME NEW v \in Vouts', ~IsOpReturn(v)'
        PROVE  \E u \in utxos' : u.at = [txid |-> tx'.txid, vout |-> v]
    <3> DEFINE u == [at |-> [txid |-> nextTxid, vout |-> v],
                     script |-> t.outputs[v].script, value |-> t.outputs[v].value,
                     height |-> height, coinbase |-> t.coinbase]
    <3>1. u \in NewOutputs(nextTxid, t)
      BY <2>3, <2>5 DEF NewOutputs
    <3>2. u \in utxos' /\ u.at = [txid |-> tx'.txid, vout |-> v]
      BY <2>1, <3>1
    <3> QED
      BY <3>2
  <2> QED
    BY <2>4, <2>5 DEF OutputsCreated
<1>4. CASE CreateOutpoints \/ MoveOutpoints
  BY <1>0, <1>4, OutputsKept DEF CreateOutpoints, MoveOutpoints, Working, chain
<1>5. CASE Mint \/ Converting
  BY <1>0, <1>5, OutputsKept, MintStep, ConvertingStep DEF Working
<1> QED
  BY <1>1, <1>2, <1>3, <1>4, <1>5, StepKinds

-----------------------------------------------------------------------------
(* The ends of the chains. *)

\* No output is at the outpoints that stand for none.
LEMMA NullIsNoTransaction == Null.txid = 0 /\ Missing.txid = 0 /\ Null # Missing
  BY DEF Null, Missing

(***************************************************************************)
(* The first output of a chain's script is unspent while its transaction is*)
(* indexed, and has the script and the value that are recorded.            *)
(***************************************************************************)
LEMMA FirstOutpointIsEnd ==
  ASSUME UpdaterInvariant, Numbered, OutputsCreated, Working, NEW c \in StateChange
  PROVE  /\ FirstOutpoint(c) # Missing
         /\ FirstOutpoint(c) = Null \/ FirstOutpoint(c).txid = tx.txid
         /\ FirstOutpoint(c).txid < nextTxid
         /\ \A u \in utxos : u.at = FirstOutpoint(c)
                               => u.script = c /\ u.value = FirstValue(c)
         /\ \/ FirstOutpoint(c) = Null
            \/ \E u \in utxos : /\ u.at = FirstOutpoint(c)
                                /\ u.script = c /\ u.value = FirstValue(c)
<1>1. /\ tx \in Tx /\ tx.txid \in Nat /\ nextTxid \in Nat \ {0} /\ tx.txid > 0
      /\ \A u \in utxos : u.at.txid > 0
  BY TxFacts DEF Numbered
<1>2. CASE ChainOutputs(c) = {}
  <2>1. FirstOutpoint(c) = Null
    BY <1>2 DEF FirstOutpoint
  <2>2. \A u \in utxos : u.at # Null
    BY <1>1, NullIsNoTransaction
  <2> QED
    BY <1>1, <2>1, <2>2, NullIsNoTransaction
<1>3. CASE ChainOutputs(c) # {}
  <2> DEFINE v == Min(ChainOutputs(c))
  <2>1. v \in ChainOutputs(c)
    BY <1>1, <1>3, FirstOutpointType
  <2>2. v \in Vouts /\ tx.outputs[v].script = c
    BY <2>1 DEF ChainOutputs
  <2>3. FirstOutpoint(c) = [txid |-> tx.txid, vout |-> v] /\ FirstValue(c) = tx.outputs[v].value
    BY <1>3 DEF FirstOutpoint, FirstValue
  <2> HIDE DEF v
  <2>4. ~IsOpReturn(v)
    BY <2>2 DEF IsOpReturn, StateChange
  <2>5. \A u \in utxos : u.at = FirstOutpoint(c) => u.script = c /\ u.value = FirstValue(c)
    BY <2>2, <2>3 DEF OutputsCreated
  <2>6. \E u \in utxos : u.at = FirstOutpoint(c)
    BY <2>2, <2>3, <2>4 DEF OutputsCreated
  <2>7. FirstOutpoint(c).txid = tx.txid
    BY <2>3
  <2>8. FirstOutpoint(c) # Missing /\ FirstOutpoint(c).txid < nextTxid
    BY <1>1, <2>7, NullIsNoTransaction DEF Numbered
  <2> QED
    BY <2>5, <2>6, <2>7, <2>8
<1> QED
  BY <1>2, <1>3

(***************************************************************************)
(* Some chains, all of them recorded, get the first outputs of their       *)
(* scripts as ends, and the others are not spent.                          *)
(***************************************************************************)
EndsMove(M) ==
  /\ lastOutpoint' = [c \in StateChange |->
                        IF c \in M THEN FirstOutpoint(c) ELSE lastOutpoint[c]]
  /\ lastValue' = [c \in StateChange |->
                     IF c \in M THEN FirstValue(c) ELSE lastValue[c]]

\* Chains that move so keep both properties of their ends.
LEMMA MovedEnds ==
  ASSUME UpdaterInvariant, ChainInvariant, Working,
         NEW M \in SUBSET StateChange, EndsMove(M),
         M # {} => \A c \in StateChange : lastOutpoint[c] # Missing,
         pc = "inputs" => \A c \in StateChange \ M : lastOutpoint[c] \notin tx.inputs,
         UNCHANGED <<utxos, nextTxid>>
  PROVE  EndsRecorded' /\ ChainEndUnspent'
<1>1. Numbered /\ OutputsCreated /\ EndsRecorded /\ ChainEndUnspent
  BY DEF ChainInvariant
<1>2. \A c \in StateChange :
        /\ lastOutpoint'[c] = IF c \in M THEN FirstOutpoint(c) ELSE lastOutpoint[c]
        /\ lastValue'[c] = IF c \in M THEN FirstValue(c) ELSE lastValue[c]
  BY DEF EndsMove
<1>3. EndsRecorded'
  <2>1. (\E c \in StateChange : lastOutpoint'[c] = Missing)
          => \A c \in StateChange : lastOutpoint'[c] = Missing
    BY <1>1, <1>2, FirstOutpointIsEnd DEF EndsRecorded
  <2>2. \A c \in StateChange : lastOutpoint'[c].txid < nextTxid'
    BY <1>1, <1>2, FirstOutpointIsEnd DEF EndsRecorded
  <2>3. ASSUME NEW c \in StateChange, NEW u \in utxos, u.at = lastOutpoint'[c]
        PROVE  u.script = c /\ u.value = lastValue'[c]
    <3>1. CASE c \in M
      BY <1>1, <1>2, <2>3, <3>1, FirstOutpointIsEnd
    <3>2. CASE c \notin M
      BY <1>1, <1>2, <2>3, <3>2 DEF EndsRecorded
    <3> QED
      BY <3>1, <3>2
  <2> QED
    BY <2>1, <2>2, <2>3 DEF EndsRecorded
<1>4. ASSUME NEW c \in StateChange, lastOutpoint'[c] \notin {Null, Missing}
      PROVE  \E u \in utxos : u.at = lastOutpoint'[c] /\ u.script = c /\ u.value = lastValue'[c]
  <2>1. CASE c \in M
    BY <1>1, <1>2, <1>4, <2>1, FirstOutpointIsEnd
  <2>2. CASE c \notin M
    BY <1>1, <1>2, <1>4, <2>2 DEF ChainEndUnspent, IsChainEnd
  <2> QED
    BY <2>1, <2>2
<1> QED
  BY <1>3, <1>4 DEF ChainEndUnspent, IsChainEnd

\* update_outpoints moves the chains whose ends are spent.
LEMMA MoveOutpointsEnds ==
  ASSUME UpdaterInvariant, MoveOutpoints
  PROVE  LET M == {c \in StateChange : lastOutpoint[c] \in tx.inputs}
         IN  EndsMove(M) /\ \A c \in StateChange : lastOutpoint[c] # Missing
  BY DEF MoveOutpoints, EndsMove

\* mint moves the mint chain when it starts it.
LEMMA MintEnds ==
  ASSUME UpdaterInvariant, ChainInvariant, Mint
  PROVE  LET M == IF StartsMintChain THEN {"mint"} ELSE {}
         IN  /\ EndsMove(M) /\ M \in SUBSET StateChange
             /\ M # {} => \A c \in StateChange : lastOutpoint[c] # Missing
<1>1. "mint" \in StateChange
  BY DEF StateChange
<1>2. lastOutpoint \in [StateChange -> Outpoint] /\ lastValue \in [StateChange -> Nat]
  BY TxFacts
<1>3. CASE StartsMintChain
  <2>1. EndsMove({"mint"})
    BY <1>1, <1>2, <1>3 DEF Mint, EndsMove
  <2>2. lastOutpoint["mint"] # Missing
    BY <1>3, NullIsNoTransaction DEF StartsMintChain
  <2>3. \A c \in StateChange : lastOutpoint[c] # Missing
    BY <1>1, <2>2 DEF ChainInvariant, EndsRecorded
  <2> QED
    BY <1>1, <1>3, <2>1, <2>3
<1>4. CASE ~StartsMintChain
  BY <1>1, <1>2, <1>4 DEF Mint, EndsMove
<1> QED
  BY <1>3, <1>4

\* A conversion moves its chain when it starts it.
LEMMA ConvertEnds ==
  ASSUME UpdaterInvariant, ChainInvariant, ConnectConversion
  PROVE  LET M == IF StartsConversionChain THEN {"convert"} ELSE {}
         IN  /\ EndsMove(M) /\ M \in SUBSET StateChange
             /\ M # {} => \A c \in StateChange : lastOutpoint[c] # Missing
<1>1. "convert" \in StateChange
  BY DEF StateChange
<1>2. lastOutpoint \in [StateChange -> Outpoint] /\ lastValue \in [StateChange -> Nat]
  BY TxFacts
<1>3. CASE StartsConversionChain
  <2>1. EndsMove({"convert"})
    BY <1>1, <1>2, <1>3 DEF ConnectConversion, EndsMove
  <2>2. lastOutpoint["convert"] # Missing
    BY <1>3, NullIsNoTransaction DEF StartsConversionChain
  <2>3. \A c \in StateChange : lastOutpoint[c] # Missing
    BY <1>1, <2>2 DEF ChainInvariant, EndsRecorded
  <2> QED
    BY <1>1, <1>3, <2>1, <2>3
<1>4. CASE ~StartsConversionChain
  BY <1>1, <1>2, <1>4 DEF ConnectConversion, EndsMove
<1> QED
  BY <1>3, <1>4

\* The ends of the chains stay recorded and unspent.
LEMMA StepEnds ==
  ASSUME UpdaterInvariant, ChainInvariant, [Next]_vars
  PROVE  EndsRecorded' /\ ChainEndUnspent'
<1>0. Numbered /\ EndsRecorded /\ ChainEndUnspent
  BY DEF ChainInvariant
<1>1. ASSUME UNCHANGED <<utxos, nextTxid, tx, lastOutpoint, lastValue>>,
             pc = "inputs" => pc' = "inputs"
      PROVE  EndsRecorded' /\ ChainEndUnspent'
  BY <1>0, <1>1 DEF EndsRecorded, ChainEndUnspent, IsChainEnd
<1>2. CASE Steady
  BY <1>1, <1>2, SteadyStep, SteadyWorking DEF Kept
<1>3. CASE BeginBlock \/ EndBlock
  BY <1>1, <1>3 DEF BeginBlock, EndBlock, chain
<1>4. CASE NextTransaction
  <2>1. PICK t \in Template, spent \in SUBSET Spendable :
          /\ pc = "block" /\ pc' = "inputs"
          /\ nextTxid' = nextTxid + 1
          /\ tx'.inputs = {u.at : u \in spent}
          /\ utxos' = (utxos \ spent) \cup NewOutputs(nextTxid, t)
          /\ lastOutpoint' = lastOutpoint /\ lastValue' = lastValue
    BY <1>4, TakeStep DEF tables
  <2>2. \A u \in NewOutputs(nextTxid, t) : u.at.txid = nextTxid
    BY DEF NewOutputs
  <2>3. nextTxid \in Nat /\ \A c \in StateChange : lastOutpoint[c].txid \in Nat
    BY TxFacts
  <2>4. EndsRecorded'
    <3>1. \A c \in StateChange : \A u \in utxos' :
            u.at = lastOutpoint[c] => u.script = c /\ u.value = lastValue[c]
      BY <1>0, <2>1, <2>2, <2>3 DEF EndsRecorded
    <3> QED
      BY <1>0, <2>1, <2>3, <3>1 DEF EndsRecorded
  <2>5. ASSUME NEW c \in StateChange, lastOutpoint[c] \notin {Null, Missing}
        PROVE  \/ lastOutpoint[c] \in tx'.inputs
               \/ \E u \in utxos' : u.at = lastOutpoint[c] /\ u.script = c /\ u.value = lastValue[c]
    <3>1. PICK u \in utxos : u.at = lastOutpoint[c] /\ u.script = c /\ u.value = lastValue[c]
      BY <1>0, <2>1, <2>5 DEF ChainEndUnspent, IsChainEnd
    <3> QED
      BY <2>1, <3>1
  <2> QED
    BY <2>1, <2>4, <2>5 DEF ChainEndUnspent, IsChainEnd
<1>5. CASE CreateOutpoints
  <2>1. \A c \in StateChange : lastOutpoint'[c] = Null /\ lastOutpoint[c] = Missing
    BY <1>0, <1>5 DEF CreateOutpoints, EndsRecorded
  <2>2. UNCHANGED <<utxos, nextTxid>> /\ nextTxid > 0
    BY <1>5, TxFacts DEF CreateOutpoints, chain
  <2>3. \A u \in utxos : u.at # Null
    BY <1>0, NullIsNoTransaction DEF Numbered
  <2> QED
    BY <2>1, <2>2, <2>3, NullIsNoTransaction DEF EndsRecorded, ChainEndUnspent
<1>6. CASE MoveOutpoints
  <2>1. Working /\ UNCHANGED <<utxos, nextTxid>>
    BY <1>6 DEF MoveOutpoints, Working, chain
  <2> QED
    BY <1>6, <2>1, MoveOutpointsEnds, MovedEnds
<1>7. CASE Mint
  <2>1. Working /\ pc # "inputs" /\ UNCHANGED <<utxos, nextTxid>>
    BY <1>7, MintStep DEF Working
  <2> QED
    BY <1>7, <2>1, MintEnds, MovedEnds
<1>8. CASE Converting
  <2>1. Working /\ pc # "inputs" /\ UNCHANGED <<utxos, nextTxid>> /\ ConnectConversion
    BY <1>8, ConvertingStep DEF Working
  <2> QED
    BY <2>1, ConvertEnds, MovedEnds
<1>9. CASE FinishTransaction
  <2>1. pc # "inputs" /\ UNCHANGED <<utxos, nextTxid, lastOutpoint, lastValue>>
    BY <1>9 DEF FinishTransaction, chain, tables
  <2> QED
    BY <1>0, <2>1 DEF EndsRecorded, ChainEndUnspent, IsChainEnd
<1> QED
  BY <1>2, <1>3, <1>4, <1>5, <1>6, <1>7, <1>8, <1>9, StepKinds

-----------------------------------------------------------------------------
(* The balances. *)

(***************************************************************************)
(* StoreOutput adds a row for an output that is unspent, and no empty one. *)
(***************************************************************************)
LEMMA StoreOutputBalances ==
  ASSUME UpdaterInvariant, ChainInvariant, StoreOutput
  PROVE  BalancesUnspent'
<1> DEFINE outpoint == [txid |-> tx.txid, vout |-> cursor]
<1>0. BalancesUnspent /\ OutputsCreated
  BY DEF ChainInvariant
<1>1. /\ pc = "store" /\ cursor \in Vouts
      /\ UNCHANGED <<utxos, pending>>
      /\ balances' = [o \in DOMAIN balances \cup
                            (IF Stored(cursor) THEN {outpoint} ELSE {}) |->
                        IF Stored(cursor) /\ o = outpoint THEN allocated[cursor]
                                                          ELSE balances[o]]
  BY DEF StoreOutput, chain
<1>2. allocated[cursor] \in [Rune -> Nat]
  BY <1>1 DEF UpdaterInvariant, TypeOK, TransactionType
<1>3. ASSUME NEW o \in DOMAIN balances'
      PROVE  /\ o \in {u.at : u \in utxos} \cup pending
             /\ \E r \in Rune : balances'[o][r] > 0
  <2>1. CASE Stored(cursor) /\ o = outpoint
    <3>1. \E u \in utxos : u.at = outpoint
      BY <1>0, <1>1, <2>1 DEF OutputsCreated, Working, Stored
    <3>2. allocated[cursor] # Zero
      BY <2>1 DEF Stored
    <3>3. \E r \in Rune : allocated[cursor][r] # 0
      BY <1>2, <3>2 DEF Zero
    <3>4. \E r \in Rune : allocated[cursor][r] > 0
      BY <1>2, <3>3
    <3>5. balances'[o] = allocated[cursor]
      BY <1>1, <2>1
    <3> QED
      BY <2>1, <3>1, <3>4, <3>5
  <2>2. CASE ~(Stored(cursor) /\ o = outpoint)
    <3>1. o \in DOMAIN balances
      BY <1>1, <2>2
    <3>2. balances'[o] = balances[o]
      BY <1>1, <2>2
    <3> QED
      BY <1>0, <3>1, <3>2 DEF BalancesUnspent
  <2> QED
    BY <2>1, <2>2
<1> QED
  BY <1>1, <1>3 DEF BalancesUnspent

(***************************************************************************)
(* A transaction that is taken spends outputs, which are then pending.     *)
(***************************************************************************)
LEMMA NextTransactionBalances ==
  ASSUME UpdaterInvariant, ChainInvariant, NextTransaction
  PROVE  BalancesUnspent'
<1>0. BalancesUnspent /\ PendingTaken
  BY DEF ChainInvariant
<1>1. PICK t \in Template, spent \in SUBSET Spendable :
        /\ pc = "block"
        /\ pending' = {u.at : u \in spent}
        /\ utxos' = (utxos \ spent) \cup NewOutputs(nextTxid, t)
        /\ balances' = balances
  BY TakeStep DEF tables
<1>2. pending = {}
  BY <1>0, <1>1 DEF PendingTaken
<1>3. ASSUME NEW o \in DOMAIN balances
      PROVE  o \in {u.at : u \in utxos'} \cup pending'
  <2>1. PICK u \in utxos : u.at = o
    BY <1>0, <1>2 DEF BalancesUnspent
  <2>2. CASE u \in spent
    BY <1>1, <2>1, <2>2
  <2>3. CASE u \notin spent
    BY <1>1, <2>1, <2>3
  <2> QED
    BY <2>2, <2>3
<1> QED
  BY <1>0, <1>1, <1>3 DEF BalancesUnspent

(***************************************************************************)
(* The row of an input is removed with the input.                          *)
(***************************************************************************)
LEMMA TakeInputBalances ==
  ASSUME BalancesUnspent, NEW o \in pending, TakeInput(o)
  PROVE  BalancesUnspent'
<1>1. utxos' = utxos /\ pending' = pending \ {o}
  BY DEF TakeInput, chain
<1>2. CASE o \in DOMAIN balances
  <2>1. balances' = [p \in DOMAIN balances \ {o} |-> balances[p]]
    BY <1>2 DEF TakeInput, WithoutRow
  <2> QED
    BY <1>1, <2>1 DEF BalancesUnspent
<1>3. CASE o \notin DOMAIN balances
  <2>1. balances' = balances
    BY <1>3 DEF TakeInput
  <2> QED
    BY <1>1, <1>3, <2>1 DEF BalancesUnspent
<1> QED
  BY <1>2, <1>3

\* Rows stay those of unspent outputs.
LEMMA StepBalances ==
  ASSUME UpdaterInvariant, ChainInvariant, [Next]_vars
  PROVE  BalancesUnspent'
<1>0. BalancesUnspent
  BY DEF ChainInvariant
<1>1. UNCHANGED <<balances, utxos, pending>> => BalancesUnspent'
  BY <1>0 DEF BalancesUnspent
<1>2. CASE StoreOutput
  BY <1>2, StoreOutputBalances
<1>3. CASE NextTransaction
  BY <1>3, NextTransactionBalances
<1>4. CASE \E o \in pending : TakeInput(o)
  BY <1>0, <1>4, TakeInputBalances
<1>5. CASE BeginBlock \/ EndBlock
  BY <1>1, <1>5 DEF BeginBlock, EndBlock, chain
<1>6. CASE CreateOutpoints \/ MoveOutpoints
  BY <1>1, <1>6 DEF CreateOutpoints, MoveOutpoints, chain
<1>7. CASE Mint \/ Converting
  BY <1>1, <1>7, MintStep, ConvertingStep
<1>8. CASE NoMint \/ ApplyEdict \/ OverflowEdict
  BY <1>1, <1>8 DEF NoMint, ApplyEdict, OverflowEdict, tables, chain
<1>9. CASE AllocateRest \/ BurnRest \/ BurnOutput \/ DetectConversion
  BY <1>1, <1>9 DEF AllocateRest, BurnRest, AfterEdicts, BurnOutput, DetectConversion,
                    tables, chain
<1>10. CASE RefuseConversion \/ ReturnInput \/ FinishTransaction
  BY <1>1, <1>10 DEF RefuseConversion, ReturnInput, FinishTransaction, tables, chain
<1>11. CASE UNCHANGED vars
  BY <1>1, <1>11 DEF vars, tables, chain
<1> QED
  BY <1>2, <1>3, <1>4, <1>5, <1>6, <1>7, <1>8, <1>9, <1>10, <1>11, StepKinds DEF Steady

-----------------------------------------------------------------------------
(* The mint. *)

(***************************************************************************)
(* A transaction that may mint is the first of its block to mint: the end  *)
(* of the chain would be another transaction's output.                     *)
(***************************************************************************)
LEMMA FirstMinter ==
  ASSUME UpdaterInvariant, ChainInvariant, Mint
  PROVE  minters = {}
<1> SUFFICES ASSUME minters # {} PROVE FALSE
  OBVIOUS
<1>1. pc = "mint" /\ MayMint
  BY MintStep
<1>2. tx.txid \notin minters /\ lastOutpoint["mint"].txid \in minters
  BY <1>1 DEF ChainInvariant, MintEndsAtMinter
<1>3. lastOutpoint["mint"] # Null
  BY <1>2, NullIsNoTransaction DEF ChainInvariant, MintEndsAtMinter
<1> QED
  BY <1>1, <1>2, <1>3 DEF MayMint, StartsMintChain

\* A block that has minted does not mint again.
LEMMA StepMints ==
  ASSUME UpdaterInvariant, ChainInvariant, [Next]_vars
  PROVE  MintEndsAtMinter' /\ OneMintPerBlock'
<1>0. /\ Numbered /\ OutputsCreated /\ EndsRecorded
      /\ MintEndsAtMinter /\ OneMintPerBlock
  BY DEF ChainInvariant
<1>1. "mint" \in StateChange /\ "convert" \in StateChange
  BY DEF StateChange
<1>2. ASSUME UNCHANGED <<utxos, nextTxid, tx, height, minters>>,
             lastOutpoint'["mint"] = lastOutpoint["mint"],
             pc' = "inputs" => pc = "inputs",
             pc' \in {"inputs", "mint"} => pc \in {"inputs", "mint"},
             pc = "idle" => pc' = "idle"
      PROVE  MintEndsAtMinter' /\ OneMintPerBlock'
  BY <1>0, <1>2 DEF MintEndsAtMinter, OneMintPerBlock
<1>3. CASE Steady
  BY <1>2, <1>3, SteadyStep, SteadyWorking DEF Kept
<1>4. CASE BeginBlock
  BY <1>4 DEF BeginBlock, MintEndsAtMinter, OneMintPerBlock
<1>5. CASE EndBlock
  BY <1>0, <1>5 DEF EndBlock, chain, history, MintEndsAtMinter, OneMintPerBlock
<1>6. CASE NextTransaction
  <2>1. PICK t \in Template, spent \in SUBSET Spendable :
          /\ pc = "block" /\ pc' = "inputs"
          /\ nextTxid' = nextTxid + 1
          /\ tx'.txid = nextTxid /\ tx'.inputs = {u.at : u \in spent}
          /\ utxos' = (utxos \ spent) \cup NewOutputs(nextTxid, t)
          /\ lastOutpoint' = lastOutpoint /\ minters' = minters /\ height' = height
    BY <1>6, TakeStep DEF tables
  <2>2. \A u \in NewOutputs(nextTxid, t) : u.height = height
    BY DEF NewOutputs
  <2>3. nextTxid \in Nat /\ minters \subseteq Nat /\ height \in Nat
        /\ \A u \in utxos : u.height \in Nat
    BY TxFacts
  <2>4. \A m \in minters' : m > 0 /\ m < nextTxid'
    BY <1>0, <2>1, <2>3 DEF MintEndsAtMinter
  <2>5. tx'.txid \notin minters'
    BY <1>0, <2>1, <2>3 DEF MintEndsAtMinter
  <2>6. ASSUME minters # {}
        PROVE  /\ lastOutpoint["mint"].txid \in minters
               /\ \A u \in utxos' : u.at.txid \in minters => u.height = height
               /\ lastOutpoint["mint"] \notin tx'.inputs
    <3>1. /\ lastOutpoint["mint"].txid \in minters
          /\ \A u \in utxos : u.at.txid \in minters => u.height = height
      BY <1>0, <2>1, <2>6 DEF MintEndsAtMinter
    <3>2. ASSUME NEW u \in spent, u.at = lastOutpoint["mint"]
          PROVE  FALSE
      <4>1. u \in utxos /\ (u.script = "mint" => u.height < height)
        BY DEF Spendable
      <4>2. u.script = "mint" /\ u.height = height
        BY <1>0, <1>1, <3>1, <3>2, <4>1 DEF EndsRecorded
      <4> QED
        BY <2>3, <4>1, <4>2
    <3> QED
      BY <2>1, <2>2, <3>1, <3>2
  <2> QED
    BY <1>0, <2>1, <2>4, <2>5, <2>6 DEF MintEndsAtMinter, OneMintPerBlock
<1>7. CASE CreateOutpoints
  <2>1. lastOutpoint["mint"] = Missing
    BY <1>0, <1>1, <1>7 DEF CreateOutpoints, EndsRecorded
  <2>2. pc = "inputs" /\ pc' = "mint" /\ UNCHANGED <<tx, nextTxid, minters>>
    BY <1>7 DEF CreateOutpoints, chain, history
  <2>3. minters = {}
    BY <1>0, <2>1, <2>2, NullIsNoTransaction DEF MintEndsAtMinter
  <2> QED
    BY <2>2, <2>3 DEF MintEndsAtMinter, OneMintPerBlock
<1>8. CASE MoveOutpoints
  <2>1. /\ pc = "inputs" /\ pc' = "mint"
        /\ UNCHANGED <<utxos, nextTxid, tx, height, minters>>
        /\ lastOutpoint["mint"] \notin tx.inputs
             => lastOutpoint'["mint"] = lastOutpoint["mint"]
    BY <1>1, <1>8 DEF MoveOutpoints, chain, history
  <2>2. minters # {} => lastOutpoint["mint"] \notin tx.inputs
    BY <1>0, <2>1 DEF MintEndsAtMinter
  <2> QED
    BY <1>0, <2>1, <2>2 DEF MintEndsAtMinter, OneMintPerBlock
<1>9. CASE Mint
  <2>1. /\ pc = "mint" /\ pc' = "edicts"
        /\ UNCHANGED <<utxos, nextTxid, tx, height>>
        /\ MayMint /\ minters' = {tx.txid}
    BY <1>9, MintStep, FirstMinter
  <2>2. tx.txid > 0 /\ tx.txid < nextTxid
    BY <1>0, <2>1 DEF Numbered, Working
  <2>3. lastOutpoint'["mint"].txid = tx.txid
    <3>1. lastOutpoint'["mint"] = IF StartsMintChain THEN FirstOutpoint("mint")
                                                     ELSE lastOutpoint["mint"]
      BY <1>1, <1>9, TxFacts DEF Mint
    <3> QED
      BY <2>1, <3>1 DEF MayMint, FirstOutpoint
  <2>4. \A u \in utxos : u.at.txid = tx.txid => u.height = height
    BY <1>0, <2>1 DEF OutputsCreated, Working
  <2> QED
    BY <2>1, <2>2, <2>3, <2>4 DEF MintEndsAtMinter, OneMintPerBlock
<1>10. CASE Converting
  <2>1. /\ pc = "convert" /\ pc' = "return"
        /\ UNCHANGED <<utxos, nextTxid, tx, height, minters>> /\ ConnectConversion
    BY <1>10, ConvertingStep
  <2>2. lastOutpoint'["mint"] = lastOutpoint["mint"]
    BY <1>1, <2>1, TxFacts DEF ConnectConversion
  <2> QED
    BY <1>2, <2>1, <2>2
<1>11. CASE FinishTransaction
  BY <1>0, <1>11 DEF FinishTransaction, tables, chain, history, MintEndsAtMinter, OneMintPerBlock
<1> QED
  BY <1>3, <1>4, <1>5, <1>6, <1>7, <1>8, <1>9, <1>10, <1>11, StepKinds

-----------------------------------------------------------------------------
(* The conversions. *)

\* The end of the conversion chain stays a descendant of the last conversion.
LEMMA StepDescends ==
  ASSUME UpdaterInvariant, ChainInvariant, [Next]_vars
  PROVE  EndDescends'
<1>0. Numbered /\ EndDescends /\ EndsRecorded
  BY DEF ChainInvariant
<1>1. "mint" \in StateChange /\ "convert" \in StateChange
  BY DEF StateChange
<1>2. ASSUME UNCHANGED <<tx, lineage, require>>, Working' => Working,
             lastOutpoint'["convert"] = lastOutpoint["convert"]
      PROVE  EndDescends'
  BY <1>0, <1>2 DEF EndDescends
<1>3. CASE Steady
  BY <1>2, <1>3, SteadyStep, SteadyWorking DEF Kept
<1>4. CASE BeginBlock
  BY <1>4 DEF BeginBlock, EndDescends
<1>5. CASE EndBlock
  BY <1>2, <1>5 DEF EndBlock, history, Working
<1>6. CASE NextTransaction
  <2>1. PICK t \in Template, spent \in SUBSET Spendable :
          /\ tx'.txid = nextTxid /\ tx'.inputs = {u.at : u \in spent}
          /\ lastOutpoint' = lastOutpoint /\ require' = require
          /\ lineage' = IF \E u \in spent : u.at.txid \in lineage
                        THEN lineage \cup {nextTxid} ELSE lineage
    BY <1>6, TakeStep DEF tables
  <2>2. nextTxid \in Nat \ {0}
    BY TxFacts
  <2>3. \A u \in spent : u.at.txid # nextTxid
    BY <1>0, TxFacts DEF Numbered, Spendable
  <2>4. \A m \in lineage' : m > 0
    BY <1>0, <2>1, <2>2 DEF EndDescends
  <2>5. ASSUME NEW u \in spent, u.at.txid \in lineage'
        PROVE  tx'.txid \in lineage'
    BY <2>1, <2>3, <2>5
  <2>6. lineage \subseteq lineage' /\ (lineage' # {} => lineage # {})
    BY <2>1
  <2> QED
    BY <1>0, <2>1, <2>4, <2>5, <2>6 DEF EndDescends
<1>7. CASE CreateOutpoints
  BY <1>0, <1>1, <1>7 DEF CreateOutpoints, EndDescends, Working, history
<1>8. CASE MoveOutpoints
  <2>1. /\ Working /\ UNCHANGED <<tx, lineage, require>>
        /\ lastOutpoint'["convert"] = IF lastOutpoint["convert"] \in tx.inputs
                                      THEN FirstOutpoint("convert")
                                      ELSE lastOutpoint["convert"]
    BY <1>1, <1>8 DEF MoveOutpoints, Working, history
  <2>2. FirstOutpoint("convert") = Null \/ FirstOutpoint("convert").txid = tx.txid
    BY DEF FirstOutpoint
  <2>3. Null \notin tx.inputs
    BY <1>0, NullIsNoTransaction DEF Numbered
  <2> QED
    BY <1>0, <2>1, <2>2, <2>3 DEF EndDescends
<1>9. CASE Mint
  <2>1. lastOutpoint'["convert"] = lastOutpoint["convert"]
    BY <1>1, <1>9, TxFacts DEF Mint
  <2> QED
    BY <1>2, <1>9, <2>1, MintStep DEF Working
<1>10. CASE Converting
  <2>1. /\ pc = "convert" /\ UNCHANGED tx /\ Connected /\ ConnectConversion
    BY <1>10, ConvertingStep
  <2>2. lineage' = {tx.txid} /\ tx.txid > 0
    BY <1>0, <2>1 DEF ConnectConversion, Numbered, Working
  <2>3. ASSUME require'
        PROVE  lastOutpoint'["convert"].txid = tx.txid
    <3>1. require /\ ~StartsConversionChain
      BY <2>1, <2>3 DEF ConnectConversion
    <3>2. lastOutpoint'["convert"] = lastOutpoint["convert"]
      BY <1>1, <2>1, <3>1, TxFacts DEF ConnectConversion
    <3> QED
      BY <2>1, <3>1, <3>2 DEF Connected
  <2> QED
    BY <2>1, <2>2, <2>3 DEF EndDescends
<1>11. CASE FinishTransaction
  BY <1>0, <1>11 DEF FinishTransaction, tables, history, EndDescends, Working
<1> QED
  BY <1>3, <1>4, <1>5, <1>6, <1>7, <1>8, <1>9, <1>10, <1>11, StepKinds

-----------------------------------------------------------------------------
(* The theorems. *)

\* The invariant holds of an empty index.
LEMMA InitChain == Init => ChainInvariant
<1> SUFFICES ASSUME Init PROVE ChainInvariant
  OBVIOUS
<1>1. tx.txid = 0 /\ tx.inputs = {} /\ pc = "idle" /\ nextTxid = 1
  BY DEF Init, NoTx
<1>2. /\ utxos = {} /\ pending = {} /\ minters = {} /\ lineage = {}
      /\ \A c \in StateChange : lastOutpoint[c] = Missing
      /\ DOMAIN balances = {}
  BY DEF Init
<1>3. Numbered /\ PendingTaken /\ OutputsCreated
  BY <1>1, <1>2 DEF Numbered, PendingTaken, OutputsCreated, Working
<1>4. EndsRecorded /\ ChainEndUnspent /\ BalancesUnspent
  BY <1>1, <1>2, NullIsNoTransaction DEF EndsRecorded, ChainEndUnspent, BalancesUnspent
<1>5. MintEndsAtMinter /\ OneMintPerBlock /\ EndDescends
  BY <1>1, <1>2 DEF MintEndsAtMinter, OneMintPerBlock, EndDescends, Working
<1> QED
  BY <1>3, <1>4, <1>5 DEF ChainInvariant

\* Every step keeps the invariant.
LEMMA StepChain ==
  UpdaterInvariant /\ ChainInvariant /\ [Next]_vars => ChainInvariant'
<1> SUFFICES ASSUME UpdaterInvariant, ChainInvariant, [Next]_vars
             PROVE  ChainInvariant'
  OBVIOUS
<1>1. Numbered' /\ PendingTaken' /\ OutputsCreated'
  BY StepNumbered, StepPendingTaken, StepOutputsCreated
<1>2. EndsRecorded' /\ ChainEndUnspent' /\ BalancesUnspent'
  BY StepEnds, StepBalances
<1>3. MintEndsAtMinter' /\ OneMintPerBlock' /\ EndDescends'
  BY StepMints, StepDescends
<1> QED
  BY <1>1, <1>2, <1>3 DEF ChainInvariant

\* The invariant holds in every behaviour.
LEMMA ChainInvariance == Spec => []ChainInvariant
<1> QED
  BY InitChain, StepChain, Invariance, PTL DEF Spec

(***************************************************************************)
(* ChainEndUnspent: the recorded end of a chain is an unspent output with  *)
(* the chain's script and the recorded value, through update_outpoints,    *)
(* mint and validate_rbf_and_conversion_outpoint.                          *)
(***************************************************************************)
THEOREM ChainEndsAreUnspent == Spec => []ChainEndUnspent
<1>1. ChainInvariant => ChainEndUnspent
  BY DEF ChainInvariant
<1> QED
  BY <1>1, ChainInvariance, PTL

(***************************************************************************)
(* BalancesUnspent: index_runes keeps no row for an output that is spent,  *)
(* and no empty row.                                                       *)
(***************************************************************************)
THEOREM BalancesAreUnspent == Spec => []BalancesUnspent
<1>1. ChainInvariant => BalancesUnspent
  BY DEF ChainInvariant
<1> QED
  BY <1>1, ChainInvariance, PTL

(***************************************************************************)
(* OneMintPerBlock: the burned pot is claimed once in a block at most,     *)
(* whatever transactions spend the end of the mint chain.                  *)
(***************************************************************************)
THEOREM OneMintInABlock == Spec => []OneMintPerBlock
<1>1. ChainInvariant => OneMintPerBlock
  BY DEF ChainInvariant
<1> QED
  BY <1>1, ChainInvariance, PTL

(***************************************************************************)
(* ConversionsDescend: while the conversion outpoint is required, a later  *)
(* conversion of a block spends a descendant of the earlier one.           *)
(***************************************************************************)
THEOREM LaterConversionsDescend == Spec => ConversionsDescend
<1>1. ASSUME UpdaterInvariant, ChainInvariant, Converts, lineage # {}, require'
      PROVE  tx.txid \in lineage
  <2>1. pc = "convert" /\ Connected /\ ConnectConversion
    BY <1>1, ConvertingStep DEF Converts, Converting
  <2>2. require /\ ~StartsConversionChain
    BY <1>1, <2>1 DEF ConnectConversion
  <2>3. lastOutpoint["convert"].txid = tx.txid
    BY <2>1, <2>2 DEF Connected
  <2>4. tx.txid > 0
    BY <1>1, <2>1 DEF ChainInvariant, Numbered, Working
  <2>5. lastOutpoint["convert"] # Null
    BY <2>3, <2>4, NullIsNoTransaction
  <2> QED
    BY <1>1, <2>2, <2>3, <2>5 DEF ChainInvariant, EndDescends
<1>2. UpdaterInvariant /\ ChainInvariant /\ [Next]_vars
        => [Converts /\ lineage # {} /\ require' => tx.txid \in lineage]_vars
  BY <1>1
<1> QED
  BY <1>2, ChainInvariance, Invariance, PTL DEF Spec, ConversionsDescend

-----------------------------------------------------------------------------
(* Totals. *)

\* A total is the value of a fold that satisfies the recurrence.
LEMMA TotalIsFold ==
  ASSUME NEW F, NEW S, IsFiniteSet(S), NEW r
  PROVE  \E g : IsFold(F, S, r, g) /\ Total(F, S, r) = g[S]
<1> DEFINE g == CHOOSE g : g = [s \in SUBSET S |->
                                 IF s = {} THEN 0 ELSE F[Some(s)][r] + g[s \ {Some(s)}]]
<1>1. g = [s \in SUBSET S |-> IF s = {} THEN 0 ELSE F[Some(s)][r] + g[s \ {Some(s)}]]
  <2>1. PICK f : IsFold(F, S, r, f)
    BY FoldExists
  <2>2. f = [s \in SUBSET S |-> IF s = {} THEN 0 ELSE F[Some(s)][r] + f[s \ {Some(s)}]]
    BY <2>1 DEF IsFold, FoldStep
  <2>3. \E h : h = [s \in SUBSET S |-> IF s = {} THEN 0 ELSE F[Some(s)][r] + h[s \ {Some(s)}]]
    BY <2>2, Zenon
  <2> QED BY <2>3, Zenon
<1>2. Total(F, S, r) = g[S]
  BY DEF Total, MapThenSumSet, MapThenFoldSet, Some
<1> QED BY <1>1, <1>2 DEF IsFold, FoldStep

\* Nobody holds nothing.
LEMMA TotalEmpty == ASSUME NEW F, NEW r PROVE Total(F, {}, r) = 0
<1>1. PICK g : IsFold(F, {}, r, g) /\ Total(F, {}, r) = g[{}]
  BY TotalIsFold, FS_EmptySet
<1> QED BY <1>1 DEF IsFold, FoldStep

\* Totals of natural amounts.
LEMMA TotalRemove ==
  ASSUME NEW F, NEW S, IsFiniteSet(S), NEW r, \A x \in S : F[x][r] \in Nat
  PROVE  /\ Total(F, S, r) \in Nat
         /\ \A x \in S : Total(F, S, r) = F[x][r] + Total(F, S \ {x}, r)
<1>1. PICK g : IsFold(F, S, r, g) /\ Total(F, S, r) = g[S]
  BY TotalIsFold
<1>2. Total(F, S, r) \in Nat
  BY <1>1, FoldRemoves
<1>3. ASSUME NEW x \in S PROVE Total(F, S, r) = F[x][r] + Total(F, S \ {x}, r)
  <2>1. g[S] = F[x][r] + g[S \ {x}]
    BY <1>1, FoldRemoves
  <2>2. IsFiniteSet(S \ {x})
    BY FS_RemoveElement
  <2>3. PICK h : IsFold(F, S \ {x}, r, h) /\ Total(F, S \ {x}, r) = h[S \ {x}]
    BY <2>2, TotalIsFold
  <2>4. g[S \ {x}] = h[S \ {x}]
    <3>1. S \ {x} \subseteq S /\ S \ {x} \subseteq S \ {x} /\ \A z \in S \ {x} : F[z][r] = F[z][r]
      OBVIOUS
    <3> DEFINE U == S \ {x}
    <3>2. IsFold(F, S, r, g) /\ IsFold(F, U, r, h) /\ U \subseteq S /\ U \subseteq U /\ \A z \in U : F[z][r] = F[z][r]
      BY <1>1, <2>3, <3>1
    <3> HIDE DEF U
    <3>3. g[U] = h[U]
      BY <3>2, FoldsAgree
    <3> QED BY <3>3 DEF U
  <2> QED BY <1>1, <2>1, <2>3, <2>4
<1> QED BY <1>2, <1>3

\* Equal amounts have equal totals.
LEMMA TotalSame ==
  ASSUME NEW F, NEW G, NEW S, IsFiniteSet(S), NEW r, \A x \in S : F[x][r] = G[x][r]
  PROVE  Total(F, S, r) = Total(G, S, r)
<1>1. PICK g : IsFold(F, S, r, g) /\ Total(F, S, r) = g[S]
  BY TotalIsFold
<1>2. PICK h : IsFold(G, S, r, h) /\ Total(G, S, r) = h[S]
  BY TotalIsFold
<1>3. IsFold(F, S, r, g) /\ IsFold(G, S, r, h) /\ S \subseteq S /\ IsFiniteSet(S)
      /\ \A x \in S : F[x][r] = G[x][r]
  BY <1>1, <1>2
<1>4. g[S] = h[S]
  BY <1>3, FoldsAgree, Z3T(60)
<1> QED BY <1>1, <1>2, <1>4

\* h adds up the amounts of r on each of the sets K of holders.
AddsUp(F, S, r, K, h) ==
  /\ \A x \in S : F[x][r] \in Nat
  /\ K \subseteq SUBSET S
  /\ \A T \in K : /\ T = {} => h[T] = 0
                  /\ T # {} => \E x \in T : T \ {x} \in K /\ h[T] = F[x][r] + h[T \ {x}]

\* What satisfies the recurrence of a total on some sets is the total.
LEMMA SumRule ==
  ASSUME NEW F, NEW S, IsFiniteSet(S), NEW r, NEW K, NEW h, AddsUp(F, S, r, K, h)
  PROVE  \A T \in K : h[T] = Total(F, T, r)
<1> DEFINE Bad == {n \in Nat : \E T \in K : Cardinality(T) = n /\ h[T] # Total(F, T, r)}
<1>0. \A T \in K : IsFiniteSet(T) /\ Cardinality(T) \in Nat /\ \A x \in T : F[x][r] \in Nat
  BY FS_Subset, FS_CardinalityType DEF AddsUp
<1>1. Bad = {}
  <2> SUFFICES ASSUME Bad # {} PROVE FALSE
    OBVIOUS
  <2>1. PICK n \in Bad : \A m \in Bad : n <= m
    <3>1. Bad \in SUBSET Nat
      OBVIOUS
    <3> HIDE DEF Bad
    <3> QED BY <3>1, LeastNatural
  <2>2. PICK T \in K : Cardinality(T) = n /\ h[T] # Total(F, T, r)
    BY <2>1
  <2>3. T # {}
    BY <2>2, TotalEmpty DEF AddsUp
  <2>4. PICK x \in T : T \ {x} \in K /\ h[T] = F[x][r] + h[T \ {x}]
    BY <2>3 DEF AddsUp
  <2>5. Cardinality(T \ {x}) = n - 1 /\ n - 1 \in Nat /\ ~(n <= n - 1)
    <3>1. Cardinality(T \ {x}) = Cardinality(T) - 1
      BY <1>0, FS_RemoveElement
    <3>2. Cardinality(T \ {x}) \in Nat /\ n \in Nat
      BY <1>0, <2>1, <2>4
    <3>3. Cardinality(T \ {x}) = n - 1
      BY <3>1, <2>2
    <3> QED BY <3>2, <3>3
  <2>6. h[T \ {x}] = Total(F, T \ {x}, r)
    <3>1. n - 1 \notin Bad
      BY <2>1, <2>5
    <3> QED BY <3>1, <2>5, <2>4
  <2>7. Total(F, T, r) = F[x][r] + Total(F, T \ {x}, r)
    <3>1. IsFiniteSet(T) /\ \A z \in T : F[z][r] \in Nat
      BY <1>0
    <3>2. \A z \in T : Total(F, T, r) = F[z][r] + Total(F, T \ {z}, r)
      BY <3>1, TotalRemove
    <3> QED BY <3>2
  <2> QED BY <2>2, <2>4, <2>6, <2>7
<1> QED BY <1>0, <1>1

\* A holder more.
LEMMA TotalAdd ==
  ASSUME NEW F, NEW S, IsFiniteSet(S), NEW r, NEW x, x \notin S,
         \A y \in S \cup {x} : F[y][r] \in Nat
  PROVE  Total(F, S \cup {x}, r) = F[x][r] + Total(F, S, r)
<1> DEFINE U == S \cup {x}
<1>1. IsFiniteSet(U) /\ x \in U /\ U \ {x} = S /\ \A y \in U : F[y][r] \in Nat
  BY FS_AddElement
<1> HIDE DEF U
<1>2. Total(F, U, r) = F[x][r] + Total(F, U \ {x}, r)
  BY <1>1, TotalRemove
<1> QED BY <1>1, <1>2 DEF U

\* One holder has another amount.
LEMMA TotalChange ==
  ASSUME NEW F, NEW G, NEW S, IsFiniteSet(S), NEW r, NEW x \in S,
         \A y \in S : F[y][r] \in Nat /\ G[y][r] \in Nat,
         \A y \in S \ {x} : F[y][r] = G[y][r]
  PROVE  Total(G, S, r) + F[x][r] = Total(F, S, r) + G[x][r]
<1> DEFINE U == S \ {x}
<1>1. IsFiniteSet(U) /\ \A y \in U : F[y][r] = G[y][r]
  BY FS_RemoveElement
<1>2. Total(F, S, r) = F[x][r] + Total(F, U, r) /\ Total(G, S, r) = G[x][r] + Total(G, U, r)
  BY TotalRemove
<1>3. Total(F, U, r) \in Nat /\ F[x][r] \in Nat /\ G[x][r] \in Nat
  BY <1>1, TotalRemove
<1>4. Total(F, U, r) = Total(G, U, r)
  <2> HIDE DEF U
  <2> QED BY <1>1, TotalSame
<1> HIDE DEF U
<1> DEFINE a == F[x][r]
           b == G[x][r]
           c == Total(F, U, r)
<1>5. Total(F, S, r) = a + c /\ Total(G, S, r) = b + c /\ a \in Nat /\ b \in Nat /\ c \in Nat
  BY <1>2, <1>3, <1>4
<1> HIDE DEF a, b, c
<1>6. Total(G, S, r) + a = Total(F, S, r) + b
  BY <1>5
<1> QED BY <1>6 DEF a, b

\* Every holder is given something.
Grows(F, D, G, S, r) ==
  \A x \in S : F[x][r] \in Nat /\ D[x][r] \in Nat /\ G[x][r] = F[x][r] + D[x][r]

\* The totals add up.
LEMMA TotalPlus ==
  ASSUME NEW F, NEW D, NEW G, NEW S, IsFiniteSet(S), NEW r, Grows(F, D, G, S, r)
  PROVE  Total(G, S, r) = Total(F, S, r) + Total(D, S, r)
<1> DEFINE K == SUBSET S
           h == [T \in K |-> Total(F, T, r) + Total(D, T, r)]
<1>1. ASSUME NEW T \in K, T = {} PROVE h[T] = 0
  BY <1>1, TotalEmpty
<1>2. ASSUME NEW T \in K, T # {}
      PROVE  \E x \in T : T \ {x} \in K /\ h[T] = G[x][r] + h[T \ {x}]
  <2>1. PICK x \in T : TRUE
    BY <1>2
  <2>2. IsFiniteSet(T) /\ IsFiniteSet(T \ {x}) /\ x \in S /\ T \ {x} \in K
    BY FS_Subset
  <2>3. /\ Total(F, T, r) = F[x][r] + Total(F, T \ {x}, r)
        /\ Total(D, T, r) = D[x][r] + Total(D, T \ {x}, r)
    <3>1. \A y \in T : F[y][r] \in Nat /\ D[y][r] \in Nat
      BY DEF Grows
    <3> QED BY <2>2, <3>1, TotalRemove
  <2>4. Total(F, T \ {x}, r) \in Nat /\ Total(D, T \ {x}, r) \in Nat
    <3> DEFINE U == T \ {x}
    <3>1. \A y \in U : F[y][r] \in Nat /\ D[y][r] \in Nat
      BY DEF Grows
    <3>2. IsFiniteSet(U)
      BY <2>2
    <3> HIDE DEF U
    <3>3. Total(F, U, r) \in Nat /\ Total(D, U, r) \in Nat
      BY <3>1, <3>2, TotalRemove
    <3> QED BY <3>3 DEF U
  <2>5. F[x][r] \in Nat /\ D[x][r] \in Nat /\ G[x][r] = F[x][r] + D[x][r]
    BY <2>2 DEF Grows
  <2>6. h[T] = Total(F, T, r) + Total(D, T, r)
        /\ h[T \ {x}] = Total(F, T \ {x}, r) + Total(D, T \ {x}, r)
    BY <2>2
  <2> DEFINE a == F[x][r]
             b == D[x][r]
             c == Total(F, T \ {x}, r)
             d == Total(D, T \ {x}, r)
  <2>7. /\ h[T] = (a + c) + (b + d) /\ h[T \ {x}] = c + d /\ G[x][r] = a + b
        /\ a \in Nat /\ b \in Nat /\ c \in Nat /\ d \in Nat
    BY <2>3, <2>4, <2>5, <2>6
  <2> HIDE DEF a, b, c, d, h
  <2>8. h[T] = G[x][r] + h[T \ {x}]
    BY <2>7
  <2> QED BY <2>2, <2>8
<1>3. \A x \in S : G[x][r] \in Nat
  BY DEF Grows
<1>4. K \subseteq SUBSET S /\ S \in K
  OBVIOUS
<1>5. h[S] = Total(F, S, r) + Total(D, S, r)
  OBVIOUS
<1> HIDE DEF K, h
<1>6. AddsUp(G, S, r, K, h)
  BY <1>1, <1>2, <1>3, <1>4 DEF AddsUp
<1>7. \A T \in K : h[T] = Total(G, T, r)
  BY <1>6, SumRule
<1> QED BY <1>4, <1>5, <1>7

\* Nobody has any.
LEMMA TotalZero ==
  ASSUME NEW F, NEW S, IsFiniteSet(S), NEW r, \A x \in S : F[x][r] = 0
  PROVE  Total(F, S, r) = 0
<1> DEFINE K == SUBSET S
           h == [T \in K |-> 0]
<1>1. ASSUME NEW T \in K, T # {}
      PROVE  \E x \in T : T \ {x} \in K /\ h[T] = F[x][r] + h[T \ {x}]
  <2>1. PICK x \in T : TRUE
    BY <1>1
  <2> QED BY <2>1
<1>2. K \subseteq SUBSET S /\ S \in K /\ h[S] = 0 /\ (\A T \in K : h[T] = 0)
      /\ \A x \in S : F[x][r] \in Nat
  OBVIOUS
<1> HIDE DEF K, h
<1>3. AddsUp(F, S, r, K, h)
  BY <1>1, <1>2 DEF AddsUp
<1>4. \A T \in K : h[T] = Total(F, T, r)
  BY <1>3, SumRule
<1> QED BY <1>2, <1>4

\* Those who have none do not count.
LEMMA TotalWithin ==
  ASSUME NEW F, NEW S, IsFiniteSet(S), NEW D, D \subseteq S, NEW r,
         \A x \in D : F[x][r] \in Nat, \A x \in S \ D : F[x][r] = 0
  PROVE  Total(F, S, r) = Total(F, D, r)
<1> DEFINE K == {T \in SUBSET S : TRUE}
           h == [T \in K |-> Total(F, T \cap D, r)]
<1>1. ASSUME NEW T \in K, T = {} PROVE h[T] = 0
  <2>1. T \cap D = {}
    BY <1>1
  <2> QED BY <2>1, TotalEmpty
<1>2. ASSUME NEW T \in K, T # {}
      PROVE  \E x \in T : T \ {x} \in K /\ h[T] = F[x][r] + h[T \ {x}]
  <2>1. PICK x \in T : TRUE
    BY <1>2
  <2>2. T \ {x} \in K /\ h[T \ {x}] = Total(F, (T \ {x}) \cap D, r) /\ h[T] = Total(F, T \cap D, r)
    OBVIOUS
  <2>3. Total(F, T \cap D, r) \in Nat
    <3> DEFINE U == T \cap D
    <3>1. IsFiniteSet(U) /\ \A y \in U : F[y][r] \in Nat
      BY FS_Subset
    <3> HIDE DEF U
    <3>2. Total(F, U, r) \in Nat
      BY <3>1, TotalRemove
    <3> QED BY <3>2 DEF U
  <2>4. CASE x \in D
    <3> DEFINE U == T \cap D
    <3>1. IsFiniteSet(U) /\ x \in U /\ (T \ {x}) \cap D = U \ {x} /\ \A y \in U : F[y][r] \in Nat
      BY <2>4, FS_Subset
    <3> HIDE DEF U
    <3>2. Total(F, U, r) = F[x][r] + Total(F, U \ {x}, r)
      BY <3>1, TotalRemove
    <3>3. h[T] = F[x][r] + h[T \ {x}]
      BY <2>2, <3>1, <3>2 DEF U
    <3> QED BY <2>2, <3>3
  <2>5. CASE x \notin D
    <3>1. (T \ {x}) \cap D = T \cap D /\ F[x][r] = 0
      BY <2>5
    <3>2. h[T] \in Nat /\ h[T] = h[T \ {x}]
      BY <2>2, <2>3, <3>1
    <3> HIDE DEF h
    <3>3. h[T] = F[x][r] + h[T \ {x}]
      BY <3>1, <3>2
    <3> QED BY <2>2, <3>3
  <2> QED BY <2>4, <2>5
<1>3. \A x \in S : F[x][r] \in Nat
  OBVIOUS
<1>4. K \subseteq SUBSET S /\ S \in K /\ h[S] = Total(F, D, r)
  <2>1. S \cap D = D
    OBVIOUS
  <2> QED BY <2>1
<1> HIDE DEF K, h
<1>5. AddsUp(F, S, r, K, h)
  BY <1>1, <1>2, <1>3, <1>4 DEF AddsUp
<1>6. \A T \in K : h[T] = Total(F, T, r)
  BY <1>5, SumRule
<1> QED BY <1>4, <1>6

-----------------------------------------------------------------------------
(* Sums over the outputs in their order. *)

\* A nonempty finite set of numbers has a greatest.
LEMMA GreatestExists ==
  ASSUME NEW T \in SUBSET Nat, IsFiniteSet(T), T # {}
  PROVE  \E x \in T : \A y \in T : y <= x
<1> DEFINE Bounds == {n \in Nat : \E x \in T : Cardinality({y \in T : y > x}) = n}
           above(x) == {y \in T : y > x}
<1>1. \A x \in T : IsFiniteSet(above(x)) /\ Cardinality(above(x)) \in Nat
  BY FS_Subset, FS_CardinalityType
<1>2. Bounds \in SUBSET Nat /\ Bounds # {}
  BY <1>1
<1>3. PICK n \in Bounds : \A m \in Bounds : n <= m
  <2> HIDE DEF Bounds
  <2> QED BY <1>2, LeastNatural
<1>4. PICK x \in T : Cardinality(above(x)) = n
  BY <1>3
<1>5. ASSUME NEW y \in T, ~(y <= x) PROVE FALSE
  <2>1. x \in Nat /\ y \in Nat /\ y > x
    BY <1>5
  <2>2. above(y) \subseteq above(x) /\ y \in above(x) /\ y \notin above(y)
    <3>1. ASSUME NEW z \in T, z > y PROVE z > x
      <4>1. z \in Nat
        OBVIOUS
      <4> QED BY <4>1, <3>1, <2>1
    <3>2. above(y) \subseteq above(x)
      BY <3>1
    <3>3. ~(y > y)
      BY <2>1
    <3> QED BY <2>1, <3>2, <3>3
  <2>3. Cardinality(above(y)) <= Cardinality(above(x)) /\ Cardinality(above(y)) # Cardinality(above(x))
    BY <1>1, <2>2, FS_Subset
  <2>4. Cardinality(above(y)) \in Bounds
    BY <1>1
  <2>5. n <= Cardinality(above(y))
    BY <1>3, <2>4
  <2>6. n \in Nat /\ Cardinality(above(y)) \in Nat
    BY <1>1, <1>3
  <2> HIDE DEF above
  <2> QED BY <1>4, <2>3, <2>5, <2>6
<1> QED BY <1>4, <1>5

\* The rank of an output among the others.
LEMMA RankType ==
  ASSUME NEW D \in SUBSET Nat, IsFiniteSet(D), NEW v \in D
  PROVE  Rank(v, D) \in Nat /\ Rank(v, D) + 1 <= Cardinality(D)
<1> DEFINE below == {w \in D : w < v}
<1>1. below \subseteq D /\ v \in D /\ v \notin below
  OBVIOUS
<1> HIDE DEF below
<1>2. IsFiniteSet(below) /\ Cardinality(below) \in Nat /\ Cardinality(D) \in Nat
  BY <1>1, FS_Subset, FS_CardinalityType
<1>3. Cardinality(below) <= Cardinality(D) /\ Cardinality(below) # Cardinality(D)
  BY <1>1, FS_Subset
<1>4. Rank(v, D) = Cardinality(below)
  BY DEF Rank, below
<1> QED BY <1>2, <1>3, <1>4

\* Amounts that are the steps of p from 0, in the order of the holders, add up to
\* its last value.
LEMMA SumInOrder ==
  ASSUME NEW D \in SUBSET Nat, IsFiniteSet(D), NEW F, NEW r, NEW p,
         p[0] = 0, \A v \in D : F[v][r] \in Nat,
         \A v \in D : p[Rank(v, D) + 1] = F[v][r] + p[Rank(v, D)]
  PROVE  Total(F, D, r) = p[Cardinality(D)]
<1> DEFINE K == {T \in SUBSET D : \A v \in T : \A w \in D : w < v => w \in T}
           h == [T \in K |-> p[Cardinality(T)]]
<1>1. ASSUME NEW T \in K, T = {} PROVE h[T] = 0
  BY <1>1, FS_EmptySet
<1>2. ASSUME NEW T \in K, T # {}
      PROVE  \E x \in T : T \ {x} \in K /\ h[T] = F[x][r] + h[T \ {x}]
  <2>1. T \in SUBSET Nat /\ T \subseteq D /\ IsFiniteSet(T)
    BY FS_Subset
  <2>2. PICK x \in T : \A y \in T : y <= x
    BY <1>2, <2>1, GreatestExists
  <2>3. {w \in D : w < x} = T \ {x}
    <3>1. x \in Nat /\ \A w \in D : w \in Nat
      BY <2>1
    <3>2. ASSUME NEW w \in D, w < x PROVE w \in T \ {x}
      BY <3>1, <3>2
    <3>3. ASSUME NEW w \in T \ {x} PROVE w \in D /\ w < x
      BY <2>1, <2>2, <3>1
    <3> QED BY <3>2, <3>3
  <2>4. T \ {x} \in K
    <3>1. ASSUME NEW v \in T \ {x}, NEW w \in D, w < v PROVE w \in T \ {x}
      <4>1. w \in T /\ v <= x /\ w \in Nat /\ v \in Nat /\ x \in Nat
        BY <2>1, <2>2, <3>1
      <4>2. w # x
        BY <3>1, <4>1
      <4> QED BY <4>1, <4>2
    <3> QED BY <3>1
  <2>5. Rank(x, D) = Cardinality(T \ {x})
    BY <2>3 DEF Rank
  <2>6. Cardinality(T) = Rank(x, D) + 1
    <3>1. Cardinality(T \ {x}) = Cardinality(T) - 1 /\ Cardinality(T) \in Nat
      BY <2>1, FS_RemoveElement, FS_CardinalityType
    <3> QED BY <3>1, <2>5
  <2>7. h[T] = p[Rank(x, D) + 1] /\ h[T \ {x}] = p[Rank(x, D)]
    BY <2>4, <2>5, <2>6
  <2> HIDE DEF h
  <2> QED BY <2>1, <2>4, <2>7
<1>3. K \subseteq SUBSET D /\ D \in K /\ h[D] = p[Cardinality(D)]
  OBVIOUS
<1> HIDE DEF K, h
<1>4. AddsUp(F, D, r, K, h)
  BY <1>1, <1>2, <1>3 DEF AddsUp
<1>5. \A T \in K : h[T] = Total(F, T, r)
  BY <1>4, SumRule
<1> QED BY <1>3, <1>5

-----------------------------------------------------------------------------
(* What an edict gives and wants, summed over the outputs. *)

\* Amounts for the outputs, of one rune.
OfRune(amounts, id) == [v \in Vouts |-> [q \in Rune |-> IF q = id THEN amounts[v] ELSE 0]]

(***************************************************************************)
(* The product of an edict's amount and the number of destinations, which  *)
(* a release build does not check, is within a u128.                       *)
(***************************************************************************)
ProductFits(e) == e.amount * Cardinality(ValidDestinations) < LotModulus

\* What the outputs are given is taken from the balance, and what they want is
\* added to the amount to convert.
Balanced(e, effect) ==
  /\ Total(OfRune(effect.give, e.id), Vouts, e.id) = effect.given
  /\ Total(OfRune(effect.want, e.id), Vouts, e.id) = effect.wanted

\* The outputs of a transaction, and those an edict may give to, are finitely many
\* numbers.
LEMMA FiniteOutputs ==
  ASSUME tx \in Tx
  PROVE  /\ IsFiniteSet(Vouts) /\ Vouts \in SUBSET Nat
         /\ ValidDestinations \subseteq Vouts /\ IsFiniteSet(ValidDestinations)
         /\ Cardinality(ValidDestinations) \in Nat
<1>1. IsFiniteSet(Vouts) /\ Vouts \in SUBSET Nat
  BY OutputsType, FS_Interval DEF Vouts
<1>2. ValidDestinations \subseteq Vouts
  BY DEF ValidDestinations
<1> QED BY <1>1, <1>2, FS_Subset, FS_CardinalityType

\* Amounts of one rune are amounts, and none of another.
LEMMA OfType ==
  ASSUME NEW amounts \in [Vouts -> Nat], NEW id \in Rune
  PROVE  /\ OfRune(amounts, id) \in [Vouts -> [Rune -> Nat]]
         /\ \A v \in Vouts : OfRune(amounts, id)[v][id] = amounts[v]
         /\ \A v \in Vouts : \A q \in Rune \ {id} : OfRune(amounts, id)[v][q] = 0
  BY DEF OfRune

\* Nobody gets anything.
LEMMA NothingAdds ==
  ASSUME tx \in Tx, NEW id \in Rune
  PROVE  Total(OfRune(Nothing, id), Vouts, id) = 0
<1>1. \A v \in Vouts : OfRune(Nothing, id)[v][id] = 0
  BY DEF OfRune, Nothing
<1> QED BY <1>1, FiniteOutputs, TotalZero

\* One output gets an amount.
LEMMA OneAdds ==
  ASSUME tx \in Tx, NEW id \in Rune, NEW o, NEW n \in Nat
  PROVE  o \in Vouts => Total(OfRune([Nothing EXCEPT ![o] = n], id), Vouts, id) = n
<1> SUFFICES ASSUME o \in Vouts PROVE Total(OfRune([Nothing EXCEPT ![o] = n], id), Vouts, id) = n
  OBVIOUS
<1> DEFINE F == OfRune([Nothing EXCEPT ![o] = n], id)
           D == {o}
<1>1. F[o][id] = n /\ \A v \in Vouts \ D : F[v][id] = 0
  BY DEF OfRune, Nothing
<1>2. D \subseteq Vouts /\ IsFiniteSet(D) /\ \A v \in D : F[v][id] \in Nat
  BY <1>1, FS_Singleton
<1>3. o \in D /\ D \ {o} = {}
  OBVIOUS
<1> HIDE DEF F, D
<1>4. Total(F, Vouts, id) = Total(F, D, id)
  BY <1>1, <1>2, FiniteOutputs, TotalWithin
<1>5. Total(F, D, id) = F[o][id] + Total(F, {}, id)
  BY <1>2, <1>3, TotalRemove
<1>6. Total(F, {}, id) = 0
  BY TotalEmpty
<1> QED BY <1>1, <1>4, <1>5, <1>6 DEF F

\* What only destinations get.
LEMMA DestinationsOnly ==
  ASSUME tx \in Tx, NEW F, NEW id, \A v \in ValidDestinations : F[v][id] \in Nat,
         \A v \in Vouts \ ValidDestinations : F[v][id] = 0
  PROVE  Total(F, Vouts, id) = Total(F, ValidDestinations, id)
  BY FiniteOutputs, TotalWithin

\* The destinations get amounts that are the steps of p, in their order.
LEMMA DestinationsAdd ==
  ASSUME tx \in Tx, NEW id \in Rune, NEW amounts \in [Vouts -> Nat], NEW p,
         p[0] = 0, \A v \in Vouts \ ValidDestinations : amounts[v] = 0,
         \A v \in ValidDestinations :
           p[Rank(v, ValidDestinations) + 1] = amounts[v] + p[Rank(v, ValidDestinations)]
  PROVE  Total(OfRune(amounts, id), Vouts, id) = p[Cardinality(ValidDestinations)]
<1> DEFINE F == OfRune(amounts, id)
           D == ValidDestinations
<1>1. D \subseteq Vouts /\ D \in SUBSET Nat /\ IsFiniteSet(D) /\ IsFiniteSet(Vouts)
  BY FiniteOutputs
<1>2. \A v \in D : F[v][id] = amounts[v] /\ F[v][id] \in Nat
  BY <1>1, OfType
<1>3. \A v \in D : F[v][id] \in Nat
  BY <1>2
<1>4. \A v \in Vouts \ D : F[v][id] = 0
  BY <1>1, OfType
<1>5. \A v \in D : p[Rank(v, D) + 1] = F[v][id] + p[Rank(v, D)]
  BY <1>2
<1> HIDE DEF F, D
<1>6. Total(F, Vouts, id) = Total(F, D, id)
  BY <1>3, <1>4, DestinationsOnly DEF D
<1>7. Total(F, D, id) = p[Cardinality(D)]
  BY <1>1, <1>3, <1>5, SumInOrder
<1> QED BY <1>6, <1>7 DEF F, D

\* An edict of a rune that is not held.
LEMMA UnheldBalanced ==
  ASSUME tx \in Tx, NEW e \in Edict, e.output \in 1..(Len(tx.outputs) + 1),
         ToEach(e) => ProductFits(e)
  PROVE  Balanced(e, UnheldEffect(e))
<1> DEFINE effect == UnheldEffect(e)
           targets == IF ToEach(e) THEN ValidDestinations ELSE {e.output}
           want == [v \in Vouts |-> IF v \in targets THEN e.amount ELSE 0]
<1>0. e.id \in Rune /\ e.amount \in Nat
  BY DEF Edict
<1>1. Total(OfRune(effect.give, e.id), Vouts, e.id) = effect.given
  BY <1>0, NothingAdds DEF UnheldEffect
<1>2. effect.want = want
  BY DEF UnheldEffect
<1>3. CASE ~ToEach(e)
  <2>1. e.output \in Vouts
    BY <1>3, OutputsType DEF ToEach, Vouts
  <2>2. want = [Nothing EXCEPT ![e.output] = e.amount]
    BY <1>3, <2>1 DEF Nothing
  <2>3. effect.wanted = e.amount
    BY <1>3 DEF UnheldEffect
  <2> HIDE DEF want, effect
  <2>4. Total(OfRune(want, e.id), Vouts, e.id) = e.amount
    BY <1>0, <2>1, <2>2, OneAdds
  <2> QED BY <1>1, <1>2, <2>3, <2>4 DEF Balanced, effect
<1>4. CASE ToEach(e)
  <2> DEFINE n == Cardinality(ValidDestinations)
             a == e.amount
             p == [k \in Nat |-> a * k]
  <2>1. n \in Nat /\ a \in Nat
    BY <1>0, FiniteOutputs
  <2>2. effect.wanted = a * n
    <3>1. effect.wanted = (a * n) % LotModulus
      BY <1>4 DEF UnheldEffect
    <3>2. a * n \in Nat /\ a * n < LotModulus
      BY <1>4, <2>1 DEF ProductFits
    <3> HIDE DEF a, n, effect
    <3> QED BY <3>1, <3>2, LotAssumption, BelowWidth
  <2>3. want \in [Vouts -> Nat] /\ \A v \in Vouts \ ValidDestinations : want[v] = 0
    BY <1>0, <1>4
  <2>4. \A v \in ValidDestinations : want[v] = a
    BY <1>4, FiniteOutputs
  <2>5. \A v \in ValidDestinations :
          p[Rank(v, ValidDestinations) + 1] = want[v] + p[Rank(v, ValidDestinations)]
    <3> SUFFICES ASSUME NEW v \in ValidDestinations
                 PROVE  p[Rank(v, ValidDestinations) + 1] = want[v] + p[Rank(v, ValidDestinations)]
      OBVIOUS
    <3> DEFINE k == Rank(v, ValidDestinations)
    <3>1. k \in Nat /\ k + 1 \in Nat
      BY FiniteOutputs, RankType
    <3> HIDE DEF k, a
    <3>2. p[k + 1] = a * (k + 1) /\ p[k] = a * k
      BY <3>1
    <3>3. a * (k + 1) = a + a * k
      BY <2>1, <3>1
    <3> HIDE DEF p, want
    <3>4. p[k + 1] = want[v] + p[k]
      BY <2>4, <3>2, <3>3
    <3> QED BY <3>4 DEF k
  <2>6. p[0] = 0 /\ p[n] = a * n
    BY <2>1
  <2> HIDE DEF want, p, effect
  <2>7. Total(OfRune(want, e.id), Vouts, e.id) = p[n]
    BY <1>0, <2>3, <2>5, <2>6, DestinationsAdd
  <2> QED BY <1>1, <1>2, <2>2, <2>6, <2>7 DEF Balanced, effect
<1> QED BY <1>3, <1>4

\* An edict of the amount zero to every destination.
LEMMA SplitBalanced ==
  ASSUME tx \in Tx, NEW e \in Edict, NEW balance \in Nat
  PROVE  Balanced(e, SplitEffect(balance))
<1> DEFINE effect == SplitEffect(balance)
           n == Cardinality(ValidDestinations)
           q == balance \div n
           m == balance % n
           part(v) == q + (IF Rank(v, ValidDestinations) < m THEN 1 ELSE 0)
           give == [v \in Vouts |-> IF v \in ValidDestinations THEN part(v) ELSE 0]
           p == [k \in Nat |-> k * q + Smaller(k, m)]
<1>0. e.id \in Rune
  BY DEF Edict
<1>1. Total(OfRune(effect.want, e.id), Vouts, e.id) = effect.wanted
  BY <1>0, NothingAdds DEF SplitEffect
<1>2. effect.give = give /\ effect.given = IF n = 0 THEN 0 ELSE balance
  BY DEF SplitEffect
<1>3. n \in Nat /\ (n = 0 <=> ValidDestinations = {})
  BY CountOutputs DEF ValidDestinations
<1>4. give \in [Vouts -> Nat]
  <2>1. EffectType(e, effect, balance)
    BY SplitEffectType
  <2> QED BY <1>2, <2>1 DEF EffectType
<1>5. CASE n = 0
  <2>1. \A v \in Vouts : give[v] = 0
    BY <1>3, <1>5
  <2> HIDE DEF give
  <2>2. \A v \in Vouts : OfRune(give, e.id)[v][e.id] = 0
    BY <1>0, <1>4, <2>1, OfType
  <2>3. Total(OfRune(give, e.id), Vouts, e.id) = 0
    BY <2>2, FiniteOutputs, TotalZero
  <2> QED BY <1>1, <1>2, <1>5, <2>3 DEF Balanced
<1>6. CASE n # 0
  <2>1. q \in Nat /\ m \in 0..(n - 1) /\ n * q + m = balance
    <3>1. n \in Nat \ {0}
      BY <1>3, <1>6
    <3> HIDE DEF n
    <3> QED BY <3>1, DivisionType
  <2>2. \A v \in Vouts \ ValidDestinations : give[v] = 0
    OBVIOUS
  <2>3. \A v \in ValidDestinations :
          p[Rank(v, ValidDestinations) + 1] = give[v] + p[Rank(v, ValidDestinations)]
    <3> SUFFICES ASSUME NEW v \in ValidDestinations
                 PROVE  p[Rank(v, ValidDestinations) + 1] = give[v] + p[Rank(v, ValidDestinations)]
      OBVIOUS
    <3> DEFINE k == Rank(v, ValidDestinations)
    <3>1. k \in Nat /\ k + 1 \in Nat
      BY FiniteOutputs, RankType
    <3>2. give[v] = q + (IF k < m THEN 1 ELSE 0)
      BY FiniteOutputs
    <3>3. m \in Nat
      <4> HIDE DEF m, n, q
      <4> QED BY <1>3, <2>1
    <3> HIDE DEF k, q, m, give
    <3>4. p[k + 1] = (k + 1) * q + Smaller(k + 1, m) /\ p[k] = k * q + Smaller(k, m)
      BY <3>1
    <3>5. (k + 1) * q = q + k * q /\ k * q \in Nat
      BY <2>1, <3>1
    <3> DEFINE kq == k * q
    <3> HIDE DEF kq, p
    <3>6. p[k + 1] = (q + kq) + Smaller(k + 1, m) /\ p[k] = kq + Smaller(k, m) /\ kq \in Nat
      BY <3>4, <3>5 DEF kq
    <3>7. Smaller(k + 1, m) = Smaller(k, m) + (IF k < m THEN 1 ELSE 0) /\ Smaller(k, m) \in Nat
      BY <3>1, <3>3 DEF Smaller
    <3>8. p[k + 1] = give[v] + p[k]
      <4> HIDE DEF Smaller
      <4> QED BY <2>1, <3>2, <3>6, <3>7
    <3> QED BY <3>8 DEF k
  <2>4. p[0] = 0 /\ p[n] = balance
    <3> HIDE DEF n, q, m
    <3>1. p[0] = 0 * q + Smaller(0, m) /\ p[n] = n * q + Smaller(n, m)
      BY <1>3
    <3>2. Smaller(0, m) = 0 /\ Smaller(n, m) = m /\ 0 * q = 0
      BY <1>3, <2>1 DEF Smaller
    <3> HIDE DEF p
    <3> QED BY <2>1, <3>1, <3>2
  <2> HIDE DEF give, p, effect
  <2>5. Total(OfRune(give, e.id), Vouts, e.id) = p[n]
    BY <1>0, <1>4, <2>2, <2>3, <2>4, DestinationsAdd
  <2> QED BY <1>1, <1>2, <1>6, <2>4, <2>5 DEF Balanced, effect
<1> QED BY <1>5, <1>6

\* An edict of an amount to every destination.
LEMMA EachBalanced ==
  ASSUME tx \in Tx, NEW e \in Edict, NEW balance \in Nat
  PROVE  Balanced(e, EachEffect(e, balance))
<1> DEFINE effect == EachEffect(e, balance)
           n == Cardinality(ValidDestinations)
           a == e.amount
           part(v) == Smaller(a, Excess(balance, a * Rank(v, ValidDestinations)))
           give == [v \in Vouts |-> IF v \in ValidDestinations THEN part(v) ELSE 0]
           want == [v \in Vouts |-> IF v \in ValidDestinations THEN a - part(v) ELSE 0]
           given == [k \in Nat |-> Smaller(balance, a * k)]
           wanted == [k \in Nat |-> Excess(a * k, balance)]
<1>1. e.id \in Rune /\ a \in Nat /\ n \in Nat
  BY FiniteOutputs DEF Edict
<1>2. /\ effect.give = give /\ effect.given = Smaller(balance, a * n)
      /\ effect.want = want /\ effect.wanted = Excess(a * n, balance)
  BY DEF EachEffect
<1>3. give \in [Vouts -> Nat] /\ want \in [Vouts -> Nat]
  <2>1. EffectType(e, effect, balance)
    BY EachEffectType
  <2> HIDE DEF effect, give, want
  <2> QED BY <1>2, <2>1 DEF EffectType
<1>4. \A v \in Vouts \ ValidDestinations : give[v] = 0 /\ want[v] = 0
  OBVIOUS
<1>5. ASSUME NEW v \in ValidDestinations
      PROVE  LET k == Rank(v, ValidDestinations)
             IN  given[k + 1] = give[v] + given[k] /\ wanted[k + 1] = want[v] + wanted[k]
  <2> DEFINE k == Rank(v, ValidDestinations)
             t == a * k
  <2>1. k \in Nat /\ k + 1 \in Nat
    BY FiniteOutputs, RankType
  <2>2. give[v] = Smaller(a, Excess(balance, t)) /\ want[v] = a - Smaller(a, Excess(balance, t))
    BY FiniteOutputs
  <2> HIDE DEF k, a, give, want
  <2>3. t \in Nat /\ a * (k + 1) = t + a
    BY <1>1, <2>1
  <2>4. /\ given[k] = Smaller(balance, t) /\ given[k + 1] = Smaller(balance, a * (k + 1))
        /\ wanted[k] = Excess(t, balance) /\ wanted[k + 1] = Excess(a * (k + 1), balance)
    BY <2>1
  <2> HIDE DEF t, given, wanted
  <2>5. /\ Smaller(balance, t + a) = Smaller(a, Excess(balance, t)) + Smaller(balance, t)
        /\ Excess(t + a, balance) = (a - Smaller(a, Excess(balance, t))) + Excess(t, balance)
    BY <1>1, <2>3 DEF Smaller, Excess
  <2> QED BY <2>2, <2>3, <2>4, <2>5 DEF k
<1>6. given[0] = 0 /\ wanted[0] = 0 /\ given[n] = Smaller(balance, a * n)
      /\ wanted[n] = Excess(a * n, balance)
  <2> HIDE DEF a, n
  <2>1. a * 0 = 0
    BY <1>1
  <2>2. given[0] = Smaller(balance, 0) /\ wanted[0] = Excess(0, balance)
    BY <2>1
  <2>3. Smaller(balance, 0) = 0 /\ Excess(0, balance) = 0
    BY DEF Smaller, Excess
  <2>4. given[n] = Smaller(balance, a * n) /\ wanted[n] = Excess(a * n, balance)
    BY <1>1
  <2> QED BY <2>2, <2>3, <2>4
<1> HIDE DEF give, want, given, wanted, effect
<1>7. Total(OfRune(give, e.id), Vouts, e.id) = given[n]
  BY <1>1, <1>3, <1>4, <1>5, <1>6, DestinationsAdd
<1>8. Total(OfRune(want, e.id), Vouts, e.id) = wanted[n]
  BY <1>1, <1>3, <1>4, <1>5, <1>6, DestinationsAdd
<1> QED BY <1>2, <1>6, <1>7, <1>8 DEF Balanced, effect

\* An edict to one output.
LEMMA SingleBalanced ==
  ASSUME tx \in Tx, NEW e \in Edict, NEW balance \in Nat,
         e.output \in 1..(Len(tx.outputs) + 1), ~ToEach(e)
  PROVE  Balanced(e, SingleEffect(e, balance))
<1> DEFINE amount == IF e.amount = 0 THEN balance ELSE Smaller(e.amount, balance)
           excess == Excess(e.amount, balance)
           effect == SingleEffect(e, balance)
<1>1. amount \in Nat /\ excess \in Nat /\ e.id \in Rune
  BY DEF Edict, Smaller, Excess
<1>2. e.output \in Vouts
  BY OutputsType DEF ToEach, Vouts
<1>3. /\ effect.give = [Nothing EXCEPT ![e.output] = amount] /\ effect.given = amount
      /\ effect.want = [Nothing EXCEPT ![e.output] = excess] /\ effect.wanted = excess
  BY DEF SingleEffect
<1> HIDE DEF amount, excess, effect
<1>4. /\ Total(OfRune([Nothing EXCEPT ![e.output] = amount], e.id), Vouts, e.id) = amount
      /\ Total(OfRune([Nothing EXCEPT ![e.output] = excess], e.id), Vouts, e.id) = excess
  BY <1>1, <1>2, OneAdds
<1> QED BY <1>3, <1>4 DEF Balanced, effect

\* Every edict, but for a product that wraps.
LEMMA EdictBalanced ==
  ASSUME tx \in Tx, unallocated \in [Rune -> Nat], NEW e \in Edict,
         e.output \in 1..(Len(tx.outputs) + 1),
         ToEach(e) /\ e.id \notin entered => ProductFits(e)
  PROVE  Balanced(e, Effect(e))
<1>1. unallocated[e.id] \in Nat
  BY DEF Edict
<1>2. CASE e.id \notin entered
  BY <1>2, UnheldBalanced DEF Effect
<1>3. CASE e.id \in entered /\ ~ToEach(e)
  BY <1>1, <1>3, SingleBalanced DEF Effect
<1>4. CASE e.id \in entered /\ ToEach(e) /\ e.amount = 0
  BY <1>1, <1>4, SplitBalanced DEF Effect
<1>5. CASE e.id \in entered /\ ToEach(e) /\ e.amount # 0
  BY <1>1, <1>5, EachBalanced DEF Effect
<1> QED BY <1>2, <1>3, <1>4, <1>5

-----------------------------------------------------------------------------
(* The inductive invariant, in parts. *)

(***************************************************************************)
(* What an artifact of the chain is (decipher): edicts and pointer point   *)
(* at the transaction's outputs, or edicts at all of them.                 *)
(***************************************************************************)
ArtifactFits == FitsOutputs(tx.artifact, Len(tx.outputs))

(***************************************************************************)
(* Between transactions there are no locals; an edict has been applied     *)
(* when there is a last one, and when a conversion was found.              *)
(***************************************************************************)
LocalsFit ==
  /\ ~Working => tx = NoTx
  /\ lastId # NoRune => Edicts # << >>
  /\ inputId # NoRune => Edicts # << >>
  /\ pc \in {"convert", "return"} => inputId # NoRune /\ cursor = 1

(***************************************************************************)
(* The outputs are stored in their order: before the cursor nothing is     *)
(* allocated any more, and only there are rows of this transaction.        *)
(***************************************************************************)
StoredInOrder ==
  /\ pc = "store" => /\ cursor >= 1
                     /\ \A v \in Vouts : v < cursor => allocated[v] = Zero
  /\ Working => \A o \in DOMAIN balances :
                  o.txid = tx.txid => pc = "store" /\ o.vout < cursor

\* The table of balances is finite.
FiniteRows == IsFiniteSet(DOMAIN balances)

LocalsInvariant == ArtifactFits /\ LocalsFit /\ StoredInOrder /\ FiniteRows

(***************************************************************************)
(* The product of every edict to all destinations of a rune that is not    *)
(* held is within a u128: otherwise converted and allocated_conversion are *)
(* out of step in a release build.                                         *)
(***************************************************************************)
ProductsFit ==
  pc = "edicts" /\ cursor \in DOMAIN Edicts =>
    LET e == Edicts[cursor]
    IN  ToEach(e) /\ e.id \notin entered => ProductFits(e)

(***************************************************************************)
(* No supply passes the width of a u128, by a conversion or otherwise.     *)
(***************************************************************************)
SuppliesFit ==
  /\ \A r \in Rune : entries[r].supply < LotModulus
  /\ pc = "convert" /\ Acceptable => SupplyOut + AmountOut < LotModulus

-----------------------------------------------------------------------------
(* The locals and the rows, step by step. *)

\* Which steps change the transaction, the rows, and the last edict's rune.
LEMMA StepFrames ==
  ASSUME [Next]_vars
  PROVE  /\ NextTransaction \/ FinishTransaction \/ tx' = tx
         /\ StoreOutput \/ (\E o \in pending : TakeInput(o)) \/ balances' = balances
         /\ ApplyEdict \/ FinishTransaction \/ lastId' = lastId
         /\ DetectConversion \/ FinishTransaction \/ inputId' = inputId
<1> DEFINE Frames ==
             /\ NextTransaction \/ FinishTransaction \/ tx' = tx
             /\ StoreOutput \/ (\E o \in pending : TakeInput(o)) \/ balances' = balances
             /\ ApplyEdict \/ FinishTransaction \/ lastId' = lastId
             /\ DetectConversion \/ FinishTransaction \/ inputId' = inputId
<1>1. BeginBlock \/ EndBlock => Frames
  BY DEF BeginBlock, EndBlock, conversion
<1>2. NextTransaction => Frames
  BY DEF NextTransaction, TakeTransaction, Take, tables
<1>3. (\E o \in pending : TakeInput(o)) => Frames
  BY DEF TakeInput, conversion
<1>4. CreateOutpoints \/ MoveOutpoints \/ Mint => Frames
  BY DEF CreateOutpoints, MoveOutpoints, Mint, conversion
<1>5. NoMint \/ OverflowEdict \/ RefuseConversion => Frames
  BY DEF NoMint, OverflowEdict, RefuseConversion, conversion, tables
<1>6. ApplyEdict => Frames
  BY DEF ApplyEdict, tables
<1>7. AllocateRest \/ BurnRest => Frames
  BY DEF AllocateRest, BurnRest, AfterEdicts, conversion, tables
<1>8. BurnOutput => Frames
  BY DEF BurnOutput, conversion, tables
<1>9. DetectConversion => Frames
  BY DEF DetectConversion, tables
<1>10. ConvertExactInput \/ ConvertExactOutput => Frames
  BY DEF ConvertExactInput, ConvertExactOutput, conversion
<1>11. ReturnInput => Frames
  BY DEF ReturnInput, conversion, tables
<1>12. StoreOutput => Frames
  BY DEF StoreOutput, conversion
<1>13. FinishTransaction => Frames
  BY DEF FinishTransaction, tables
<1>14. UNCHANGED vars => Frames
  BY DEF vars, conversion, tables
<1> HIDE DEF Frames
<1>15. Frames
  BY <1>1, <1>2, <1>3, <1>4, <1>5, <1>6, <1>7, <1>8, <1>9, <1>10, <1>11, <1>12, <1>13, <1>14
     DEF Next, IndexRunes, Stopped
<1> QED BY <1>15 DEF Frames

\* Between transactions the loops wait for the next one.
LEMMA StepWorking ==
  ASSUME [Next]_vars
  PROVE  /\ ~Working' => ~Working \/ FinishTransaction
         /\ Working' => Working \/ NextTransaction
<1>1. Steady => Working' = Working
  BY SteadyStep, SteadyWorking DEF Kept
<1>2. BeginBlock \/ EndBlock => ~Working /\ ~Working'
  BY DEF BeginBlock, EndBlock, Working
<1>3. CreateOutpoints \/ MoveOutpoints \/ Mint \/ Converting => Working /\ Working'
  BY DEF CreateOutpoints, MoveOutpoints, Mint, Converting, ConvertExactInput, ConvertExactOutput, Working
<1>4. FinishTransaction => ~Working'
  BY DEF FinishTransaction, Working
<1>5. NextTransaction => Working'
  BY DEF NextTransaction, TakeTransaction, Take, Working
<1> QED BY <1>1, <1>2, <1>3, <1>4, <1>5, StepKinds

\* Artifacts fit their transactions.
LEMMA StepArtifactFits ==
  ASSUME UpdaterInvariant, ArtifactFits, [Next]_vars
  PROVE  ArtifactFits'
<1>1. CASE NextTransaction
  <2>1. PICK t \in Templates[nextTxid], spent \in InputSets :
          nextTxid <= MaxTxs /\ TakeTransaction(t, spent)
    BY <1>1 DEF NextTransaction
  <2>2. nextTxid \in 1..MaxTxs
    BY <2>1, BoundAssumption DEF UpdaterInvariant, TypeOK, BlockType
  <2>3. FitsOutputs(t.artifact, Len(t.outputs))
    BY <2>2, WellFormedAssumption DEF WellFormed
  <2>4. tx'.artifact = t.artifact /\ tx'.outputs = t.outputs
    BY <2>1 DEF TakeTransaction, Take
  <2> QED BY <2>3, <2>4 DEF ArtifactFits, FitsOutputs
<1>2. CASE FinishTransaction
  <2>1. tx' = NoTx
    BY <1>2 DEF FinishTransaction
  <2>2. NoTx.artifact = NoArtifact /\ Len(NoTx.outputs) = 0
    BY NoTxType DEF NoTx
  <2>3. FitsOutputs(NoArtifact, 0)
    BY EmptySeq DEF FitsOutputs, NoArtifact
  <2> QED BY <2>1, <2>2, <2>3 DEF ArtifactFits, FitsOutputs
<1>3. CASE tx' = tx
  BY <1>3 DEF ArtifactFits, FitsOutputs
<1> QED BY <1>1, <1>2, <1>3, StepFrames

\* The locals stay as they are said to be.
LEMMA StepLocalsFit ==
  ASSUME UpdaterInvariant, LocalsFit, [Next]_vars
  PROVE  LocalsFit'
<1>1. ~Working' => tx' = NoTx
  <2>1. CASE FinishTransaction
    BY <2>1 DEF FinishTransaction
  <2>2. CASE NextTransaction
    BY <2>2 DEF NextTransaction, TakeTransaction, Take, Working
  <2>3. CASE ~FinishTransaction /\ ~NextTransaction
    BY <2>3, StepFrames, StepWorking DEF LocalsFit
  <2> QED BY <2>1, <2>2, <2>3
<1>2. NextTransaction => lastId = NoRune /\ inputId = NoRune
  <2>1. NextTransaction => ~Working
    BY DEF NextTransaction, TakeTransaction, Take, Working
  <2>2. tx = NoTx => Edicts = << >>
    BY DEF Edicts, NoTx, NoArtifact
  <2> QED BY <2>1, <2>2 DEF LocalsFit
<1>3. tx' = tx => Edicts' = Edicts
  BY DEF Edicts
<1>4. (lastId' # NoRune => Edicts' # << >>) /\ (inputId' # NoRune => Edicts' # << >>)
  <2>1. CASE FinishTransaction
    BY <2>1 DEF FinishTransaction
  <2>2. CASE NextTransaction
    <3>1. lastId' = lastId /\ inputId' = inputId
      BY <2>2 DEF NextTransaction, TakeTransaction, Take
    <3> QED BY <3>1, <2>2, <1>2
  <2>3. CASE ApplyEdict
    <3>1. Edicts # << >>
      <4>1. cursor \in DOMAIN Edicts /\ Edicts \in Seq(Edict)
        BY <2>3 DEF ApplyEdict, UpdaterInvariant, TypeOK, TransactionType, Tx, Artifact, Edicts
      <4>2. Edicts = << >> => DOMAIN Edicts = {}
        BY <4>1, EmptySeq, LenProperties
      <4> QED BY <4>1, <4>2
    <3>2. tx' = tx
      BY <2>3 DEF ApplyEdict
    <3> QED BY <3>1, <3>2, <1>3
  <2>4. CASE DetectConversion
    <3>1. lastId' = lastId /\ tx' = tx /\ (inputId' # NoRune => lastId # NoRune)
      BY <2>4 DEF DetectConversion
    <3> QED BY <3>1, <1>3 DEF LocalsFit
  <2>5. CASE ~FinishTransaction /\ ~NextTransaction /\ ~ApplyEdict /\ ~DetectConversion
    BY <2>5, <1>3, StepFrames DEF LocalsFit
  <2> QED BY <2>1, <2>2, <2>3, <2>4, <2>5
<1>5. pc' \in {"convert", "return"} => inputId' # NoRune /\ cursor' = 1
  <2>1. BeginBlock \/ EndBlock \/ NextTransaction => pc' \notin {"convert", "return"}
    BY DEF BeginBlock, EndBlock, NextTransaction, TakeTransaction, Take
  <2>2. (\E o \in pending : TakeInput(o)) => pc' \notin {"convert", "return"}
    BY DEF TakeInput
  <2>3. CreateOutpoints \/ MoveOutpoints \/ Mint \/ NoMint => pc' \notin {"convert", "return"}
    BY DEF CreateOutpoints, MoveOutpoints, Mint, NoMint
  <2>4. ApplyEdict \/ OverflowEdict \/ AllocateRest \/ BurnRest => pc' \notin {"convert", "return"}
    BY DEF ApplyEdict, OverflowEdict, AllocateRest, BurnRest, AfterEdicts
  <2>5. BurnOutput \/ FinishTransaction \/ StoreOutput \/ ReturnInput
          => pc' \notin {"convert", "return"}
    BY DEF BurnOutput, FinishTransaction, StoreOutput, ReturnInput
  <2>6. DetectConversion => (pc' \in {"convert", "return"} => inputId' # NoRune /\ cursor' = 1)
    BY DEF DetectConversion
  <2>7. RefuseConversion \/ ConvertExactInput \/ ConvertExactOutput
          => pc = "convert" /\ inputId' = inputId /\ cursor' = cursor
    BY DEF RefuseConversion, ConvertExactInput, ConvertExactOutput, conversion
  <2>8. UNCHANGED vars => pc' = pc /\ inputId' = inputId /\ cursor' = cursor
    BY DEF vars, conversion
  <2> QED
    BY <2>1, <2>2, <2>3, <2>4, <2>5, <2>6, <2>7, <2>8 DEF LocalsFit, Next, IndexRunes, Stopped
<1> QED BY <1>1, <1>4, <1>5 DEF LocalsFit

\* The rows stay finitely many.
LEMMA StepFiniteRows ==
  ASSUME FiniteRows, [Next]_vars
  PROVE  FiniteRows'
<1>1. CASE StoreOutput
  <2>1. PICK S : DOMAIN balances' = DOMAIN balances \cup S /\ (S = {} \/ \E o : S = {o})
    <3> DEFINE S == IF Stored(cursor) THEN {[txid |-> tx.txid, vout |-> cursor]} ELSE {}
    <3>1. DOMAIN balances' = DOMAIN balances \cup S
      BY <1>1 DEF StoreOutput
    <3>2. S = {} \/ \E o : S = {o}
      OBVIOUS
    <3> QED BY <3>1, <3>2
  <2>2. IsFiniteSet(S)
    <3>1. CASE S = {}
      BY <3>1, FS_EmptySet
    <3>2. CASE \E o : S = {o}
      BY <3>2, FS_Singleton
    <3> QED BY <2>1, <3>1, <3>2
  <2> QED BY <2>1, <2>2, FS_Union DEF FiniteRows
<1>2. CASE \E o \in pending : TakeInput(o)
  <2>1. DOMAIN balances' \subseteq DOMAIN balances
    BY <1>2 DEF TakeInput, WithoutRow
  <2> QED BY <2>1, FS_Subset DEF FiniteRows
<1>3. CASE balances' = balances
  BY <1>3 DEF FiniteRows
<1> QED BY <1>1, <1>2, <1>3, StepFrames

\* The outputs are stored in order.
LEMMA StepStoredInOrder ==
  ASSUME UpdaterInvariant, ChainInvariant, LocalsFit, StoredInOrder, [Next]_vars
  PROVE  StoredInOrder'
<1>0. cursor \in Nat /\ allocated \in [Vouts -> [Rune -> Nat]] /\ tx \in Tx
      /\ DOMAIN balances \subseteq Outpoint
  BY DEF UpdaterInvariant, TypeOK, TransactionType, TablesType
<1>1. pc' = "store" => cursor' >= 1 /\ \A v \in Vouts' : v < cursor' => allocated'[v] = Zero
  <2>0. \A v \in Vouts : v \in Nat /\ v >= 1 /\ ~(v < 1)
    BY OutputsType, <1>0
  <2>1. CASE DetectConversion
    <3>1. cursor' = 1 /\ Vouts' = Vouts
      BY <2>1 DEF DetectConversion, Vouts
    <3> QED BY <2>0, <3>1
  <2>2. CASE ReturnInput
    <3>1. cursor' = 1 /\ Vouts' = Vouts
      BY <2>2 DEF ReturnInput, Vouts, LocalsFit
    <3> QED BY <2>0, <3>1
  <2>3. CASE StoreOutput
    <3>1. /\ pc = "store" /\ cursor' = cursor + 1 /\ Vouts' = Vouts
          /\ allocated' = [allocated EXCEPT ![cursor] = Zero]
      BY <2>3 DEF StoreOutput, Vouts
    <3>2. ASSUME NEW v \in Vouts, v < cursor' PROVE allocated'[v] = Zero
      <4>1. v = cursor \/ v < cursor
        <5>1. v < cursor + 1 /\ v \in Nat /\ cursor \in Nat
          BY <1>0, <2>0, <3>1, <3>2
        <5> QED BY <5>1
      <4> QED BY <1>0, <3>1, <4>1 DEF StoredInOrder
    <3>3. cursor' >= 1
      BY <1>0, <3>1
    <3> QED BY <3>1, <3>2, <3>3
  <2>4. CASE UNCHANGED vars
    <3>1. pc' = pc /\ cursor' = cursor /\ Vouts' = Vouts /\ allocated' = allocated
      BY <2>4 DEF vars, allocation, Vouts
    <3> QED BY <3>1 DEF StoredInOrder
  <2> QED BY <2>1, <2>2, <2>3, <2>4, WhereStepsLead
<1>2. Working' => \A o \in DOMAIN balances' :
                    o.txid = tx'.txid => pc' = "store" /\ o.vout < cursor'
  <2>1. CASE NextTransaction
    <3>1. tx'.txid = nextTxid /\ balances' = balances /\ pc = "block" /\ nextTxid \in Nat
      BY <2>1 DEF NextTransaction, TakeTransaction, Take, tables,
        UpdaterInvariant, TypeOK, BlockType
    <3>2. pending = {}
      BY <3>1 DEF ChainInvariant, PendingTaken
    <3>3. ASSUME NEW o \in DOMAIN balances PROVE o.txid # nextTxid
      <4>1. PICK u \in utxos : u.at = o
        BY <3>2 DEF ChainInvariant, BalancesUnspent
      <4>2. o.txid < nextTxid /\ o.txid \in Nat
        BY <4>1, TxFacts DEF ChainInvariant, Numbered
      <4> QED BY <3>1, <4>2
    <3> QED BY <3>1, <3>3
  <2>2. CASE StoreOutput
    <3>1. /\ pc = "store" /\ pc' = "store" /\ cursor' = cursor + 1 /\ tx' = tx
          /\ DOMAIN balances' \subseteq DOMAIN balances \cup {[txid |-> tx.txid, vout |-> cursor]}
      BY <2>2 DEF StoreOutput
    <3>2. ASSUME NEW o \in DOMAIN balances', o.txid = tx.txid PROVE o.vout < cursor'
      <4>1. CASE o \in DOMAIN balances
        <5>1. o.vout < cursor /\ o.vout \in Nat
          BY <1>0, <3>1, <3>2, <4>1 DEF StoredInOrder, Working, Outpoint
        <5> QED BY <1>0, <3>1, <5>1
      <4>2. CASE o = [txid |-> tx.txid, vout |-> cursor]
        BY <1>0, <3>1, <4>2
      <4> QED BY <3>1, <4>1, <4>2
    <3> QED BY <3>1, <3>2
  <2>3. CASE \E o \in pending : TakeInput(o)
    <3>1. /\ pc = "inputs" /\ pc' = pc /\ tx' = tx /\ DOMAIN balances' \subseteq DOMAIN balances
      BY <2>3 DEF TakeInput, WithoutRow
    <3> QED BY <3>1 DEF StoredInOrder, Working
  <2>4. CASE FinishTransaction
    BY <2>4 DEF FinishTransaction, Working
  <2>5. CASE UNCHANGED vars
    <3>1. pc' = pc /\ cursor' = cursor /\ tx' = tx /\ balances' = balances
      BY <2>5 DEF vars, tables
    <3> QED BY <3>1 DEF StoredInOrder, Working
  <2>6. CASE ~NextTransaction /\ ~StoreOutput /\ ~(\E o \in pending : TakeInput(o))
             /\ ~FinishTransaction /\ ~UNCHANGED vars
    <3>1. tx' = tx /\ balances' = balances /\ (Working' => Working)
      BY <2>6, StepFrames, StepWorking
    <3>2. pc # "store"
      BY <2>6 DEF Next, IndexRunes, Stopped, BeginBlock, EndBlock, CreateOutpoints,
        MoveOutpoints, Mint, NoMint, ApplyEdict, OverflowEdict, AllocateRest, BurnRest,
        AfterEdicts, BurnOutput, DetectConversion, ConvertExactInput, ConvertExactOutput,
        RefuseConversion, ReturnInput
    <3> QED BY <3>1, <3>2 DEF StoredInOrder
  <2> QED BY <2>1, <2>2, <2>3, <2>4, <2>5, <2>6
<1> QED BY <1>1, <1>2 DEF StoredInOrder

\* The index starts between transactions and without rows.
LEMMA LocalsInit == Init => LocalsInvariant
<1> SUFFICES ASSUME Init PROVE LocalsInvariant
  OBVIOUS
<1>1. tx = NoTx /\ pc = "idle" /\ lastId = NoRune /\ inputId = NoRune /\ DOMAIN balances = {}
  BY DEF Init
<1>2. NoTx.artifact = NoArtifact /\ Len(NoTx.outputs) = 0
  BY NoTxType DEF NoTx
<1>3. ArtifactFits
  <2>1. FitsOutputs(NoArtifact, 0)
    BY EmptySeq DEF FitsOutputs, NoArtifact
  <2> QED BY <1>1, <1>2, <2>1 DEF ArtifactFits
<1>4. FiniteRows
  BY <1>1, FS_EmptySet DEF FiniteRows
<1> QED BY <1>1, <1>3, <1>4 DEF LocalsInvariant, LocalsFit, StoredInOrder, Working

\* The locals and the rows are always as they are said to be.
LEMMA LocalsInvariance == Spec => []LocalsInvariant
<1>1. UpdaterInvariant /\ ChainInvariant /\ LocalsInvariant /\ [Next]_vars => LocalsInvariant'
  BY StepArtifactFits, StepLocalsFit, StepFiniteRows, StepStoredInOrder DEF LocalsInvariant
<1> QED BY <1>1, LocalsInit, Invariance, ChainInvariance, PTL DEF Spec

-----------------------------------------------------------------------------
(* What the outputs want and what is converted for them. *)

\* Outputs that are credited with amounts of a rune hold their sum more of it.
Credits(F, id, amounts, G) == G = [v \in Vouts |-> [F[v] EXCEPT ![id] = @ + amounts[v]]]

\* What is credited to the outputs is in their total.
LEMMA Credited ==
  ASSUME tx \in Tx, NEW F \in [Vouts -> [Rune -> Nat]], NEW id \in Rune,
         NEW amounts \in [Vouts -> Nat], NEW G, Credits(F, id, amounts, G)
  PROVE  /\ Total(G, Vouts, id) = Total(F, Vouts, id) + Total(OfRune(amounts, id), Vouts, id)
         /\ \A r \in Rune \ {id} : Total(G, Vouts, r) = Total(F, Vouts, r)
         /\ \A r \in Rune : Total(F, Vouts, r) \in Nat
<1>1. IsFiniteSet(Vouts)
  BY FiniteOutputs
<1> DEFINE D == OfRune(amounts, id)
<1>2. \A v \in Vouts : F[v][id] \in Nat /\ D[v][id] \in Nat /\ G[v][id] = F[v][id] + D[v][id]
  <2>1. \A v \in Vouts : D[v][id] = amounts[v]
    BY OfType
  <2> HIDE DEF D
  <2> QED BY <2>1 DEF Credits
<1>3. \A r \in Rune \ {id} : \A v \in Vouts : G[v][r] = F[v][r]
  BY DEF Credits
<1> HIDE DEF D
<1>4. Total(G, Vouts, id) = Total(F, Vouts, id) + Total(D, Vouts, id)
  <2>1. Grows(F, D, G, Vouts, id)
    BY <1>2 DEF Grows
  <2> QED BY <1>1, <2>1, TotalPlus
<1>5. ASSUME NEW r \in Rune \ {id} PROVE Total(G, Vouts, r) = Total(F, Vouts, r)
  BY <1>1, <1>3, TotalSame
<1>6. ASSUME NEW r \in Rune PROVE Total(F, Vouts, r) \in Nat
  <2>1. \A v \in Vouts : F[v][r] \in Nat
    OBVIOUS
  <2> QED BY <1>1, <2>1, TotalRemove
<1> QED BY <1>4, <1>5, <1>6 DEF D

\* The edict that is applied next.
LEMMA CurrentEdict ==
  ASSUME UpdaterInvariant, ArtifactFits, ProductsFit, ApplyEdict
  PROVE  LET e == Edicts[cursor]
         IN  /\ e \in Edict /\ e.id \in Rune /\ tx \in Tx
             /\ EffectType(e, Effect(e), unallocated[e.id])
             /\ Balanced(e, Effect(e))
<1> DEFINE e == Edicts[cursor]
<1>1. tx \in Tx /\ unallocated \in [Rune -> Nat]
  BY DEF UpdaterInvariant, TypeOK, TransactionType
<1>2. cursor \in DOMAIN Edicts /\ pc = "edicts"
  BY DEF ApplyEdict
<1>3. e \in Edict
  BY <1>1, <1>2, OutputsType
<1>4. e.output \in 1..(Len(tx.outputs) + 1)
  BY <1>2 DEF ArtifactFits, FitsOutputs, Edicts
<1>5. ToEach(e) /\ e.id \notin entered => ProductFits(e)
  BY <1>2 DEF ProductsFit
<1>6. e.id \in Rune
  BY <1>3 DEF Edict
<1> HIDE DEF e
<1>7. EffectType(e, Effect(e), unallocated[e.id])
  BY <1>1, <1>3, EdictEffectType
<1>8. Balanced(e, Effect(e))
  BY <1>1, <1>3, <1>4, <1>5, EdictBalanced
<1> QED BY <1>1, <1>3, <1>6, <1>7, <1>8 DEF e

\* Both sides grow by what an edict wants, and start from nothing.
LEMMA StepConverted ==
  ASSUME UpdaterInvariant, LocalsInvariant, ProductsFit, ConvertedIsAllocated, [Next]_vars
  PROVE  ConvertedIsAllocated'
<1>0. tx \in Tx /\ converted \in [Rune -> Nat]
      /\ allocatedConversion \in [Vouts -> [Rune -> Nat]]
  BY DEF UpdaterInvariant, TypeOK, TransactionType
<1>1. CASE NextTransaction
  <2>1. PICK t \in Templates[nextTxid], spent \in InputSets :
          nextTxid <= MaxTxs /\ TakeTransaction(t, spent)
    BY <1>1 DEF NextTransaction
  <2>2. t \in Template /\ t.outputs \in Seq(Output)
    <3>1. nextTxid \in 1..MaxTxs
      BY <2>1, BoundAssumption DEF UpdaterInvariant, TypeOK, BlockType
    <3> QED BY <3>1, TemplateAssumption DEF Template
  <2>3. Vouts = {}
    <3>1. tx = NoTx
      BY <2>1 DEF LocalsInvariant, LocalsFit, Working, TakeTransaction, Take
    <3> QED BY <3>1, NoTxType DEF Vouts
  <2>4. /\ converted' = converted /\ Vouts' = 1..Len(t.outputs)
        /\ allocatedConversion' = [v \in 1..Len(t.outputs) |-> Zero]
    BY <2>1 DEF TakeTransaction, Take, Vouts
  <2>5. IsFiniteSet(1..Len(t.outputs))
    BY <2>2, LenProperties, FS_Interval
  <2>6. ASSUME NEW r \in Rune
        PROVE  converted'[r] = Total(allocatedConversion', Vouts', r)
    <3>1. converted[r] = 0
      BY <2>3, TotalEmpty DEF ConvertedIsAllocated
    <3>2. \A v \in 1..Len(t.outputs) : allocatedConversion'[v][r] = 0
      BY <2>4 DEF Zero
    <3>3. Total(allocatedConversion', 1..Len(t.outputs), r) = 0
      BY <2>5, <3>2, TotalZero
    <3> QED BY <2>4, <3>1, <3>3
  <2> QED BY <2>6 DEF ConvertedIsAllocated
<1>2. CASE FinishTransaction
  <2>1. converted' = Zero /\ tx' = NoTx
    BY <1>2 DEF FinishTransaction
  <2>2. Vouts' = {}
    BY <2>1, NoTxType DEF Vouts
  <2>3. \A r \in Rune : Total(allocatedConversion', Vouts', r) = 0
    BY <2>2, TotalEmpty
  <2> QED BY <2>1, <2>3 DEF ConvertedIsAllocated, Zero
<1>3. CASE ApplyEdict
  <2> DEFINE e == Edicts[cursor]
             id == e.id
             want == Effect(e).want
             n == Effect(e).wanted
  <2>1. /\ id \in Rune /\ want \in [Vouts -> Nat] /\ n \in Nat
        /\ Total(OfRune(want, id), Vouts, id) = n
    BY <1>3, CurrentEdict DEF LocalsInvariant, EffectType, Balanced
  <2>2. /\ converted' = [converted EXCEPT ![id] = @ + n] /\ Vouts' = Vouts
        /\ allocatedConversion' =
             [v \in Vouts |-> [allocatedConversion[v] EXCEPT ![id] = @ + want[v]]]
    BY <1>3 DEF ApplyEdict, Vouts
  <2> HIDE DEF e, id, want, n
  <2>3. /\ Total(allocatedConversion', Vouts, id)
             = Total(allocatedConversion, Vouts, id) + Total(OfRune(want, id), Vouts, id)
        /\ \A r \in Rune \ {id} :
             Total(allocatedConversion', Vouts, r) = Total(allocatedConversion, Vouts, r)
    <3>1. tx \in Tx /\ allocatedConversion \in [Vouts -> [Rune -> Nat]]
          /\ id \in Rune /\ want \in [Vouts -> Nat]
      BY <1>0, <2>1
    <3>2. Credits(allocatedConversion, id, want, allocatedConversion')
      BY <2>2 DEF Credits
    <3> QED BY <3>1, <3>2, Credited
  <2>4. \A r \in Rune : converted'[r] = Total(allocatedConversion', Vouts, r)
    BY <1>0, <2>1, <2>2, <2>3 DEF ConvertedIsAllocated
  <2>5. \A r \in Rune : converted'[r] = Total(allocatedConversion', Vouts', r)
    BY <2>2, <2>4
  <2> QED BY <2>5 DEF ConvertedIsAllocated
<1>4. CASE ~NextTransaction /\ ~FinishTransaction /\ ~ApplyEdict
  <2>1. BeginBlock \/ EndBlock => UNCHANGED <<tx, converted, allocatedConversion>>
    BY DEF BeginBlock, EndBlock, conversion
  <2>2. (\E o \in pending : TakeInput(o)) \/ CreateOutpoints \/ MoveOutpoints \/ Mint \/ NoMint
          => UNCHANGED <<tx, converted, allocatedConversion>>
    BY DEF TakeInput, CreateOutpoints, MoveOutpoints, Mint, NoMint, conversion
  <2>3. OverflowEdict \/ AllocateRest \/ BurnRest \/ BurnOutput \/ DetectConversion
          => UNCHANGED <<tx, converted, allocatedConversion>>
    BY DEF OverflowEdict, AllocateRest, BurnRest, AfterEdicts, BurnOutput, DetectConversion,
       conversion
  <2>4. ConvertExactInput \/ ConvertExactOutput \/ RefuseConversion \/ ReturnInput \/ StoreOutput
          => UNCHANGED <<tx, converted, allocatedConversion>>
    BY DEF ConvertExactInput, ConvertExactOutput, RefuseConversion, ReturnInput, StoreOutput,
       conversion
  <2>5. UNCHANGED vars => UNCHANGED <<tx, converted, allocatedConversion>>
    BY DEF vars, conversion
  <2>6. UNCHANGED <<tx, converted, allocatedConversion>>
    BY <1>4, <2>1, <2>2, <2>3, <2>4, <2>5 DEF Next, IndexRunes, Stopped
  <2> QED BY <2>6 DEF ConvertedIsAllocated, Vouts
<1> QED BY <1>1, <1>2, <1>3, <1>4

(***************************************************************************)
(* ConvertedIsAllocated: the amount a conversion is computed for is the    *)
(* amount its outputs will be given, as long as no product of an edict to  *)
(* every destination passes the width of a u128 (the edict loop).          *)
(***************************************************************************)
THEOREM ConvertedEqualsAllocated ==
  Spec /\ []ProductsFit => []ConvertedIsAllocated
<1>1. Init => ConvertedIsAllocated
  <2> SUFFICES ASSUME Init, NEW r \in Rune
               PROVE  converted[r] = Total(allocatedConversion, Vouts, r)
    BY DEF ConvertedIsAllocated
  <2>1. Vouts = {}
    BY NoTxType DEF Init, Vouts
  <2> QED BY <2>1, TotalEmpty DEF Init, Zero
<1>2. UpdaterInvariant /\ LocalsInvariant /\ ProductsFit /\ ConvertedIsAllocated /\ [Next]_vars
        => ConvertedIsAllocated'
  BY StepConverted
<1> QED BY <1>1, <1>2, Invariance, LocalsInvariance, PTL DEF Spec

-----------------------------------------------------------------------------
(* What is moved by each step. *)

\* Every part of the sum is natural.
LEMMA PartsType ==
  ASSUME UpdaterInvariant, FiniteRows, NEW r \in Rune
  PROVE  /\ Total(balances, DOMAIN balances, r) \in Nat
         /\ Total(allocated, Vouts, r) \in Nat
         /\ unallocated[r] \in Nat /\ txBurned[r] \in Nat /\ burned[r] \in Nat
         /\ entries[r].burned \in Nat /\ entries[r].supply \in Nat
         /\ allocated \in [Vouts -> [Rune -> Nat]]
         /\ \A o \in DOMAIN balances : balances[o] \in [Rune -> Nat]
         /\ tx \in Tx
<1>1. /\ TypeOK /\ tx \in Tx /\ allocated \in [Vouts -> [Rune -> Nat]]
      /\ \A o \in DOMAIN balances : balances[o] \in [Rune -> Nat]
  BY DEF UpdaterInvariant, TypeOK, TransactionType, TablesType
<1>2. entries[r].burned \in Nat /\ entries[r].supply \in Nat
  BY <1>1 DEF TypeOK, TablesType, Entry
<1>3. unallocated[r] \in Nat /\ txBurned[r] \in Nat /\ burned[r] \in Nat
  BY <1>1 DEF TypeOK, TransactionType, BlockType
<1>4. Total(balances, DOMAIN balances, r) \in Nat
  <2>1. \A o \in DOMAIN balances : balances[o][r] \in Nat
    BY <1>1
  <2> QED BY <2>1, TotalRemove DEF FiniteRows
<1>5. Total(allocated, Vouts, r) \in Nat
  <2>1. \A v \in Vouts : allocated[v][r] \in Nat
    BY <1>1
  <2> QED BY <1>1, <2>1, FiniteOutputs, TotalRemove
<1> QED BY <1>1, <1>2, <1>3, <1>4, <1>5

\* One output is given n more, or the same and n less.
GivesOne(F, G, o, n, r) ==
  /\ o \in Vouts /\ G[o][r] = F[o][r] + n
  /\ \A v \in Vouts \ {o} : G[v][r] = F[v][r]

\* The total grows, or shrinks, by what the one output is given, or gave.
LEMMA OneGains ==
  ASSUME tx \in Tx, NEW F, NEW G, NEW o, NEW n \in Nat, NEW r,
         \A v \in Vouts : F[v][r] \in Nat, GivesOne(F, G, o, n, r)
  PROVE  Total(G, Vouts, r) = Total(F, Vouts, r) + n
<1>1. o \in Vouts /\ F[o][r] \in Nat /\ G[o][r] = F[o][r] + n
  BY DEF GivesOne
<1>2. \A v \in Vouts : F[v][r] \in Nat /\ G[v][r] \in Nat
  <2>1. ASSUME NEW v \in Vouts PROVE G[v][r] \in Nat
    <3>1. CASE v = o
      BY <1>1, <3>1
    <3>2. CASE v # o
      BY <3>2 DEF GivesOne
    <3> QED BY <3>1, <3>2
  <2> QED BY <2>1
<1>3. \A v \in Vouts \ {o} : F[v][r] = G[v][r]
  BY DEF GivesOne
<1>4. IsFiniteSet(Vouts)
  BY FiniteOutputs
<1>5. Total(G, Vouts, r) + F[o][r] = Total(F, Vouts, r) + G[o][r]
  <2> DEFINE S == Vouts
  <2>1. IsFiniteSet(S) /\ o \in S /\ (\A v \in S : F[v][r] \in Nat /\ G[v][r] \in Nat)
        /\ \A v \in S \ {o} : F[v][r] = G[v][r]
    BY <1>1, <1>2, <1>3, <1>4
  <2> HIDE DEF S
  <2>2. Total(G, S, r) + F[o][r] = Total(F, S, r) + G[o][r]
    BY <2>1, TotalChange
  <2> QED BY <2>2 DEF S
<1>6. Total(F, Vouts, r) \in Nat /\ Total(G, Vouts, r) \in Nat
  BY <1>2, <1>4, TotalRemove
<1> QED BY <1>1, <1>5, <1>6

\* The first output of a kind, and that of the pointer, are outputs.
LEMMA DefaultOutputsFit ==
  ASSUME tx \in Tx, ArtifactFits
  PROVE  DefaultOutputs = {} \/ \E o \in Vouts : DefaultOutputs = {o}
<1>1. CASE tx.artifact.pointer # 0
  <2>1. tx.artifact.pointer \in 0..Len(tx.outputs) /\ Len(tx.outputs) \in Nat
    BY OutputsType DEF ArtifactFits, FitsOutputs
  <2>2. tx.artifact.pointer \in Vouts
    BY <1>1, <2>1 DEF Vouts
  <2> QED BY <1>1, <2>2 DEF DefaultOutputs
<1>2. CASE tx.artifact.pointer = 0 /\ ValidDestinations # {}
  <2>1. Min(ValidDestinations) \in Vouts
    BY <1>2, FiniteOutputs, MinExists
  <2> QED BY <1>2, <2>1 DEF DefaultOutputs
<1>3. CASE tx.artifact.pointer = 0 /\ ValidDestinations = {}
  BY <1>3 DEF DefaultOutputs
<1> QED BY <1>1, <1>2, <1>3

\* An unconverted input goes to an output, if to any.
LEMMA ReturnOutputsFit ==
  ASSUME tx \in Tx, ArtifactFits, Edicts # << >>
  PROVE  ReturnOutputs = {} \/ \E o \in Vouts : ReturnOutputs = {o}
<1>1. Edicts \in Seq(Edict)
  BY DEF Edicts, Tx, Artifact
<1>2. DOMAIN Edicts = 1..Len(Edicts) /\ Len(Edicts) \in Nat /\ IsFiniteSet(DOMAIN Edicts)
  BY <1>1, LenProperties, FS_Interval
<1>3. \A i \in DOMAIN Edicts : ~ToEach(Edicts[i]) => Edicts[i].output \in Vouts
  BY OutputsType DEF ArtifactFits, FitsOutputs, ToEach, Vouts, Edicts
<1>4. CASE EdictsToOutput # {}
  <2>1. EdictsToOutput \subseteq DOMAIN Edicts /\ EdictsToOutput \in SUBSET Nat
    BY <1>2 DEF EdictsToOutput
  <2>2. IsFiniteSet(EdictsToOutput)
    BY <1>2, <2>1, FS_Subset
  <2>3. \E x \in EdictsToOutput : \A y \in EdictsToOutput : y <= x
    BY <1>4, <2>1, <2>2, GreatestExists
  <2>4. \E x \in EdictsToOutput : \A y \in EdictsToOutput : x >= y
    BY <2>1, <2>3
  <2>5. Max(EdictsToOutput) \in EdictsToOutput
    BY <2>4, Zenon DEF Max
  <2>6. Edicts[Max(EdictsToOutput)].output \in Vouts
    BY <1>3, <2>5 DEF EdictsToOutput
  <2> QED BY <1>4, <2>6 DEF ReturnOutputs
<1>5. CASE EdictsToOutput = {} /\ Holders # {}
  <2>1. Holders \in SUBSET Nat /\ Holders \subseteq Vouts
    BY FiniteOutputs DEF Holders
  <2>2. Min(Holders) \in Vouts
    BY <1>5, <2>1, MinExists
  <2> QED BY <1>5, <2>2 DEF ReturnOutputs
<1>6. CASE EdictsToOutput = {} /\ Holders = {} /\ ~ToEach(Edicts[1])
  <2>1. 1 \in DOMAIN Edicts
    <3>1. Len(Edicts) # 0
      BY <1>1, EmptySeq
    <3> QED BY <1>2, <3>1
  <2>2. Edicts[1].output \in Vouts
    BY <1>3, <1>6, <2>1
  <2> QED BY <1>6, <2>2 DEF ReturnOutputs
<1>7. CASE EdictsToOutput = {} /\ Holders = {} /\ ToEach(Edicts[1]) /\ ValidDestinations # {}
  <2>1. Min(ValidDestinations) \in Vouts
    BY <1>7, FiniteOutputs, MinExists
  <2> QED BY <1>7, <2>1 DEF ReturnOutputs
<1>8. CASE EdictsToOutput = {} /\ Holders = {} /\ ToEach(Edicts[1]) /\ ValidDestinations = {}
  BY <1>8 DEF ReturnOutputs
<1> QED BY <1>4, <1>5, <1>6, <1>7, <1>8

\* What a step leaves alone.
LEMMA NothingMoved ==
  ASSUME Conservation, UNCHANGED <<balances, tx, allocation, burned, entries>>
  PROVE  Conservation'
  BY DEF Conservation, Conserved, allocation, Vouts

\* update_supply issues to the burned pot.
LEMMA BeginBlockConserves ==
  ASSUME UpdaterInvariant, LocalsInvariant, Conservation, BeginBlock
  PROVE  Conservation'
<1> SUFFICES ASSUME NEW r \in Rune PROVE Conserved(r)'
  BY DEF Conservation
<1>1. UNCHANGED <<balances, tx, allocation, burned>> /\ Vouts' = Vouts /\ entries' = Issued
  BY DEF BeginBlock, Vouts
<1>2. \E n \in Nat : /\ entries'[r].supply = entries[r].supply + n
                     /\ entries'[r].burned = entries[r].burned + n
  <2> DEFINE s0 == entries[ID0].supply
             s1 == entries[ID1].supply
             reward == Reward(height)
             share == [q \in Rune |-> IF q = ID0 THEN RewardShare0(s0, s1, reward)
                                                 ELSE RewardShare1(s0, s1, reward)]
  <2>1. CASE reward = 0
    <3>1. entries' = entries
      BY <1>1, <2>1 DEF Issued
    <3> QED BY <3>1, PartsType DEF LocalsInvariant
  <2>2. CASE reward # 0
    <3>1. entries' = [q \in Rune |-> [supply |-> entries[q].supply + share[q],
                                      burned |-> entries[q].burned + share[q],
                                      mints  |-> entries[q].mints + 1]]
      BY <1>1, <2>2 DEF Issued
    <3>2. share[r] \in Nat
      <4>1. ID0 \in Rune /\ ID1 \in Rune /\ reward \in Nat
        <5>1. height \in FirstRuneHeight..MaxHeight
          BY BoundAssumption DEF UpdaterInvariant, TypeOK, BlockType, BeginBlock, BlockAllowed
        <5> QED BY <5>1, RewardAssumption DEF Rune
      <4>2. s0 \in Nat /\ s1 \in Nat
        BY <4>1, PartsType DEF LocalsInvariant
      <4> HIDE DEF s0, s1, reward
      <4>3. RewardShare0(s0, s1, reward) \in Nat /\ RewardShare1(s0, s1, reward) \in Nat
        BY <4>1, <4>2, RewardShareType
      <4> QED BY <4>3
    <3> HIDE DEF share
    <3> QED BY <3>1, <3>2
  <2> QED BY <2>1, <2>2
<1>3. PICK n \in Nat : /\ entries'[r].supply = entries[r].supply + n
                       /\ entries'[r].burned = entries[r].burned + n
  BY <1>2
<1>4. Conserved(r)
  BY DEF Conservation
<1>5. /\ balances' = balances /\ allocated' = allocated /\ unallocated' = unallocated
      /\ txBurned' = txBurned /\ burned' = burned
  BY <1>1 DEF allocation
<1> QED BY <1>1, <1>3, <1>4, <1>5, PartsType DEF Conserved, LocalsInvariant

\* update_burned.
LEMMA EndBlockConserves ==
  ASSUME UpdaterInvariant, LocalsInvariant, Conservation, EndBlock
  PROVE  Conservation'
<1> SUFFICES ASSUME NEW r \in Rune PROVE Conserved(r)'
  BY DEF Conservation
<1>1. /\ balances' = balances /\ tx' = tx /\ allocated' = allocated
      /\ unallocated' = unallocated /\ txBurned' = txBurned /\ Vouts' = Vouts
  BY DEF EndBlock, allocation, Vouts
<1>2. /\ entries'[r].burned = entries[r].burned + burned[r]
      /\ entries'[r].supply = entries[r].supply /\ burned'[r] = 0
  <2>1. entries[r] \in Entry
    BY DEF UpdaterInvariant, TypeOK, TablesType
  <2> QED BY <2>1 DEF EndBlock, UpdateBurned, Zero, Entry
<1>3. Conserved(r)
  BY DEF Conservation
<1> QED BY <1>1, <1>2, <1>3, PartsType DEF Conserved, LocalsInvariant

\* The outputs of a transaction that is taken are given nothing yet.
LEMMA NextTransactionConserves ==
  ASSUME UpdaterInvariant, LocalsInvariant, Conservation, NextTransaction
  PROVE  Conservation'
<1> SUFFICES ASSUME NEW r \in Rune PROVE Conserved(r)'
  BY DEF Conservation
<1>1. PICK t \in Templates[nextTxid], spent \in InputSets :
        nextTxid <= MaxTxs /\ TakeTransaction(t, spent)
  BY DEF NextTransaction
<1>2. t.outputs \in Seq(Output)
  <2>1. nextTxid \in 1..MaxTxs
    BY <1>1, BoundAssumption DEF UpdaterInvariant, TypeOK, BlockType
  <2> QED BY <2>1, TemplateAssumption DEF Template
<1>3. Vouts = {}
  <2>1. tx = NoTx
    BY <1>1 DEF LocalsInvariant, LocalsFit, Working, TakeTransaction, Take
  <2> QED BY <2>1, NoTxType DEF Vouts
<1>4. /\ balances' = balances /\ entries' = entries /\ burned' = burned
      /\ unallocated' = unallocated /\ txBurned' = txBurned /\ Vouts' = 1..Len(t.outputs)
      /\ allocated' = [v \in 1..Len(t.outputs) |-> Zero]
  BY <1>1 DEF TakeTransaction, Take, tables, Vouts
<1>5. IsFiniteSet(1..Len(t.outputs))
  BY <1>2, LenProperties, FS_Interval
<1>6. Total(allocated, Vouts, r) = 0 /\ Total(allocated', Vouts', r) = 0
  <2>1. \A v \in 1..Len(t.outputs) : allocated'[v][r] = 0
    BY <1>4 DEF Zero
  <2>2. Total(allocated', 1..Len(t.outputs), r) = 0
    BY <1>5, <2>1, TotalZero
  <2> QED BY <1>3, <1>4, <2>2, TotalEmpty
<1>7. Conserved(r)
  BY DEF Conservation
<1> QED BY <1>4, <1>6, <1>7 DEF Conserved

\* The balances of an input are removed and added to what is unallocated.
LEMMA TakeInputConserves ==
  ASSUME UpdaterInvariant, LocalsInvariant, Conservation, NEW o \in pending, TakeInput(o)
  PROVE  Conservation'
<1> SUFFICES ASSUME NEW r \in Rune PROVE Conserved(r)'
  BY DEF Conservation
<1>1. /\ entries' = entries /\ burned' = burned /\ tx' = tx /\ Vouts' = Vouts
      /\ allocated' = allocated /\ txBurned' = txBurned
  BY DEF TakeInput, Vouts
<1>2. Conserved(r)
  BY DEF Conservation
<1>3. CASE o \notin DOMAIN balances
  <2>1. balances' = balances /\ unallocated' = unallocated
    BY <1>3 DEF TakeInput
  <2> QED BY <1>1, <1>2, <2>1 DEF Conserved
<1>4. CASE o \in DOMAIN balances
  <2> DEFINE D == DOMAIN balances \ {o}
  <2>1. unallocated'[r] = unallocated[r] + balances[o][r] /\ balances' = [p \in D |-> balances[p]]
    BY <1>4 DEF TakeInput, WithoutRow
  <2>2. DOMAIN balances' = D /\ \A p \in D : balances'[p][r] = balances[p][r]
    BY <2>1
  <2>3. /\ IsFiniteSet(DOMAIN balances) /\ IsFiniteSet(D)
        /\ \A p \in DOMAIN balances : balances[p][r] \in Nat
    BY PartsType, FS_RemoveElement DEF LocalsInvariant, FiniteRows
  <2>4. Total(balances, DOMAIN balances, r) = balances[o][r] + Total(balances, D, r)
    BY <1>4, <2>3, TotalRemove
  <2>5. Total(balances, D, r) \in Nat
    BY <2>3, TotalRemove
  <2> HIDE DEF D
  <2>6. Total(balances', D, r) = Total(balances, D, r)
    BY <2>2, <2>3, TotalSame
  <2>7. Total(balances', DOMAIN balances', r) = Total(balances, D, r)
    BY <2>2, <2>6
  <2>8. balances[o][r] \in Nat
    BY <1>4, <2>3
  <2> QED BY <1>1, <1>2, <2>1, <2>4, <2>5, <2>7, <2>8, PartsType DEF Conserved, LocalsInvariant
<1> QED BY <1>3, <1>4

\* The pot goes to the minter.
LEMMA MintConserves ==
  ASSUME UpdaterInvariant, LocalsInvariant, Conservation, Mint
  PROVE  Conservation'
<1> SUFFICES ASSUME NEW r \in Rune PROVE Conserved(r)'
  BY DEF Conservation
<1>1. /\ balances' = balances /\ tx' = tx /\ Vouts' = Vouts
      /\ allocated' = allocated /\ txBurned' = txBurned
  BY DEF Mint, Vouts
<1>2. /\ entries'[r].burned = 0 /\ entries'[r].supply = entries[r].supply /\ burned'[r] = 0
      /\ unallocated'[r] = unallocated[r] + (entries[r].burned + burned[r])
  <2>1. entries[r] \in Entry
    BY DEF UpdaterInvariant, TypeOK, TablesType
  <2> QED BY <2>1 DEF Mint, MintPot, Zero, Entry
<1>3. Conserved(r)
  BY DEF Conservation
<1> QED BY <1>1, <1>2, <1>3, PartsType DEF Conserved, LocalsInvariant

\* What an edict gives is taken from what is unallocated.
LEMMA ApplyEdictConserves ==
  ASSUME UpdaterInvariant, LocalsInvariant, ProductsFit, Conservation, ApplyEdict
  PROVE  Conservation'
<1> SUFFICES ASSUME NEW r \in Rune PROVE Conserved(r)'
  BY DEF Conservation
<1> DEFINE e == Edicts[cursor]
           id == e.id
           give == Effect(e).give
           n == Effect(e).given
<1>1. /\ id \in Rune /\ give \in [Vouts -> Nat] /\ n \in 0..unallocated[id]
      /\ Total(OfRune(give, id), Vouts, id) = n
  BY CurrentEdict DEF LocalsInvariant, EffectType, Balanced
<1>2. /\ entries' = entries /\ burned' = burned /\ balances' = balances /\ Vouts' = Vouts
      /\ txBurned' = txBurned
      /\ unallocated' = [unallocated EXCEPT ![id] = @ - n]
      /\ allocated' = [v \in Vouts |-> [allocated[v] EXCEPT ![id] = @ + give[v]]]
  BY DEF ApplyEdict, Vouts, tables
<1> HIDE DEF e, id, give, n
<1>3. /\ Total(allocated', Vouts, id) = Total(allocated, Vouts, id) + n
      /\ r # id => Total(allocated', Vouts, r) = Total(allocated, Vouts, r)
  <2>1. Credits(allocated, id, give, allocated')
    BY <1>2 DEF Credits
  <2>2. tx \in Tx /\ allocated \in [Vouts -> [Rune -> Nat]]
    BY PartsType DEF LocalsInvariant
  <2> QED BY <1>1, <2>1, <2>2, Credited
<1>4. unallocated \in [Rune -> Nat]
  BY DEF UpdaterInvariant, TypeOK, TransactionType
<1>5. Conserved(r)
  BY DEF Conservation
<1>6. Total(allocated', Vouts', r) = Total(allocated', Vouts, r)
  BY <1>2
<1>7. CASE r = id
  <2>1. unallocated'[r] = unallocated[r] - n /\ n \in Int
    BY <1>1, <1>2, <1>4, <1>7
  <2>2. Total(allocated', Vouts', r) = Total(allocated, Vouts, r) + n
    BY <1>3, <1>6, <1>7
  <2> QED BY <1>2, <1>5, <2>1, <2>2, PartsType DEF Conserved, LocalsInvariant
<1>8. CASE r # id
  <2>1. unallocated'[r] = unallocated[r]
    BY <1>1, <1>2, <1>4, <1>8
  <2>2. Total(allocated', Vouts', r) = Total(allocated, Vouts, r)
    BY <1>3, <1>6, <1>8
  <2> QED BY <1>2, <1>5, <2>1, <2>2 DEF Conserved
<1> QED BY <1>7, <1>8

\* The rest goes to one output, or is burned.
LEMMA AfterEdictsConserves ==
  ASSUME UpdaterInvariant, LocalsInvariant, Conservation, AllocateRest \/ BurnRest
  PROVE  Conservation'
<1> SUFFICES ASSUME NEW r \in Rune PROVE Conserved(r)'
  BY DEF Conservation
<1>1. /\ entries' = entries /\ burned' = burned /\ balances' = balances /\ Vouts' = Vouts
      /\ unallocated'[r] = 0
  BY DEF AllocateRest, BurnRest, AfterEdicts, tables, Vouts, Zero
<1>2. Conserved(r)
  BY DEF Conservation
<1>3. CASE AllocateRest
  <2>1. PICK o \in Vouts : DefaultOutputs = {o}
    BY <1>3, PartsType, DefaultOutputsFit DEF LocalsInvariant, AllocateRest
  <2>2. GivesOne(allocated, allocated', o, unallocated[r], r) /\ txBurned' = txBurned
    BY <1>3, <2>1 DEF AllocateRest, GivesOne
  <2>3. tx \in Tx /\ unallocated[r] \in Nat /\ \A v \in Vouts : allocated[v][r] \in Nat
    BY PartsType DEF LocalsInvariant
  <2>4. Total(allocated', Vouts, r) = Total(allocated, Vouts, r) + unallocated[r]
    BY <2>2, <2>3, OneGains
  <2>5. Total(allocated', Vouts', r) = Total(allocated, Vouts, r) + unallocated[r]
    BY <1>1, <2>4
  <2> QED BY <1>1, <1>2, <2>2, <2>5, PartsType DEF Conserved, LocalsInvariant
<1>4. CASE BurnRest
  <2>1. allocated' = allocated /\ txBurned'[r] = txBurned[r] + unallocated[r]
    BY <1>4 DEF BurnRest
  <2> QED BY <1>1, <1>2, <2>1, PartsType DEF Conserved, LocalsInvariant
<1> QED BY <1>3, <1>4

\* What an OP_RETURN output was allocated is burned.
LEMMA BurnOutputConserves ==
  ASSUME UpdaterInvariant, LocalsInvariant, Conservation, BurnOutput
  PROVE  Conservation'
<1> SUFFICES ASSUME NEW r \in Rune PROVE Conserved(r)'
  BY DEF Conservation
<1>1. /\ entries' = entries /\ burned' = burned /\ balances' = balances /\ Vouts' = Vouts
      /\ unallocated' = unallocated /\ cursor \in Vouts
  BY DEF BurnOutput, tables, Vouts
<1>2. Conserved(r)
  BY DEF Conservation
<1>3. CASE ~IsOpReturn(cursor)
  <2>1. allocated' = allocated /\ txBurned' = txBurned
    BY <1>3 DEF BurnOutput
  <2> QED BY <1>1, <1>2, <2>1 DEF Conserved
<1>4. CASE IsOpReturn(cursor)
  <2>1. /\ txBurned'[r] = txBurned[r] + allocated[cursor][r]
        /\ allocated' = [allocated EXCEPT ![cursor] = Zero]
    BY <1>4 DEF BurnOutput
  <2>2. tx \in Tx /\ allocated \in [Vouts -> [Rune -> Nat]] /\ allocated[cursor][r] \in Nat
    BY <1>1, PartsType DEF LocalsInvariant
  <2>3. GivesOne(allocated', allocated, cursor, allocated[cursor][r], r)
        /\ \A v \in Vouts : allocated'[v][r] \in Nat
    BY <1>1, <2>1, <2>2 DEF GivesOne, Zero
  <2>4. Total(allocated, Vouts, r) = Total(allocated', Vouts, r) + allocated[cursor][r]
    BY <2>2, <2>3, OneGains
  <2>5. Total(allocated', Vouts, r) \in Nat
    BY <2>2, <2>3, FiniteOutputs, TotalRemove
  <2>6. Total(allocated', Vouts', r) = Total(allocated', Vouts, r)
    BY <1>1
  <2> QED BY <1>1, <1>2, <2>1, <2>2, <2>4, <2>5, <2>6, PartsType DEF Conserved, LocalsInvariant
<1> QED BY <1>3, <1>4

\* An input that was not converted goes back to an output.
LEMMA ReturnInputConserves ==
  ASSUME UpdaterInvariant, LocalsInvariant, Conservation, ReturnInput
  PROVE  Conservation'
<1> SUFFICES ASSUME NEW r \in Rune PROVE Conserved(r)'
  BY DEF Conservation
<1>1. /\ entries' = entries /\ burned' = burned /\ balances' = balances /\ Vouts' = Vouts
      /\ unallocated' = unallocated /\ pc = "return"
  BY DEF ReturnInput, tables, Vouts
<1>2. Conserved(r)
  BY DEF Conservation
<1>3. CASE ~(txBurned[inputId] > 0 /\ ReturnOutputs # {})
  <2>1. allocated' = allocated /\ txBurned' = txBurned
    BY <1>3 DEF ReturnInput
  <2> QED BY <1>1, <1>2, <2>1 DEF Conserved
<1>4. CASE txBurned[inputId] > 0 /\ ReturnOutputs # {}
  <2>1. Edicts # << >> /\ inputId # NoRune
    BY <1>1 DEF LocalsInvariant, LocalsFit
  <2>2. inputId \in Rune /\ txBurned \in [Rune -> Nat]
    BY <2>1 DEF UpdaterInvariant, TypeOK, TransactionType
  <2>3. PICK o \in Vouts : ReturnOutputs = {o}
    BY <1>4, <2>1, PartsType, ReturnOutputsFit DEF LocalsInvariant
  <2>4. tx \in Tx /\ allocated \in [Vouts -> [Rune -> Nat]]
    BY PartsType DEF LocalsInvariant
  <2>5. /\ allocated' = [v \in Vouts |->
                           IF v \in {o}
                           THEN [allocated[v] EXCEPT ![inputId] = @ + txBurned[inputId]]
                           ELSE allocated[v]]
        /\ txBurned' = [txBurned EXCEPT ![inputId] = 0]
    BY <1>4, <2>3 DEF ReturnInput
  <2> DEFINE n == IF r = inputId THEN txBurned[inputId] ELSE 0
  <2>6. n \in Nat /\ txBurned[r] = txBurned'[r] + n /\ txBurned'[r] \in Nat
    BY <2>2, <2>5
  <2>7. GivesOne(allocated, allocated', o, n, r)
    BY <2>2, <2>4, <2>5 DEF GivesOne
  <2> HIDE DEF n
  <2>8. \A v \in Vouts : allocated[v][r] \in Nat
    BY <2>4
  <2>9. Total(allocated', Vouts, r) = Total(allocated, Vouts, r) + n
    BY <2>4, <2>6, <2>7, <2>8, OneGains
  <2>10. Total(allocated', Vouts', r) = Total(allocated, Vouts, r) + n
    BY <1>1, <2>9
  <2> QED BY <1>1, <1>2, <2>6, <2>10, PartsType DEF Conserved, LocalsInvariant
<1> QED BY <1>3, <1>4

\* A row holds what its output was allocated.
LEMMA StoreOutputConserves ==
  ASSUME UpdaterInvariant, LocalsInvariant, Conservation, StoreOutput
  PROVE  Conservation'
<1> SUFFICES ASSUME NEW r \in Rune PROVE Conserved(r)'
  BY DEF Conservation
<1> DEFINE outpoint == [txid |-> tx.txid, vout |-> cursor]
           n == allocated[cursor][r]
<1>1. /\ entries' = entries /\ burned' = burned /\ Vouts' = Vouts /\ unallocated' = unallocated
      /\ cursor \in Vouts /\ pc = "store" /\ allocated' = [allocated EXCEPT ![cursor] = Zero]
  BY DEF StoreOutput, Vouts
<1>2. Conserved(r)
  BY DEF Conservation
<1>3. tx \in Tx /\ allocated \in [Vouts -> [Rune -> Nat]] /\ n \in Nat
  BY <1>1, PartsType DEF LocalsInvariant
<1>4. Total(allocated, Vouts, r) = Total(allocated', Vouts, r) + n /\ Total(allocated', Vouts, r) \in Nat
  <2>1. GivesOne(allocated', allocated, cursor, n, r) /\ \A v \in Vouts : allocated'[v][r] \in Nat
    BY <1>1, <1>3 DEF GivesOne, Zero
  <2> HIDE DEF n
  <2>2. Total(allocated, Vouts, r) = Total(allocated', Vouts, r) + n
    BY <1>3, <2>1, OneGains
  <2> QED BY <1>3, <2>1, <2>2, FiniteOutputs, TotalRemove
<1>5. Total(allocated', Vouts', r) = Total(allocated', Vouts, r)
  BY <1>1
<1>6. outpoint \notin DOMAIN balances
  <2>1. cursor \in Nat
    BY <1>1, <1>3, OutputsType
  <2>2. ~(cursor < cursor)
    BY <2>1
  <2> QED BY <1>1, <2>2 DEF LocalsInvariant, StoredInOrder, Working
<1>7. IsFiniteSet(DOMAIN balances) /\ \A o \in DOMAIN balances : balances[o][r] \in Nat
  BY PartsType DEF LocalsInvariant, FiniteRows
<1>8. CASE Stored(cursor)
  <2> DEFINE D == DOMAIN balances
  <2>1. /\ balances' = [o \in D \cup {outpoint} |->
                          IF o = outpoint THEN allocated[cursor] ELSE balances[o]]
        /\ txBurned' = txBurned
    BY <1>8 DEF StoreOutput, Stored
  <2>2. /\ DOMAIN balances' = D \cup {outpoint} /\ balances'[outpoint][r] = n
        /\ \A o \in D : balances'[o][r] = balances[o][r]
        /\ \A o \in D \cup {outpoint} : balances'[o][r] \in Nat
    BY <1>3, <1>6, <1>7, <2>1
  <2>3. IsFiniteSet(D) /\ outpoint \notin D
    BY <1>6, <1>7
  <2> HIDE DEF outpoint, n, D
  <2>4. Total(balances', D \cup {outpoint}, r) = balances'[outpoint][r] + Total(balances', D, r)
    <3>1. \A o \in D \cup {outpoint} : balances'[o][r] \in Nat
      BY <2>2
    <3>2. IsFiniteSet(D)
      BY <2>3
    <3>3. outpoint \notin D
      BY <2>3
    <3> QED BY <3>1, <3>2, <3>3, TotalAdd
  <2>5. Total(balances', D, r) = Total(balances, D, r)
    BY <2>2, <2>3, TotalSame
  <2>6. Total(balances', DOMAIN balances', r) = n + Total(balances, DOMAIN balances, r)
    BY <2>2, <2>4, <2>5 DEF D
  <2> QED BY <1>1, <1>2, <1>3, <1>4, <1>5, <2>1, <2>6, PartsType DEF Conserved, LocalsInvariant
<1>9. CASE ~Stored(cursor)
  <2>1. Total(balances', DOMAIN balances', r) = Total(balances, DOMAIN balances, r)
    <3> DEFINE D == DOMAIN balances
    <3>1. DOMAIN balances' = D /\ \A o \in D : balances'[o][r] = balances[o][r]
      BY <1>9 DEF StoreOutput
    <3>2. IsFiniteSet(D)
      BY <1>7
    <3> HIDE DEF D
    <3>3. Total(balances', D, r) = Total(balances, D, r)
      BY <3>1, <3>2, TotalSame
    <3> QED BY <3>1, <3>3 DEF D
  <2>2. CASE IsOpReturn(cursor)
    <3>1. txBurned'[r] = txBurned[r] + n
      BY <2>2 DEF StoreOutput
    <3> HIDE DEF n
    <3> QED BY <1>1, <1>2, <1>3, <1>4, <1>5, <2>1, <3>1, PartsType DEF Conserved, LocalsInvariant
  <2>3. CASE ~IsOpReturn(cursor)
    <3>1. n = 0 /\ txBurned' = txBurned
      BY <1>9, <2>3 DEF StoreOutput, Stored, Zero
    <3> HIDE DEF n
    <3> QED BY <1>1, <1>2, <1>3, <1>4, <1>5, <2>1, <3>1, PartsType DEF Conserved, LocalsInvariant
  <2> QED BY <2>2, <2>3
<1> QED BY <1>8, <1>9

\* When every output is stored nothing is allocated, and the rest is burned.
LEMMA FinishTransactionConserves ==
  ASSUME UpdaterInvariant, LocalsInvariant, Conservation, FinishTransaction
  PROVE  Conservation'
<1> SUFFICES ASSUME NEW r \in Rune PROVE Conserved(r)'
  BY DEF Conservation
<1>1. /\ entries' = entries /\ balances' = balances /\ unallocated' = unallocated
      /\ burned'[r] = burned[r] + txBurned[r] /\ txBurned'[r] = 0
      /\ tx' = NoTx /\ cursor \notin Vouts /\ pc = "store"
  BY DEF FinishTransaction, tables, Zero
<1>2. Total(allocated', Vouts', r) = 0
  <2>1. Vouts' = {}
    BY <1>1, NoTxType DEF Vouts
  <2> QED BY <2>1, TotalEmpty
<1>3. Total(allocated, Vouts, r) = 0
  <2>1. cursor \in Nat /\ cursor >= 1 /\ tx \in Tx
    BY <1>1 DEF UpdaterInvariant, TypeOK, TransactionType, LocalsInvariant, StoredInOrder
  <2>2. ASSUME NEW v \in Vouts PROVE allocated[v][r] = 0
    <3>1. v < cursor
      <4>1. Len(tx.outputs) \in Nat /\ v \in 1..Len(tx.outputs) /\ cursor \notin 1..Len(tx.outputs)
        BY <1>1, <2>1, OutputsType DEF Vouts
      <4> QED BY <2>1, <4>1
    <3>2. allocated[v] = Zero
      BY <1>1, <3>1 DEF LocalsInvariant, StoredInOrder
    <3> QED BY <3>2 DEF Zero
  <2> QED BY <2>1, <2>2, FiniteOutputs, TotalZero
<1>4. Conserved(r)
  BY DEF Conservation
<1> QED BY <1>1, <1>2, <1>3, <1>4, PartsType DEF Conserved, LocalsInvariant

\* The supplies after a conversion, when they fit: no more is taken from one than
\* was burned.
LEMMA MoveSupplyFits ==
  ASSUME UpdaterInvariant, LocalsInvariant, SuppliesFit, Conservation,
         pc = "convert", Acceptable, MoveSupply(AmountIn, AmountOut)
  PROVE  /\ inputId \in Rune /\ Other(inputId) \in Rune /\ Other(inputId) # inputId
         /\ AmountIn \in Nat /\ AmountOut \in Nat /\ AmountIn <= txBurned[inputId]
         /\ entries'[inputId].supply + AmountIn = entries[inputId].supply
         /\ entries'[Other(inputId)].supply = entries[Other(inputId)].supply + AmountOut
         /\ \A r \in Rune : entries'[r].burned = entries[r].burned
         /\ \A r \in Rune : entries'[r].supply \in Nat
<1> DEFINE in == inputId
           out == Other(inputId)
<1>1. in \in Rune /\ TypeOK
  BY DEF UpdaterInvariant, ConversionFound
<1>2. /\ out \in Rune /\ out # in /\ SupplyIn \in Nat /\ SupplyOut \in Nat
      /\ WantedOut \in Nat /\ txBurned[in] \in Nat /\ AmountIn \in Nat /\ AmountOut \in Nat
  BY <1>1, AmountsType
<1>3. AmountIn <= txBurned[in]
  <2>1. ExactInput => AmountIn = txBurned[in]
    BY DEF AmountIn
  <2>2. ~ExactInput => AmountIn <= txBurned[in]
    BY DEF Acceptable
  <2> QED BY <1>2, <2>1, <2>2
<1>4. txBurned[in] <= SupplyIn
  <2>1. Conserved(in)
    BY <1>1 DEF Conservation
  <2>2. SupplyIn = entries[in].supply
    BY DEF SupplyIn
  <2> HIDE DEF in
  <2> QED BY <1>1, <2>1, <2>2, PartsType DEF Conserved, LocalsInvariant
<1>5. SupplyIn < LotModulus /\ SupplyOut + AmountOut < LotModulus /\ LotModulus \in Nat
  BY <1>1, LotAssumption DEF SuppliesFit, SupplyIn
<1>6. SupplyIn - AmountIn \in Nat /\ SupplyIn - AmountIn < LotModulus
  BY <1>2, <1>3, <1>4, <1>5
<1>7. (SupplyIn - AmountIn) % LotModulus = SupplyIn - AmountIn
  BY <1>5, <1>6, BelowWidth
<1>8. (SupplyOut + AmountOut) % LotModulus = SupplyOut + AmountOut
  BY <1>2, <1>5, BelowWidth
<1>9. /\ entries'[in].supply = (SupplyIn - AmountIn) % LotModulus
      /\ entries'[out].supply = (SupplyOut + AmountOut) % LotModulus
      /\ entries' \in [Rune -> Entry]
  BY <1>1, <1>2, MoveSupplyType
<1>10. \A r \in Rune : entries'[r].burned = entries[r].burned
  <2>1. entries \in [Rune -> Entry]
    BY <1>1 DEF TypeOK, TablesType
  <2> DEFINE less == (SupplyIn - AmountIn) % LotModulus
             more == (SupplyOut + AmountOut) % LotModulus
  <2>2. entries' = [entries EXCEPT ![in].supply = less, ![out].supply = more]
    BY <1>2 DEF MoveSupply, SupplyIn, SupplyOut
  <2> HIDE DEF in, out, less, more
  <2> QED BY <2>1, <2>2 DEF Entry
<1>11. SupplyIn = entries[in].supply /\ SupplyOut = entries[out].supply
  BY DEF SupplyIn, SupplyOut
<1>12. \A r \in Rune : entries'[r].supply \in Nat
  BY <1>9 DEF Entry
<1>13. entries'[in].supply + AmountIn = entries[in].supply
  BY <1>2, <1>6, <1>7, <1>9, <1>11
<1> QED BY <1>1, <1>2, <1>3, <1>8, <1>9, <1>10, <1>11, <1>12, <1>13

\* The rune that is burned, and the one that is allocated.
LEMMA TwoRunes ==
  ASSUME NEW i \in Rune, NEW r \in Rune
  PROVE  r = i \/ r = Other(i)
  BY DEF Rune, Other, ID0, ID1

\* convert_exact_input: all that was burned is converted, and the outputs take what
\* they wanted and the first of them the residual.
LEMMA ConvertExactInputConserves ==
  ASSUME UpdaterInvariant, LocalsInvariant, SuppliesFit, ConvertedIsAllocated, Conservation,
         ConvertExactInput
  PROVE  Conservation'
<1> SUFFICES ASSUME NEW r \in Rune PROVE Conserved(r)'
  BY DEF Conservation
<1> DEFINE in == inputId
           out == Other(inputId)
           residual == AmountOut - converted[out]
           extra(v) == IF v = Min(Takers) THEN residual ELSE 0
           F1 == [v \in Vouts |-> [q \in Rune |-> allocated[v][q] + allocatedConversion[v][q]]]
<1>1. pc = "convert" /\ Acceptable /\ MoveSupply(AmountIn, AmountOut) /\ ExactInput
  BY DEF ConvertExactInput
<1>2. /\ in \in Rune /\ out \in Rune /\ out # in /\ AmountIn \in Nat /\ AmountOut \in Nat
      /\ entries'[in].supply + AmountIn = entries[in].supply
      /\ entries'[out].supply = entries[out].supply + AmountOut
      /\ \A q \in Rune : entries'[q].burned = entries[q].burned
      /\ \A q \in Rune : entries'[q].supply \in Nat
  BY <1>1, MoveSupplyFits
<1>3. AmountIn = txBurned[in]
  BY <1>1 DEF AmountIn
<1>4. /\ tx \in Tx /\ txBurned \in [Rune -> Nat] /\ converted \in [Rune -> Nat]
      /\ allocated \in [Vouts -> [Rune -> Nat]]
      /\ allocatedConversion \in [Vouts -> [Rune -> Nat]]
  BY DEF UpdaterInvariant, TypeOK, TransactionType
<1>5. residual \in Nat
  <2>1. converted[out] <= AmountOut /\ converted[out] \in Nat
    BY <1>1, <1>2, <1>4 DEF Acceptable, WantedOut
  <2> QED BY <1>2, <2>1
<1>6. /\ balances' = balances /\ unallocated' = unallocated /\ burned' = burned
      /\ Vouts' = Vouts
      /\ allocated' = [v \in Vouts |->
                         IF v \in Takers
                         THEN [allocated[v] EXCEPT
                                 ![out] = @ + allocatedConversion[v][out] + extra(v)]
                         ELSE allocated[v]]
      /\ txBurned' = [txBurned EXCEPT
                        ![in] = 0, ![out] = IF Takers = {} THEN @ + residual ELSE @]
  BY DEF ConvertExactInput, Vouts
<1>7. /\ Total(balances, DOMAIN balances, r) \in Nat /\ Total(allocated, Vouts, r) \in Nat
      /\ unallocated[r] \in Nat /\ txBurned[r] \in Nat /\ burned[r] \in Nat
      /\ entries[r].burned \in Nat /\ entries[r].supply \in Nat
      /\ Total(balances, DOMAIN balances, r) + Total(allocated, Vouts, r)
           + unallocated[r] + txBurned[r] + burned[r] + entries[r].burned
           = entries[r].supply
  <2>1. Conserved(r)
    BY DEF Conservation
  <2> QED BY <2>1, PartsType DEF Conserved, LocalsInvariant
<1>8. /\ Total(balances', DOMAIN balances', r) = Total(balances, DOMAIN balances, r)
      /\ unallocated'[r] = unallocated[r] /\ burned'[r] = burned[r]
  BY <1>6
<1>9. IsFiniteSet(Vouts)
  BY <1>4, FiniteOutputs
<1>10. CASE r = in
  <2>1. \A v \in Vouts : allocated'[v][r] = allocated[v][r]
    <3> HIDE DEF extra, out, in
    <3> QED BY <1>2, <1>4, <1>6, <1>10
  <2>2. Total(allocated', Vouts, r) = Total(allocated, Vouts, r)
    BY <1>9, <2>1, TotalSame
  <2>3. Total(allocated', Vouts', r) = Total(allocated, Vouts, r)
    BY <1>6, <2>2
  <2>4. txBurned'[r] = 0
    <3> HIDE DEF out, in, residual
    <3> QED BY <1>2, <1>4, <1>6, <1>10
  <2>5. entries'[r].supply + txBurned[r] = entries[r].supply /\ entries'[r].burned = entries[r].burned
        /\ entries'[r].supply \in Nat
    BY <1>2, <1>3, <1>10
  <2> HIDE DEF in, out, residual, extra
  <2>6. entries'[r].supply = entries[r].supply - txBurned[r]
    BY <1>7, <2>5
  <2>7. Total(balances', DOMAIN balances', r) + Total(allocated', Vouts', r)
          + unallocated'[r] + txBurned'[r] + burned'[r] + entries'[r].burned
        = entries[r].supply - txBurned[r]
    BY <1>7, <1>8, <2>3, <2>4, <2>5
  <2> QED BY <2>6, <2>7 DEF Conserved
<1>11. CASE r = out
  <2>1. /\ \A v \in Vouts : F1[v][r] \in Nat
        /\ Grows(allocated, allocatedConversion, F1, Vouts, r)
    BY <1>4 DEF Grows
  <2>2. Total(F1, Vouts, r) = Total(allocated, Vouts, r) + Total(allocatedConversion, Vouts, r)
    <3> HIDE DEF F1
    <3> QED BY <1>9, <2>1, TotalPlus
  <2>3. Total(allocatedConversion, Vouts, r) = converted[r] /\ converted[r] \in Nat
    BY <1>4 DEF ConvertedIsAllocated
  <2>4. \A v \in Takers : allocated'[v][r] = F1[v][r] + extra(v)
    <3>1. ASSUME NEW v \in Takers PROVE allocated'[v][r] = F1[v][r] + extra(v)
      <4>1. v \in Vouts
        BY DEF Takers
      <4>2. allocated'[v] = [allocated[v] EXCEPT ![out] = @ + allocatedConversion[v][out] + extra(v)]
        BY <1>6, <4>1
      <4>3. F1[v][r] = allocated[v][r] + allocatedConversion[v][r] /\ allocated[v] \in [Rune -> Nat]
        BY <1>4, <4>1
      <4> HIDE DEF extra, F1, out
      <4> QED BY <1>2, <1>11, <4>2, <4>3
    <3> QED BY <3>1
  <2>5. \A v \in Vouts \ Takers : allocated'[v][r] = F1[v][r]
    <3>1. ASSUME NEW v \in Vouts \ Takers PROVE allocated'[v][r] = F1[v][r]
      <4>1. allocatedConversion[v][r] \in Nat /\ ~(allocatedConversion[v][r] > 0)
        BY <1>4, <1>11 DEF Takers
      <4>2. F1[v][r] = allocated[v][r] + allocatedConversion[v][r] /\ allocated[v][r] \in Nat
        BY <1>4
      <4>3. allocated'[v] = allocated[v]
        BY <1>6
      <4> HIDE DEF F1
      <4> QED BY <4>1, <4>2, <4>3
    <3> QED BY <3>1
  <2>6. entries'[r].supply = entries[r].supply + AmountOut /\ entries'[r].burned = entries[r].burned
    BY <1>2, <1>11
  <2>7. CASE Takers = {}
    <3>1. txBurned'[r] = txBurned[r] + residual
      <4> HIDE DEF out, in, residual
      <4> QED BY <1>2, <1>4, <1>6, <1>11, <2>7
    <3>2. Total(allocated', Vouts, r) = Total(F1, Vouts, r)
      <4> HIDE DEF F1
      <4> QED BY <1>9, <2>5, <2>7, TotalSame
    <3>3. Total(allocated', Vouts', r) = Total(F1, Vouts, r)
      BY <1>6, <3>2
    <3>4. residual = AmountOut - converted[r]
      BY <1>11
    <3>5. AmountOut \in Nat
      BY <1>2
    <3> HIDE DEF in, out, residual, extra, F1
    <3> QED BY <1>5, <1>7, <1>8, <2>2, <2>3, <2>6, <3>1, <3>3, <3>4, <3>5 DEF Conserved
  <2>8. CASE Takers # {}
    <3>1. txBurned'[r] = txBurned[r]
      <4> HIDE DEF out, in, residual
      <4> QED BY <1>2, <1>4, <1>6, <1>11, <2>8
    <3>2. Min(Takers) \in Takers /\ Takers \subseteq Vouts
      <4>1. Takers \in SUBSET Nat /\ Takers \subseteq Vouts
        BY <1>4, FiniteOutputs DEF Takers
      <4> QED BY <2>8, <4>1, MinExists
    <3>3. GivesOne(F1, allocated', Min(Takers), residual, r)
      <4>1. extra(Min(Takers)) = residual
        OBVIOUS
      <4>2. ASSUME NEW v \in Vouts \ {Min(Takers)} PROVE allocated'[v][r] = F1[v][r]
        <5>1. extra(v) = 0 /\ F1[v][r] \in Nat
          BY <2>1
        <5> HIDE DEF extra, F1
        <5>2. CASE v \in Takers
          BY <2>4, <5>1, <5>2
        <5>3. CASE v \notin Takers
          BY <2>5, <5>3
        <5> QED BY <5>2, <5>3
      <4>3. allocated'[Min(Takers)][r] = F1[Min(Takers)][r] + residual
        BY <2>4, <3>2, <4>1
      <4> HIDE DEF F1, residual, extra
      <4> QED BY <3>2, <4>2, <4>3 DEF GivesOne
    <3>4. Total(allocated', Vouts, r) = Total(F1, Vouts, r) + residual
      <4> HIDE DEF F1, residual
      <4>1. \A v \in Vouts : F1[v][r] \in Nat
        BY <2>1
      <4> QED BY <1>4, <1>5, <3>3, <4>1, OneGains
    <3>5. Total(allocated', Vouts', r) = Total(F1, Vouts, r) + residual
      BY <1>6, <3>4
    <3>6. residual = AmountOut - converted[r]
      BY <1>11
    <3>7. AmountOut \in Nat
      BY <1>2
    <3> HIDE DEF in, out, residual, extra, F1
    <3> QED BY <1>5, <1>7, <1>8, <2>2, <2>3, <2>6, <3>1, <3>5, <3>6, <3>7 DEF Conserved
  <2> QED BY <2>7, <2>8
<1> QED BY <1>2, <1>10, <1>11, TwoRunes

\* convert_exact_output: the outputs take what they wanted, and what it costs is no
\* longer burned.
LEMMA ConvertExactOutputConserves ==
  ASSUME UpdaterInvariant, LocalsInvariant, SuppliesFit, ConvertedIsAllocated, Conservation,
         ConvertExactOutput
  PROVE  Conservation'
<1> SUFFICES ASSUME NEW r \in Rune PROVE Conserved(r)'
  BY DEF Conservation
<1> DEFINE in == inputId
           out == Other(inputId)
<1>1. pc = "convert" /\ Acceptable /\ MoveSupply(AmountIn, AmountOut) /\ ~ExactInput
  BY DEF ConvertExactOutput
<1>2. /\ in \in Rune /\ out \in Rune /\ out # in /\ AmountIn \in Nat /\ AmountOut \in Nat
      /\ AmountIn <= txBurned[in]
      /\ entries'[in].supply + AmountIn = entries[in].supply
      /\ entries'[out].supply = entries[out].supply + AmountOut
      /\ \A q \in Rune : entries'[q].burned = entries[q].burned
      /\ \A q \in Rune : entries'[q].supply \in Nat
  BY <1>1, MoveSupplyFits
<1>3. AmountOut = converted[out]
  BY <1>1 DEF AmountOut, WantedOut
<1>4. /\ tx \in Tx /\ txBurned \in [Rune -> Nat] /\ converted \in [Rune -> Nat]
      /\ allocated \in [Vouts -> [Rune -> Nat]]
      /\ allocatedConversion \in [Vouts -> [Rune -> Nat]]
  BY DEF UpdaterInvariant, TypeOK, TransactionType
<1>5. /\ balances' = balances /\ unallocated' = unallocated /\ burned' = burned
      /\ Vouts' = Vouts
      /\ allocated' = [v \in Vouts |->
                         [allocated[v] EXCEPT ![out] = @ + allocatedConversion[v][out]]]
      /\ txBurned' = [txBurned EXCEPT ![in] = @ - AmountIn]
  BY DEF ConvertExactOutput, Vouts
<1>6. /\ Total(balances, DOMAIN balances, r) \in Nat /\ Total(allocated, Vouts, r) \in Nat
      /\ unallocated[r] \in Nat /\ txBurned[r] \in Nat /\ burned[r] \in Nat
      /\ entries[r].burned \in Nat /\ entries[r].supply \in Nat
      /\ Total(balances, DOMAIN balances, r) + Total(allocated, Vouts, r)
           + unallocated[r] + txBurned[r] + burned[r] + entries[r].burned
           = entries[r].supply
  <2>1. Conserved(r)
    BY DEF Conservation
  <2> QED BY <2>1, PartsType DEF Conserved, LocalsInvariant
<1>7. /\ Total(balances', DOMAIN balances', r) = Total(balances, DOMAIN balances, r)
      /\ unallocated'[r] = unallocated[r] /\ burned'[r] = burned[r]
  BY <1>5
<1>8. IsFiniteSet(Vouts)
  BY <1>4, FiniteOutputs
<1> HIDE DEF in, out
<1>9. CASE r = in
  <2>1. \A v \in Vouts : allocated'[v][r] = allocated[v][r]
    BY <1>2, <1>4, <1>5, <1>9
  <2>2. Total(allocated', Vouts, r) = Total(allocated, Vouts, r)
    BY <1>8, <2>1, TotalSame
  <2>3. Total(allocated', Vouts', r) = Total(allocated, Vouts, r)
    BY <1>5, <2>2
  <2>4. txBurned'[r] = txBurned[r] - AmountIn
    BY <1>2, <1>4, <1>5, <1>9
  <2>5. entries'[r].supply + AmountIn = entries[r].supply /\ entries'[r].burned = entries[r].burned
        /\ entries'[r].supply \in Nat
    BY <1>2, <1>9
  <2>6. AmountIn \in Nat
    BY <1>2
  <2>7. entries'[r].supply = entries[r].supply - AmountIn
    BY <1>6, <2>5, <2>6
  <2>8. Total(balances', DOMAIN balances', r) + Total(allocated', Vouts', r)
          + unallocated'[r] + txBurned'[r] + burned'[r] + entries'[r].burned
        = entries[r].supply - AmountIn
    BY <1>6, <1>7, <2>3, <2>4, <2>5, <2>6
  <2> QED BY <2>7, <2>8 DEF Conserved
<1>10. CASE r = out
  <2>1. Grows(allocated, allocatedConversion, allocated', Vouts, r)
    BY <1>2, <1>4, <1>5, <1>10 DEF Grows
  <2>2. Total(allocated', Vouts, r)
          = Total(allocated, Vouts, r) + Total(allocatedConversion, Vouts, r)
    BY <1>8, <2>1, TotalPlus
  <2>3. Total(allocatedConversion, Vouts, r) = AmountOut
    BY <1>3, <1>10 DEF ConvertedIsAllocated
  <2>4. Total(allocated', Vouts', r) = Total(allocated, Vouts, r) + AmountOut
    BY <1>5, <2>2, <2>3
  <2>5. txBurned'[r] = txBurned[r]
    BY <1>2, <1>4, <1>5, <1>10
  <2>6. entries'[r].supply = entries[r].supply + AmountOut /\ entries'[r].burned = entries[r].burned
    BY <1>2, <1>10
  <2>7. AmountOut \in Nat
    BY <1>2
  <2> QED BY <1>6, <1>7, <2>4, <2>5, <2>6, <2>7 DEF Conserved
<1> QED BY <1>2, <1>9, <1>10, TwoRunes DEF in, out

-----------------------------------------------------------------------------
\* Every step moves amounts, and only the reward adds to them.
LEMMA StepConserves ==
  ASSUME UpdaterInvariant, LocalsInvariant, ProductsFit, SuppliesFit, ConvertedIsAllocated,
         Conservation, [Next]_vars
  PROVE  Conservation'
<1>1. CASE BeginBlock
  BY <1>1, BeginBlockConserves
<1>2. CASE EndBlock
  BY <1>2, EndBlockConserves
<1>3. CASE NextTransaction
  BY <1>3, NextTransactionConserves
<1>4. CASE \E o \in pending : TakeInput(o)
  BY <1>4, TakeInputConserves
<1>5. CASE CreateOutpoints \/ MoveOutpoints \/ NoMint \/ OverflowEdict \/ DetectConversion
           \/ RefuseConversion \/ UNCHANGED vars
  <2>1. CreateOutpoints \/ MoveOutpoints => UNCHANGED <<balances, tx, allocation, burned, entries>>
    BY DEF CreateOutpoints, MoveOutpoints
  <2>2. NoMint \/ OverflowEdict \/ DetectConversion \/ RefuseConversion
          => UNCHANGED <<balances, tx, allocation, burned, entries>>
    BY DEF NoMint, OverflowEdict, DetectConversion, RefuseConversion, tables
  <2>3. UNCHANGED vars => UNCHANGED <<balances, tx, allocation, burned, entries>>
    BY DEF vars, tables
  <2> QED BY <1>5, <2>1, <2>2, <2>3, NothingMoved
<1>6. CASE Mint
  BY <1>6, MintConserves
<1>7. CASE ApplyEdict
  BY <1>7, ApplyEdictConserves
<1>8. CASE AllocateRest \/ BurnRest
  BY <1>8, AfterEdictsConserves
<1>9. CASE BurnOutput
  BY <1>9, BurnOutputConserves
<1>10. CASE ConvertExactInput
  BY <1>10, ConvertExactInputConserves
<1>11. CASE ConvertExactOutput
  BY <1>11, ConvertExactOutputConserves
<1>12. CASE ReturnInput
  BY <1>12, ReturnInputConserves
<1>13. CASE StoreOutput
  BY <1>13, StoreOutputConserves
<1>14. CASE FinishTransaction
  BY <1>14, FinishTransactionConserves
<1> QED
  BY <1>1, <1>2, <1>3, <1>4, <1>5, <1>6, <1>7, <1>8, <1>9, <1>10, <1>11, <1>12, <1>13, <1>14
     DEF Next, IndexRunes, Stopped

(***************************************************************************)
(* Conservation: what the outputs hold, what the transaction being indexed *)
(* has in hand and what is burned add up to the supply of each rune, in    *)
(* every loop of index_runes, as long as no product of an edict and no     *)
(* supply passes the width of a u128.                                      *)
(***************************************************************************)
THEOREM RunesAreConserved ==
  Spec /\ []ProductsFit /\ []SuppliesFit => []Conservation
<1>1. Init => Conservation
  <2> SUFFICES ASSUME Init, NEW r \in Rune PROVE Conserved(r)
    BY DEF Conservation
  <2>1. Vouts = {} /\ DOMAIN balances = {}
    BY NoTxType DEF Init, Vouts
  <2>2. Total(allocated, Vouts, r) = 0 /\ Total(balances, DOMAIN balances, r) = 0
    BY <2>1, TotalEmpty
  <2>3. /\ unallocated[r] = 0 /\ txBurned[r] = 0 /\ burned[r] = 0
        /\ entries[r].burned = 0 /\ entries[r].supply = 0
    BY DEF Init, Zero
  <2> QED BY <2>2, <2>3 DEF Conserved
<1>2. UpdaterInvariant /\ LocalsInvariant /\ ProductsFit /\ SuppliesFit /\ ConvertedIsAllocated
        /\ Conservation /\ [Next]_vars => Conservation'
  BY StepConserves
<1> QED
  BY <1>1, <1>2, Invariance, LocalsInvariance, ConvertedEqualsAllocated, PTL DEF Spec
=============================================================================
