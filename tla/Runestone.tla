------------------------------ MODULE Runestone ------------------------------
(***************************************************************************)
(* The runestone codec, crates/runes-bitomc/src/runestone.rs: a runestone  *)
(* is a sequence of integers, which encipher writes as varints into an     *)
(* OP_RETURN output and decipher reads from the first such output.  An     *)
(* integer is a value here, not its bytes, and a payload that is not a     *)
(* sequence of varints is a cenotaph that has no integers.  Outputs are    *)
(* counted from 1, so that the pointer 0 is None.                          *)
(***************************************************************************)
EXTENDS Integers, Sequences, Runes

CONSTANT LotModulus   \* 2 ^ 128 in the code: amounts and integers are u128
ASSUME LotAssumption == LotModulus \in Nat \ {0}

Edict == [id : Rune, amount : Nat, output : Nat \ {0}]

\* What Runestone::decipher finds in a transaction.
Artifact == [kind : {"none", "cenotaph", "runestone"},
             edicts : Seq(Edict), pointer : Nat]
NoArtifact == [kind |-> "none", edicts |-> << >>, pointer |-> 0]
Cenotaph == [kind |-> "cenotaph", edicts |-> << >>, pointer |-> 0]

\* The artifacts decipher can find in a transaction of n outputs: edicts are of
\* half a u128 and point at an output or one past the last, and a pointer that
\* does not point at an output is dropped.
FitsOutputs(artifact, n) ==
  /\ \A i \in DOMAIN artifact.edicts :
       /\ artifact.edicts[i].output \in 1..(n + 1)
       /\ artifact.edicts[i].amount * 2 < LotModulus
  /\ artifact.pointer \in 0..n
  /\ artifact.kind # "runestone" => artifact.edicts = << >> /\ artifact.pointer = 0

-----------------------------------------------------------------------------
(* encipher *)

HalfLot == (LotModulus - 1) \div 2   \* u128::MAX / 2

\* The low bit of an amount says which rune it is of.
IdBit(id) == IF id = ID0 THEN 0 ELSE 1
EncodedAmount(e) ==
  2 * (IF e.amount >= HalfLot THEN HalfLot - 1 ELSE e.amount) + IdBit(e.id)

\* The pointer, if there is one, then two integers for each edict.
PointerIntegers(stone) ==
  IF stone.pointer = 0 THEN << >> ELSE <<stone.pointer - 1>>
Encipher(stone) ==
  PointerIntegers(stone) \o
  [k \in 1..(2 * Len(stone.edicts)) |->
     LET e == stone.edicts[(k + 1) \div 2]
     IN  IF k % 2 = 1 THEN EncodedAmount(e) ELSE e.output - 1]

-----------------------------------------------------------------------------
(* decipher: Message::from_integers and Edict::from_integers *)

\* An odd number of integers begins with the pointer.
HasPointer(payload) == Len(payload) % 2 = 1
DecipheredPointer(n, payload) ==
  IF HasPointer(payload) /\ payload[1] < n THEN payload[1] + 1 ELSE 0

DecipheredEdict(amount, output) ==
  [id |-> IF amount % 2 = 0 THEN ID0 ELSE ID1,
   amount |-> amount \div 2,
   output |-> output + 1]
DecipheredEdicts(payload) ==
  LET offset == Len(payload) % 2
  IN  [i \in 1..(Len(payload) \div 2) |->
         DecipheredEdict(payload[offset + 2 * i - 1], payload[offset + 2 * i])]

\* One edict past the end of the outputs makes a cenotaph of the runestone.
Decipher(n, payload) ==
  LET edicts == DecipheredEdicts(payload)
  IN  IF \A i \in DOMAIN edicts : edicts[i].output <= n + 1
      THEN [kind |-> "runestone", edicts |-> edicts,
            pointer |-> DecipheredPointer(n, payload)]
      ELSE Cenotaph
=============================================================================
