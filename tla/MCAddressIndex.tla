--------------------------- MODULE MCAddressIndex ---------------------------
(***************************************************************************)
(* Four blocks, the first of them below the first rune height: outputs     *)
(* spent one and two blocks later, in the order they were made and not, and*)
(* in the block that makes them.  The two outputs of the first block are   *)
(* always missing; the third block has four inputs that are missing if the *)
(* second was indexed without addresses, one more than the channel of the  *)
(* requests holds.                                                         *)
(***************************************************************************)
EXTENDS AddressIndex

Transaction(txid, inputs, outputs) ==
  [txid |-> txid, inputs |-> inputs, outputs |-> outputs]
Coinbase(txid) == Transaction(txid, << >>, <<"a">>)
FourBlocks ==
  <<<<Transaction("c1", << >>, <<"a", "b">>)>>,
    <<Coinbase("c2"),
      Transaction("t", <<Output("c1", 2), Output("c1", 1)>>, <<"b", "a", "b">>)>>,
    <<Coinbase("c3"),
      Transaction("v", <<Output("t", 3), Output("t", 1)>>, <<"b">>),
      Transaction("w", <<Output("c2", 1), Output("v", 1), Output("t", 2)>>, <<"a", "a">>)>>,
    <<Coinbase("c4"), Transaction("x", <<Output("w", 1), Output("c3", 1)>>, <<"b">>)>>>>
=============================================================================
