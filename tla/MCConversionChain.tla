------------------------- MODULE MCConversionChain -------------------------
(***************************************************************************)
(* A chain of two conversions, a replacement of the first, and one that    *)
(* closes the chain and depends on another transaction.                    *)
(***************************************************************************)
EXTENDS ConversionChain

Sale(id, amount) == [id |-> id, amount |-> amount, min |-> 1]
Transaction(inputs, leaves, fee, size, sale) ==
  [inputs |-> inputs, leaves |-> leaves, rbf |-> TRUE, fee |-> fee,
   size |-> size, sale |-> sale]
CoinOf(n) == [tx |-> "root", out |-> n]
Change(n) == [tx |-> n, out |-> "change"]

Others ==
  [first |-> Transaction({Root, CoinOf("a")}, TRUE, 300, 200, Sale(ID0, 6)),
   bidder |-> Transaction({Root, CoinOf("b")}, TRUE, 900, 250, Sale(ID1, 9)),
   second |-> Transaction({Convert("first"), CoinOf("c")}, TRUE, 400, 200, Sale(ID1, 5)),
   parent |-> Transaction({CoinOf("d")}, FALSE, 400, 200, Absent.sale),
   closer |-> Transaction({Convert("first"), Change("parent")}, FALSE, 600, 200,
                          Sale(ID0, 2))]

Command(exactInput, id, input, output, rate_) ==
  [exactInput |-> exactInput, id |-> id, input |-> input, output |-> output,
   rate |-> rate_, dry |-> FALSE]
EveryCommand ==
  {Command(TRUE, ID0, 5, 4, f) : f \in {1000, 9000}}
  \cup {Command(TRUE, ID1, 5, 0, 3000)}
  \cup {[Command(TRUE, ID0, 5, 4, 9000) EXCEPT !.dry = TRUE]}
  \cup {Command(FALSE, ID0, a, 4, 9000) : a \in {0, 6}}
  \cup {Command(FALSE, ID1, 0, 4, f) : f \in {1000, 3000}}
Issues == <<12, 8>>
Supplies == [r \in Rune |-> IF r = ID0 THEN 30 ELSE 20]
=============================================================================
