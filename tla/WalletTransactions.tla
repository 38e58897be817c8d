------------------------- MODULE WalletTransactions -------------------------
(***************************************************************************)
(* The transactions the wallet builds (src/subcommand/wallet: mint.rs,     *)
(* send.rs, convert.rs), as functions of what it knows: the balances of its*)
(* outputs, the entries of the runes and the end of a chain.  A function   *)
(* known maps each listed output to its balances.                          *)
(*                                                                         *)
(* Outputs are numbered from 1 here, so the code's output 2 is 3 and its   *)
(* pointer Some(0) is 1.                                                   *)
(***************************************************************************)
EXTENDS RuneUpdater, ConversionLimits, SequencesExt

-----------------------------------------------------------------------------
(* Selecting inputs. *)

\* get_runic_outputs.
Runic(known) == {o \in DOMAIN known : \E r \in Rune : known[o][r] > 0}

\* The order of a BTreeMap of outpoints; ids are given out in that order here.
Earlier(o, p) == o.txid < p.txid \/ (o.txid = p.txid /\ o.vout < p.vout)

\* The loop over the balances visits the first output, and others until it has
\* the amount.
Visited(known, r, amount) ==
  LET before(o) == {p \in Runic(known) : Earlier(p, o)}
  IN  {o \in Runic(known) : before(o) = {} \/ Total(known, before(o), r) < amount}
Selected(known, r, amount) ==
  {o \in Visited(known, r, amount) : known[o][r] > 0}

-----------------------------------------------------------------------------
(* The outputs. *)

WalletOutput(script) ==
  [script |-> script, value |-> IF script \in StateChange THEN 1 ELSE 0]
Spend(edicts, pointer) ==
  [kind |-> "runestone", edicts |-> edicts, pointer |-> pointer]
Of(amount, id, output) == [id |-> id, amount |-> amount, output |-> output]

\* A transaction before it is funded, and the outputs that are the wallet's own.
Unfunded(inputs, scripts, artifact, mine) ==
  [inputs |-> inputs, mine |-> mine,
   template |-> [coinbase |-> FALSE, rbf |-> TRUE,
                 outputs |-> [v \in DOMAIN scripts |-> WalletOutput(scripts[v])],
                 artifact |-> artifact]]

\* fund_raw_transaction: an input, and a change output after all others.
Funded(unfunded, coin) ==
  [inputs |-> unfunded.inputs \cup {coin},
   mine |-> unfunded.mine \cup {Len(unfunded.template.outputs) + 1},
   template |-> [unfunded.template EXCEPT
                   !.outputs = Append(@, WalletOutput("plain"))]]

-----------------------------------------------------------------------------
(* mint.rs *)

MintTransaction ==
  Unfunded({}, <<"mint", "plain", "op_return">>, Spend(<< >>, 0), {2})

\* What the command reports to have minted, for the block at height h.
\* Mutant: the remainder of the division is paid too.
MintPileRoundedUp(read, h, r) ==
  LET s == [q \in Rune |-> read[q].supply]
  IN  read[r].burned + 1 + (IF r = ID0 THEN RewardShare0(s[ID0], s[ID1], Reward(h))
                                   ELSE RewardShare1(s[ID0], s[ID1], Reward(h)))
MintPile(read, h, r) ==
  LET s == [q \in Rune |-> read[q].supply]
  IN  read[r].burned + (IF r = ID0 THEN RewardShare0(s[ID0], s[ID1], Reward(h))
                                   ELSE RewardShare1(s[ID0], s[ID1], Reward(h)))

-----------------------------------------------------------------------------
(* send.rs *)

\* The change output comes before the destination; when nothing is left over
\* there is one output, and no runestone.
\* Mutant: the runestone points at the change output.
SendToChange(known, id, amount) ==
  LET inputs == Selected(known, id, amount)
  IN  IF Total(known, inputs, id) > amount
      THEN Unfunded(inputs, <<"op_return", "plain", "plain">>,
                    Spend(<<Of(amount, id, 2)>>, 0), {2})
      ELSE Unfunded(inputs, <<"plain">>, NoArtifact, {})
SendTransaction(known, id, amount) ==
  LET inputs == Selected(known, id, amount)
  IN  IF Total(known, inputs, id) > amount
      THEN Unfunded(inputs, <<"op_return", "plain", "plain">>,
                    Spend(<<Of(amount, id, 3)>>, 0), {2})
      ELSE Unfunded(inputs, <<"plain">>, NoArtifact, {})

-----------------------------------------------------------------------------
(* convert.rs *)

\* create_unfunded_convert_transaction: the runestone.  outputBalance counts the
\* output rune on every output that was visited, spent or not.
\* Mutant: the inputs' balance of the output rune is not counted.
MinimumOnly(outputBalance, min, out) == Of(min, out, 3)
Wanted(outputBalance, min, out) == Of(outputBalance + min, out, 3)

\* Mutant: the output rune on the inputs is left to the pointer.
KeepNone(outputBalance, out) == << >>
Keep(outputBalance, out) ==
  IF outputBalance > 0 THEN <<Of(0, out, 3)>> ELSE << >>

\* Mutant: the input rune is not returned if the conversion is refused.
BurnAll(id) == <<Of(0, id, 1)>>
BurnAndReturn(id) == <<Of(0, id, 1), Of(0, id, 3)>>

ConvertStone(exactInput, connected, id, max, min, inputBalance, outputBalance) ==
  LET out == Other(id)
      change == inputBalance > max
      burnInput == IF change THEN <<Of(max, id, 1)>> ELSE << >>
      wanted == Wanted(outputBalance, min, out)
  IN  IF exactInput
      THEN Spend(burnInput \o (IF connected
                               THEN Keep(outputBalance, out) \o <<Of(1, out, 3)>>
                               ELSE <<wanted>>),
                 IF change THEN 0 ELSE 1)
      ELSE IF change
      THEN Spend(<<wanted, Of(IF connected THEN 1 ELSE inputBalance - max, id, 3)>>, 1)
      ELSE Spend(<<wanted>> \o BurnAndReturn(id), 0)

ConvertTransaction(known, c, connected, limits) ==
  LET visited == Visited(known, c.id, limits.max)
      inputs == Selected(known, c.id, limits.max)
  IN  Unfunded(inputs, <<"op_return", "convert", "plain">>,
               ConvertStone(c.exactInput, connected, c.id, limits.max, limits.min,
                            Total(known, inputs, c.id),
                            Total(known, visited, Other(c.id))),
               {3})

\* Inputs are there for the whole amount ("insufficient balance" otherwise).
Covers(known, id, amount) ==
  Total(known, Selected(known, id, amount), id) >= amount
=============================================================================
