-------------------------- MODULE ConversionChain --------------------------
(***************************************************************************)
(* How `wallet convert' finds its place among the conversions that wait in *)
(* the mempool (src/subcommand/wallet/convert.rs).  The node does not say  *)
(* who spends an output, so the wallet has a transaction on it refused,    *)
(* reads the fees of the other one from the error, and looks for these     *)
(* fees in the mempool.  Each request is a step, and the mempool and the   *)
(* index move between the requests.                                        *)
(*                                                                         *)
(* The chain is required here and not broken; its start is in RuneUpdater  *)
(* and Wallet.  Fee rates are sat per 1000 vB.                             *)
(***************************************************************************)
EXTENDS ConversionLimits, SequencesExt

CONSTANTS
  Pool,        \* what others may send, by name: records [inputs, leaves, rbf,
               \* fee, size, sale]
  Supply,      \* the supplies before all of them
  Rewards,     \* the rewards of the coming blocks; bound: as many blocks come
  Commands,    \* ConversionLimits commands with [rate, dry]
  TestSize,    \* the size of find_potential_spenders' transaction
  OwnSize,     \* the size of the conversion, its conversion input included
  CountLimit,  \* DESCENDANT_COUNT_LIMIT, ANCESTOR_COUNT_LIMIT
  MaxEvicted   \* bound: evictions from the mempool

\* The bounds of the search's arithmetic: a transaction has a size, and one that
\* is relayed pays for it.  Nobody else can sign for the coin of the wallet.
ASSUME SizeAssumption ==
  /\ TestSize \in Nat /\ TestSize >= 2
  /\ OwnSize \in Nat \ {0}
  /\ CountLimit \in Nat \ {0}
ASSUME PoolAssumption ==
  /\ IsFiniteSet(DOMAIN Pool)
  /\ DOMAIN Pool \cap {"none", "root", "test", "convert"} = {}
  /\ \A n \in DOMAIN Pool :
       /\ Pool[n].fee \in Nat \ {0}
       /\ Pool[n].size \in Nat \ {0}
       /\ [tx |-> "root", out |-> "coin"] \notin Pool[n].inputs
ASSUME CommandAssumption == \A c \in Commands : c.rate \in Nat
ASSUME SupplyAssumption == Supply \in [Rune -> Nat] /\ Rewards \in Seq(Nat)

VARIABLES
  \* the node (external) and the index
  mempool,     \* the names of the transactions in it
  floor,       \* the fee rate it asks for (GetMinFee, or the relay fee)
  mined,       \* the names of those in blocks
  mining,      \* a block comes in
  tip,         \* the height, the supplies and the end of the chain after them
  index,       \* the same after the blocks that are indexed
  own,         \* the transactions of the command: [test, convert]
  evicted,     \* bound: how often it evicted
  \* the command
  phase, command,
  state,       \* initial_state
  end,         \* last_conversion_outpoint
  at,          \* the place in the chain that is looked at
  raw,         \* raw_mempool: the entries, by name
  rate,        \* test_fee_rate
  candidates,  \* potential_spenders
  found,       \* the conversions found, in order: [name, entry]
  prevs,       \* the supplies before each place, that of found first
  draft,       \* the place that is spent, the deepest place that would do, and
               \* the amounts that are reported
  \* history
  quiet,       \* the mempool has not changed since it was read
  seen,        \* the index when the supplies were read, and when simulated
  converted    \* tip when the conversion was mined

nodeVars == <<mempool, mined, tip, index, own, evicted>>
lookupVars == <<command, state, end, at, raw, rate, candidates, found, prevs, draft>>
vars == <<nodeVars, floor, mining, phase, lookupVars, quiet, seen, converted>>

Relay == 1000     \* replacement_relay_fee_rate, and the node's

None == "none"
NoCommand == [exactInput |-> TRUE, id |-> ID0, input |-> 0, output |-> 0,
              rate |-> 0, dry |-> FALSE]
Absent == [inputs |-> {}, leaves |-> FALSE, rbf |-> TRUE, fee |-> 0, size |-> 1,
           sale |-> [id |-> ID0, amount |-> 0, min |-> 0]]
Convert(n) == [tx |-> n, out |-> "convert"]
Root == Convert("root")
Coin == [tx |-> "root", out |-> "coin"]
Nowhere == Convert(None)

Tx(n) == IF n \in DOMAIN own THEN own[n] ELSE Pool[n]

-----------------------------------------------------------------------------
(* The mempool (external). *)

FeeAt(perK, size) == (perK * size + 999) \div 1000
RateOf(t) == (t.fee * 1000) \div t.size
Spenders(S) == {n \in mempool : \E o \in Tx(n).inputs : o.tx \in S}
Parents(t) == {n \in mempool : \E o \in t.inputs : o.tx = n}

\* The least set around S that is closed under children, or under parents.
Descendants(S) ==
  {n \in mempool : \A T \in SUBSET mempool :
                    S \subseteq T /\ Spenders(T) \subseteq T => n \in T}
Ancestors(S) ==
  {n \in mempool : \A T \in SUBSET mempool :
                    S \subseteq T /\ (\A m \in T : Parents(Tx(m)) \subseteq T) => n \in T}

Fees(S) == SumFunction([n \in S |-> Tx(n).fee])
Conflicts(t) == {n \in mempool : Tx(n).inputs \cap t.inputs # {}}
Sizes(S) == SumFunction([n \in S |-> Tx(n).size])
PackageRate(S) == (Fees(S) * 1000) \div Sizes(S)
Available(t) ==
  \A o \in t.inputs : /\ o.tx \in mined \cup mempool \cup {"root"}
                      /\ \A n \in mined : o \notin Tx(n).inputs

\* Whether the mempool takes t, and what it says if not: BIP 125 without the
\* limit on evictions, which no mempool here reaches.
Answer(why, amount) == [why |-> why, amount |-> amount]
Verdict(t) ==
  LET direct == Conflicts(t)
      leaving == Descendants(direct)
      above == Ancestors(Parents(t))
  IN  IF ~Available(t) THEN Answer("missing", 0)
      ELSE IF \E n \in direct : ~Tx(n).rbf THEN Answer("conflict", 0)
      ELSE IF t.fee < FeeAt(floor, t.size) THEN Answer("min fee", 0)
      ELSE IF \/ Cardinality(above) + 1 > CountLimit
              \/ \E n \in above :
                   Cardinality(Descendants({n}) \ leaving) + 1 > CountLimit
           THEN Answer("too long", 0)
      ELSE IF direct = {} THEN Answer("accepted", 0)
      ELSE IF Parents(t) \cap leaving # {} THEN Answer("spends conflicting", 0)
      ELSE IF \E n \in direct : RateOf(t) <= RateOf(Tx(n))
           THEN Answer("old feerate", Max({RateOf(Tx(n)) : n \in direct}))
      ELSE IF t.fee < Fees(leaving) THEN Answer("less fees", Fees(leaving))
      ELSE IF t.fee - Fees(leaving) < FeeAt(Relay, t.size)
           THEN Answer("relay", t.fee - Fees(leaving))
      ELSE Answer("accepted", 0)
InsufficientFee == {"old feerate", "less fees", "relay"}

\* getmempoolentry.
Entry(n) ==
  [rate |-> RateOf(Tx(n)), fee |-> Tx(n).fee,
   descendantFee |-> Fees(Descendants({n})),
   descendantCount |-> Cardinality(Descendants({n})),
   ancestorCount |-> Cardinality(Ancestors({n})),
   depends |-> Parents(Tx(n)), spentBy |-> Spenders({n})]

Enter(n, t) == mempool' = (mempool \ Descendants(Conflicts(t))) \cup {n}

-----------------------------------------------------------------------------
(* The index: the supplies and the end of the chain after some transactions *)
(* (RuneUpdater: update_outpoints, validate_rbf_and_conversion_outpoint),   *)
(* and after the reward of the next block (update_supply).                  *)

Converts(chain, t) ==
  /\ t.sale.amount > 0
  /\ t.leaves
  /\ t.rbf
  /\ chain.end \in t.inputs
  /\ t.sale.min <= Expected(t.sale, chain.supply, t.sale.amount)
After(chain, n) ==
  LET t == Tx(n)
      yield == Expected(t.sale, chain.supply, t.sale.amount)
  IN  [supply |-> IF Converts(chain, t)
                  THEN [chain.supply EXCEPT ![t.sale.id] = @ - t.sale.amount,
                                            ![Other(t.sale.id)] = @ + yield]
                  ELSE chain.supply,
       end |-> IF chain.end \notin t.inputs THEN chain.end
               ELSE IF t.leaves THEN Convert(n) ELSE Nowhere,
       height |-> chain.height]
AfterAll(chain, list) ==
  LET reached[i \in 0..Len(list)] ==
        IF i = 0 THEN chain ELSE After(reached[i - 1], list[i])
  IN  reached[Len(list)]

Reward(height) == IF height \in DOMAIN Rewards THEN Rewards[height] ELSE 0
Issued(chain) ==
  LET reward == Reward(chain.height + 1)
      s0 == chain.supply[ID0]
      s1 == chain.supply[ID1]
  IN  [supply |-> [chain.supply EXCEPT ![ID0] = @ + RewardShare0(s0, s1, reward),
                                       ![ID1] = @ + RewardShare1(s0, s1, reward)],
       end |-> chain.end,
       height |-> chain.height + 1]

-----------------------------------------------------------------------------
(* The node, the index and others. *)

Init ==
  /\ mempool = {}
  /\ floor = Relay
  /\ mined = {}
  /\ mining = FALSE
  /\ tip = [supply |-> Supply, end |-> Root, height |-> 0]
  /\ index = tip
  /\ own = [n \in {} |-> Absent]
  /\ evicted = 0
  /\ phase = "start"
  /\ command = NoCommand
  /\ state = Supply
  /\ end = Nowhere
  /\ at = Nowhere
  /\ raw = [n \in {} |-> Entry(n)]
  /\ rate = Relay
  /\ candidates = {}
  /\ found = << >>
  /\ prevs = << >>
  /\ draft = [place |-> 0, deepest |-> 0, input |-> 0, output |-> 0]
  /\ quiet = FALSE
  /\ seen = {}
  /\ converted = tip

\* Bound: nothing happens once the command has failed or its conversion is mined.
Over == phase = "done" /\ (DOMAIN own = {} \/ "convert" \in mined)

NodeStep ==
  /\ ~Over
  /\ quiet' = FALSE
  /\ UNCHANGED <<phase, lookupVars, seen>>

OthersSend(n) ==
  /\ ~mining
  /\ n \notin mempool \cup mined
  /\ Verdict(Pool[n]).why = "accepted"
  /\ Enter(n, Pool[n])
  /\ NodeStep
  /\ UNCHANGED <<floor, mined, mining, tip, index, own, evicted, converted>>

\* A transaction is too old; or the mempool is full, and from then on asks for
\* more than what left has paid.
Expire(n) ==
  /\ ~mining
  /\ evicted < MaxEvicted
  /\ mempool' = mempool \ Descendants({n})
  /\ evicted' = evicted + 1
  /\ floor' = floor
  /\ NodeStep
  /\ UNCHANGED <<mined, mining, tip, index, own, converted>>
Trim(n) ==
  LET package == Descendants({n})
  IN  /\ ~mining
      /\ evicted < MaxEvicted
      /\ mempool' = mempool \ package
      /\ evicted' = evicted + 1
      /\ floor' = Max({floor, PackageRate(package) + Relay})
      /\ NodeStep
      /\ UNCHANGED <<mined, mining, tip, index, own, converted>>

\* In time it asks for less again; bound: seen when it is back at the relay fee.
FloorFalls ==
  /\ ~mining
  /\ floor > Relay
  /\ floor' = Relay
  /\ NodeStep
  /\ UNCHANGED <<mempool, mined, mining, tip, index, own, evicted, converted>>

\* A block: the reward first (index_block), then its transactions; what conflicts
\* with them leaves the mempool.  Nothing else happens before it is complete.
BeginBlock ==
  /\ ~mining
  /\ tip.height < Len(Rewards)
  /\ mining' = TRUE
  /\ tip' = Issued(tip)
  /\ NodeStep
  /\ UNCHANGED <<mempool, floor, mined, index, own, evicted, converted>>
Mine(n) ==
  /\ mining
  /\ Parents(Tx(n)) = {}
  /\ mempool' = mempool \ {n}
  /\ mined' = mined \cup {n}
  /\ tip' = After(tip, n)
  /\ converted' = IF n = "convert" THEN tip ELSE converted
  /\ NodeStep
  /\ UNCHANGED <<floor, mining, index, own, evicted>>
EndBlock ==
  /\ mining
  /\ mining' = FALSE
  /\ NodeStep
  /\ UNCHANGED <<mempool, floor, mined, tip, index, own, evicted, converted>>

IndexBlock ==
  /\ ~mining
  /\ index # tip
  /\ phase # "done"
  /\ index' = tip
  /\ UNCHANGED <<mempool, floor, mined, mining, tip, own, evicted, phase, lookupVars,
                 quiet, seen, converted>>

-----------------------------------------------------------------------------
(* The command: get_conversion_chain. *)

\* A request of the command, after which the next one is known.
Request(from, to) ==
  /\ phase = from
  /\ phase' = to
NodeUnchanged == UNCHANGED <<nodeVars, quiet>>
Saw == seen' = seen \cup {index}

\* get_supply_state, a request for each rune.
ReadSupply(r, from, to) ==
  /\ Request(from, to)
  /\ state' = [state EXCEPT ![r] = index.supply[r]]
  /\ Saw
  /\ NodeUnchanged
  /\ UNCHANGED <<command, end, at, raw, rate, candidates, found, prevs, draft>>
ReadSupplies == ReadSupply(ID0, "start", "ease") \/ ReadSupply(ID1, "ease", "end")

\* get_last_conversion_outpoint.
ReadEnd ==
  /\ Request("end", IF index.end = Nowhere THEN "done" ELSE "mempool")
  /\ end' = index.end
  /\ at' = end'
  /\ Saw
  /\ NodeUnchanged
  /\ UNCHANGED <<command, state, raw, rate, candidates, found, prevs, draft>>

\* get_raw_mempool_verbose.
ReadMempool ==
  /\ Request("mempool", "test")
  /\ raw' = [n \in mempool |-> Entry(n)]
  /\ quiet' = TRUE
  /\ UNCHANGED <<nodeVars, command, state, end, at, rate, candidates, found,
                 prevs, draft, seen>>

\* find_potential_spenders: the transaction that is to be refused.
TestTx == [Absent EXCEPT !.inputs = {end, Coin}, !.leaves = TRUE,
                         !.size = TestSize, !.fee = FeeAt(rate, TestSize)]

\* find_potential_spenders returns.
Return(spenders) ==
  /\ phase' = "walk"
  /\ candidates' = spenders
  /\ raw' = [n \in {} |-> Entry(n)]
  /\ rate' = Relay
  /\ UNCHANGED <<command, state, end, at, found, prevs, draft, seen>>

TestAccept ==
  /\ phase = "test"
  /\ NodeUnchanged
  /\ IF Verdict(TestTx).why \in InsufficientFee
     THEN phase' = "send test" /\ UNCHANGED <<lookupVars, seen>>
     ELSE Return({})

\* send_raw_transaction: nothing has to refuse it by now.
TestSent ==
  /\ phase = "send test"
  /\ Verdict(TestTx).why = "accepted"
  /\ Return({})
  /\ own' = [n \in {"test"} |-> TestTx]
  /\ Enter("test", TestTx)
  /\ quiet' = FALSE
  /\ UNCHANGED <<mined, tip, index, evicted>>

\* The error names the fee rate of the spender: what has the rate stays, and the
\* test is made again with a little more, to be told the fees.
\* Mutant: the same rate again.
SameRate(perK) == perK
NextRate(perK) == perK + 100
AtRate(perK) == {n \in DOMAIN raw : raw[n].depends = {} /\ raw[n].rate = perK}
OldFeerate ==
  LET verdict == Verdict(TestTx)
      filtered == AtRate(verdict.amount)
  IN  /\ phase = "send test"
      /\ verdict.why = "old feerate"
      /\ NodeUnchanged
      /\ IF filtered = {}
         THEN Return({})
         ELSE /\ phase' = "test"
              /\ raw' = [n \in filtered |-> raw[n]]
              /\ rate' = NextRate(verdict.amount)
              /\ UNCHANGED <<command, state, end, at, candidates, found, prevs,
                             draft, seen>>

\* The error names the fees of the spender and its descendants, or what the test
\* pays beyond them.
\* Mutant: the fees of the spender alone are compared.
WithOwnFees(fees) == {n \in DOMAIN raw : raw[n].fee = fees}
WithFees(fees) == {n \in DOMAIN raw : raw[n].descendantFee = fees}
FeesTooLow ==
  LET verdict == Verdict(TestTx)
  IN  /\ phase = "send test"
      /\ verdict.why \in {"less fees", "relay"}
      /\ NodeUnchanged
      /\ Return(WithFees(IF verdict.why = "less fees" THEN verdict.amount
                         ELSE TestTx.fee - verdict.amount))

\* Refused for another reason than the fees.
RefusedOtherwise ==
  /\ phase = "send test"
  /\ Verdict(TestTx).why \notin InsufficientFee \cup {"accepted"}
  /\ NodeUnchanged
  /\ Return({})

-----------------------------------------------------------------------------
(* The command: find_conversion_chain, and the supplies along the chain. *)

Fail(from) ==
  /\ Request(from, "done")
  /\ NodeUnchanged
  /\ UNCHANGED <<lookupVars, seen>>

\* Mutant: the other candidates are looked at for the next place too.
OtherCandidates(n) == candidates \ {n}
SpentBy(n) == Entry(n).spentBy

\* get_raw_transaction and get_mempool_entry of one candidate; a node with an
\* index of all transactions also knows one that is mined.
Look(n) ==
  /\ phase = "walk"
  /\ n \in candidates
  /\ \/ /\ n \notin mempool
        /\ Fail("walk")
     \/ /\ n \in mempool \cup mined
        /\ at \notin Tx(n).inputs
        /\ candidates' = candidates \ {n}
        /\ UNCHANGED <<nodeVars, phase, command, state, end, at, raw, rate, found,
                       prevs, draft, quiet, seen>>
     \/ /\ n \in mempool
        /\ at \in Tx(n).inputs
        /\ found' = Append(found, [name |-> n, entry |-> Entry(n)])
        /\ phase' = IF Tx(n).leaves THEN "walk" ELSE "simulate"
        /\ at' = IF Tx(n).leaves THEN Convert(n) ELSE Nowhere
        /\ candidates' = IF Tx(n).leaves THEN SpentBy(n) ELSE {}
        /\ UNCHANGED <<nodeVars, command, state, end, raw, rate, prevs, draft,
                       quiet, seen>>
WalkEnds ==
  /\ candidates = {}
  /\ Request("walk", IF found = << >> THEN "choose" ELSE "simulate")
  /\ prevs' = <<state>>
  /\ NodeUnchanged
  /\ UNCHANGED <<command, state, end, at, raw, rate, candidates, found, draft, seen>>

\* The transactions of the chain and all they depend on, parents first.
FoundNames == {found[i].name : i \in DOMAIN found}
Depends == (UNION {found[i].entry.depends : i \in DOMAIN found}) \ FoundNames
MiniBlock ==
  LET all == FoundNames \cup Ancestors(Depends)
  IN  CHOOSE list \in SetToSeqs(all) :
        \A i, j \in DOMAIN list :
          i < j => \A o \in Tx(list[i]).inputs : o.tx # list[j]

\* Updater::simulate: the reward of the next block, and then the list.
\* Mutant: without the reward.
WithoutReward(list) == AfterAll(index, list).supply
SupplyAfter(list) == AfterAll(Issued(index), list).supply
Position(list, n) == SelectInSeq(list, LAMBDA m : m = n)
Simulate ==
  LET block == MiniBlock
  IN  /\ Depends \subseteq mempool
      /\ Request("simulate", "choose")
      /\ prevs' = <<state>> \o [i \in DOMAIN found |->
                      SupplyAfter(SubSeq(block, 1, Position(block, found[i].name)))]
      /\ Saw
      /\ NodeUnchanged
      /\ UNCHANGED <<command, state, end, at, raw, rate, candidates, found, draft>>
DependsGone ==
  /\ ~(Depends \subseteq mempool)
  /\ Fail("simulate")

-----------------------------------------------------------------------------
(* The command: create_best_unsigned_convert_runes_transaction. *)

Place(i) == IF i = 1 THEN end ELSE Convert(found[i - 1].name)

\* There is a place behind the last transaction, and the package has room.
OpenEnd == at # Nowhere
PackageHasRoom ==
  /\ \A i \in DOMAIN found : found[i].entry.descendantCount < CountLimit
  /\ found # << >> => Last(found).entry.ancestorCount < CountLimit
Places == 1..(Len(found) + (IF OpenEnd /\ PackageHasRoom THEN 1 ELSE 0))

\* Mutant: the relay of the replacement is not paid for.
OutbidsFees(fee, entry) == fee >= entry.descendantFee
Outbids(fee, entry) == fee >= entry.descendantFee + FeeAt(Relay, OwnSize)
Replaceable(c, i) ==
  LET fee == FeeAt(c.rate, OwnSize)
  IN  /\ (fee * 1000) \div OwnSize > found[i].entry.rate
      /\ Outbids(fee, found[i].entry)

\* get_best_outpoint_in_conversion_chain, from the last place to the first.  The
\* command is only looked at from here on.
Choose(c) ==
  LET limits == Parameters(c, TRUE, prevs, state)
      good == {i \in Places : Satisfies(c, prevs[i], limits)}
      deepest == Max(good)
      best == Min({i \in good : \A j \in i..(deepest - 1) : Replaceable(c, j)})
      amounts == Amounts(c, prevs[best], limits)
  IN  /\ phase = "choose"
      /\ command' = c
      /\ IF limits.ok /\ good # {}
         THEN /\ phase' = "send"
              /\ draft' = [place |-> best, deepest |-> deepest,
                           input |-> amounts.input, output |-> amounts.output]
         ELSE /\ phase' = "done"
              /\ UNCHANGED draft
      /\ NodeUnchanged
      /\ UNCHANGED <<state, end, at, raw, rate, candidates, found, prevs, seen>>

Conversion ==
  [inputs |-> {Place(draft.place), Coin}, leaves |-> TRUE, rbf |-> TRUE,
   fee |-> FeeAt(command.rate, OwnSize), size |-> OwnSize,
   sale |-> [id |-> command.id, amount |-> draft.input, min |-> 1]]
Send ==
  /\ Request("send", "done")
  /\ IF ~command.dry /\ Verdict(Conversion).why = "accepted"
     THEN /\ own' = [n \in DOMAIN own \cup {"convert"} |->
                       IF n = "convert" THEN Conversion ELSE own[n]]
          /\ Enter("convert", Conversion)
     ELSE UNCHANGED <<own, mempool>>
  /\ UNCHANGED <<mined, tip, index, evicted, lookupVars, quiet, seen>>

LookupStep ==
  \/ ReadSupplies
  \/ ReadEnd
  \/ ReadMempool
  \/ TestAccept
  \/ TestSent
  \/ OldFeerate
  \/ FeesTooLow
  \/ RefusedOtherwise
  \/ \E n \in candidates : Look(n)
  \/ WalkEnds
  \/ Simulate
  \/ DependsGone
  \/ \E c \in Commands : Choose(c)
  \/ Send
Lookup == ~mining /\ LookupStep /\ UNCHANGED <<floor, mining, converted>>

Next ==
  \/ \E n \in DOMAIN Pool : OthersSend(n)
  \/ \E n \in mempool : Expire(n)
  \/ \E n \in mempool : Trim(n)
  \/ FloorFalls
  \/ BeginBlock
  \/ \E n \in mempool : Mine(n)
  \/ EndBlock
  \/ IndexBlock
  \/ Lookup

\* Every block comes to its end and every request is answered: the command is one
\* thread that waits for answers, so it takes steps until it is done.  This is
\* WF_vars(EndBlock) and WF_vars(Lookup), in which the ENABLED is replaced by what
\* it amounts to.
Answered == []<>(phase = "done") \/ []<><<TRUE>>_<<phase, lookupVars>>
Spec == Init /\ [][Next]_vars /\ Answered

-----------------------------------------------------------------------------
Reported(supply) ==
  IF command.exactInput THEN Expected(command, supply, draft.input) = draft.output
                        ELSE Required(command, supply, draft.output) = draft.input
Rewarded(chain, height) ==
  LET reached[i \in chain.height..height] ==
        IF i = chain.height THEN chain ELSE Issued(reached[i - 1])
  IN  reached[height]

(***************************************************************************)
(* The place that is reported for (convert.rs:1044-1062) decides which     *)
(* conversions come first, whatever is replaced, evicted, mined and        *)
(* indexed after the supplies were read and simulated.  Behind others, the *)
(* amounts are those that are converted if all of them are in the next     *)
(* block, which is the one that was simulated; in the first place they     *)
(* are computed from the entries, and nothing but the rewards of blocks    *)
(* comes between these and the conversion.                                 *)
(***************************************************************************)
ReportedIsConverted ==
  "convert" \in mined =>
    \A read \in seen : seen = {read} =>
      /\ converted.end = Place(draft.place)
      /\ draft.place > 1 /\ converted.height = read.height + 1
         => Reported(converted.supply)
      /\ draft.place = 1
         => Reported(read.supply) /\ converted = Rewarded(read, converted.height)

(***************************************************************************)
(* A place in front of the deepest one is only taken where the mempool     *)
(* accepts the replacement (convert.rs:1026-1034 are its rules), when what *)
(* is replaced signals that it may be.  A mempool that is full enough to   *)
(* ask for more than the relay fee hides what could be replaced.           *)
(***************************************************************************)
ReplacementIsTaken ==
  /\ phase = "send" /\ quiet
  /\ draft.place < draft.deepest
  /\ Tx(found[draft.place].name).rbf
  => Verdict(Conversion).why = "accepted"

(***************************************************************************)
(* The fees in the error lead to the transaction on the end of the chain   *)
(* (convert.rs:848-896): it is found if it can be replaced, depends on     *)
(* nothing in the mempool and is no smaller than the test transaction,     *)
(* while the mempool asks for no more than the relay fee.                  *)
(***************************************************************************)
SpenderIsFound ==
  phase = "choose" /\ quiet /\ floor = Relay =>
    \A n \in mempool :
      /\ end \in Tx(n).inputs
      /\ Tx(n).rbf
      /\ Parents(Tx(n)) = {}
      /\ Tx(n).size >= TestSize
      => n \in FoundNames

(***************************************************************************)
(* A chain that is found is the whole chain: nothing in the mempool spends *)
(* its last output (find_conversion_chain).                                *)
(***************************************************************************)
WholeChainIsFound ==
  phase \in {"simulate", "choose"} /\ quiet /\ found # << >> =>
    \A n \in mempool : at \notin Tx(n).inputs

(***************************************************************************)
(* The search for the spender, which repeats itself at another fee rate,   *)
(* comes to an end however the mempool changes under it.                   *)
(***************************************************************************)
LookupEnds == <>(phase = "done")
=============================================================================
