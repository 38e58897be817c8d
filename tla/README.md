# BitOMC in TLA+

BitOMC indexes two runes, Tighten and Ease, on the Bitcoin chain. A block issues
both, a transaction may mint what was issued, move it with edicts, and convert one
rune into the other along the circle `A^2 + B^2 = K^2`; the ratio of the two supplies
sets the interest rate of a unit of account, the util. These modules model the
indexer (how it applies a transaction, how it does the arithmetic, how it follows a
chain that reorganizes, how it keeps the outputs of an address) and the wallet that
builds transactions from what the indexer reports. Paths below are relative to the
repository.

## The system

| Component | State | Operations |
| --- | --- | --- |
| Rune updater, `src/index/updater/rune_updater.rs` | tables `RUNE_ID_TO_RUNE_ENTRY`, `OUTPOINT_TO_RUNE_BALANCES`, `STATE_CHANGE_TO_LAST_OUTPOINT`, `..._TXOUT_VALUE`; per block `burned` and `require_conversion_outpoint` | `update_supply`, `index_runes` (`unallocated`, `update_outpoints`, `mint`, the edict loop, `convert_exact_input`, `convert_exact_output`, the return of the input), `update_burned`, `get_state` |
| Supply arithmetic, the same file, `entry.rs`, `lot.rs` | the two supplies | issuing the reward, the two kinds of conversion |
| Util entry, `src/index/entry.rs` | ring of rates, index, bonds per sat | `update`, `interest_rate`, `utils_per_bond`, `utils_per_sat`, `history` |
| Block updater, `src/index.rs`, `src/index/updater.rs` | committed database, write transaction, block queue, height, uncommitted blocks | `Index::update`, `update_index`, `fetch_blocks_from`, `index_block`, `commit` |
| Simulation, the same files | a write transaction that is dropped | `Index::simulate`, `Updater::simulate` |
| Reorg, `src/index/reorg.rs` | persistent savepoints, `unrecoverably_reorged` | `detect_reorg`, `handle_reorg`, `update_savepoints` |
| Runestone codec, `crates/runes-bitomc` | none | `decipher`, `encipher` |
| Address index, `updater.rs`, `fetcher.rs` | `OUTPOINT_TO_TXOUT`, `SCRIPT_PUBKEY_TO_OUTPOINT`, the output cache, two channels | `index_transaction_output_script_pubkeys`, `spawn_fetcher`, `get_transactions` |
| Wallet, `src/wallet*`, `src/subcommand/wallet` | the outputs it has listed, the outputs the node has locked | `mint`, `convert`, `send` build transactions from the server's and the node's answers |
| Server, `src/subcommand/server.rs` | the index thread | requests read the tables, one read transaction each or several; the thread calls `Index::update` |

How they interact: the server's index thread calls `Index::update` in a loop, the
`/update` request of an integration test and every command of the program may call it
at the same time; redb admits one write transaction at once. An update starts a thread
that fetches blocks into a channel of 32, and one that fetches the outputs the address
index misses; it applies each block in the write transaction (`index_block` calls
`detect_reorg`, then the rune updater, then the util entry), commits after
`commit_interval` blocks and at the end, and takes savepoints after a commit, in
transactions of their own. `detect_reorg` reads through a *read* transaction, so it
sees what is committed. An error from it drops the write transaction; `update` rolls
back and begins again. The wallet asks the server for balances, entries, the end of a
chain and a simulation, the node for its outputs and its mempool, in requests of their
own, while the node mines and the index follows.

What is hard here: the node reorganizes while blocks are in the queue; commits,
savepoints and rollbacks are separate transactions with calls to the node between
them; a crash or a failed call may end the sequence anywhere; the edict loop, the
refused conversions and the returned inputs form many paths over the same three maps;
the two chains of outputs are spent by anybody's transactions in any order; every
amount is rounded; and the wallet's view is put together from requests with blocks and
other people's transactions between them. `PROJECT.json` lists these hazards at their
lines.

What makes each component correct:

- rune updater: no unit is made or lost, runes are on unspent outputs, the recorded
  chain ends can be spent, one mint a block, conversions that cannot be reordered, and
  everything the repository's tests assert;
- arithmetic: rounding never pays the user, and K drifts by less than a unit;
- util entry: the ring holds the last rates, their median is the rate, nothing is
  divided by zero;
- block updater and reorg: what is committed is one branch of the chain, savepoints
  are earlier states of it, only a fork is rolled back, the tip is reached in the end;
- simulation: it reports what the block will do, and leaves nothing behind;
- codec: what is read fits the transaction, and what is written is read again;
- address index: an address lists its unspent outputs, and every answer of the fetcher
  is taken by the input it was fetched for;
- wallet: what it reports is what happens, a limit is kept, and a refused or a failed
  request costs no runes.

## The modules

| Module | Models |
| --- | --- |
| `Runes` | the names of the two runes |
| `ConversionCurve` | the arithmetic, as operators: `Sqrt`, `ExactInputYields`, `ExactOutputCosts`, `RewardShare0/1` |
| `SupplyCurve` | the abstract specification of the two supplies: `Issue` and `Convert` |
| `UtilEntry` | the util row and what the API computes from it |
| `BlockSupplies` | `SupplyCurve` and `UtilEntry` composed as `index_block` does |
| `Runestone` | `encipher` and `decipher` |
| `RuneUpdater` | `update_supply`, `index_runes` and `update_burned`, in full |
| `Simulation` | `RuneUpdater` with `simulate` beside `index_block` |
| `RuneScenarios`, `Replay` | the tests of `src/runes.rs` as data, and lists of blocks simulated and then indexed |
| `IndexUpdater` | `Index::update`, `Updater::update_index`, `commit`, `Reorg` |
| `AddressIndex` | the address part of `index_block` and `commit`, and the fetcher |
| `ConversionLimits` | the amounts and limits `convert` computes |
| `WalletTransactions` | the transactions of `mint`, `send` and `convert`, as functions of what is known |
| `Wallet` | one command, request by request, composed with `RuneUpdater` |
| `ConversionChain` | `convert`'s search for a place among the conversions of the mempool |
| `MC...` | instances and bounds for TLC |
| `ArithmeticProofs` | lemmas of the arithmetic and of folds, which the other proofs rest on |
| `BlockSuppliesProofs` | the theorems of `SupplyCurve`, of the blocks and of the util entry |
| `RuneUpdaterProofs` | the theorems of the codec and of `RuneUpdater`: types and supplies, outputs and chains, amounts |
| `SimulationProofs` | that a simulation takes the steps of the index |
| `IndexUpdaterProofs`, `AddressIndexProofs` | the theorems of `IndexUpdater` and of `AddressIndex` |
| `ConversionChainProofs` | the theorems of `ConversionChain` |
| `WalletProofs` | the theorems of `Wallet` |

`RuneUpdater` extends `ConversionCurve` and `Runestone`; `Simulation` and
`WalletTransactions` extend it, `Replay` and `Wallet` extend those. `IndexUpdater` and
`AddressIndex` stand alone: a block is applied whole there.

### SupplyCurve, ConversionCurve and BlockSupplies

`SupplyCurve` says what the two supplies may do without saying how it is computed: a
conversion goes to a point on or inside the circle such that the side that was not
told exactly could not have been one unit better. `ConversionCurve` has the formulas
of the code. `RuneUpdater` uses the formulas, and implements `SupplyCurve`
(`SupplyFollowsCurve`). `BlockSupplies` puts the abstract supplies in blocks that end
with the update of the util entry.

### RuneUpdater

`pc` names the loop of `index_runes` the updater is in, and a pass of a loop is one
step, so that the properties hold between the passes and not only between blocks:

| `pc` | Code | Actions |
| --- | --- | --- |
| `idle` | before `update_supply` | `BeginBlock` |
| `block` | `index_block`'s loop | `TakeTransaction`, `EndBlock` |
| `inputs` | `unallocated`, `update_outpoints` | `TakeInput`, `CreateOutpoints`, `MoveOutpoints` |
| `mint` | `mint` | `Mint`, `NoMint` |
| `edicts` | the edict loop, the rest | `ApplyEdict`, `OverflowEdict`, `AllocateRest`, `BurnRest` |
| `burn` | OP_RETURN allocations, detection of a conversion | `BurnOutput`, `DetectConversion` |
| `convert` | `convert_exact_input`, `convert_exact_output` | `ConvertExactInput`, `ConvertExactOutput`, `RefuseConversion` |
| `return` | the input given back | `ReturnInput` |
| `store` | rows written, burned amounts added | `StoreOutput`, `FinishTransaction` |

The maps of the code are total functions with 0 for a missing key, but for
`unallocated`, whose missing keys send an edict down another branch: its keys are
`entered`. Outputs are numbered from 1, so "all outputs" is `Len(outputs) + 1`.
Scripts are four classes: OP_RETURN, the mint script, the convert script, plain.
A transaction is a member of `Templates[n]` (its outputs and its artifact) with any
inputs consensus lets it spend (`Spendable`: the mint script only in a later block,
a coinbase output when mature). `WellFormed` is what `decipher` guarantees of an
artifact, which `DecipheredFits` proves of `Runestone`. Amounts have the width of a
u128, `LotModulus`. An addition of two `Lot`s that leaves it panics (`OverflowEdict`);
the product of an edict to all outputs and the squares, sums and differences of a
conversion wrap, as in a release build (`WrappedYields`, `WrappedReachable`,
`WrappedCosts`). Only the products of the reward shares, which the halving bounds, are
natural numbers.

### Runestone

A runestone is a sequence of integers: the pointer, whose presence is the parity of
their number, and two for each edict, the rune in the low bit of the doubled amount.
An integer is a value and not its varint; a script or a varint that cannot be read is
a cenotaph, which is an input of `RuneUpdater` of its own.

### Simulation, RuneScenarios and Replay

A simulation runs the actions of `RuneUpdater` on a copy (`saved` is what is committed)
and calls `update_burned` after each transaction, where `index_block` calls it after the last.
`RuneScenarios` has the blocks the tests of `src/runes.rs` broadcast, with what they
assert after each; `Replay` enciphers and deciphers their stones, simulates each block
and then indexes it.
It runs every list of up to four transactions over the two chains and a pot as well.

### IndexUpdater

A block is its height, its branch and the branch of its parent; the tables are the
sequence of the blocks applied to them (`db` committed, `wtx` in the write
transaction), which the header table and the rune tables are functions of. One step
per transaction and per call to the node: `detect_reorg` tries one depth a step,
`update_savepoints` is `BeginSavepoint`, `DeleteSavepoint`, `CreateSavepoint`. The
node mines and reorganizes between any two steps; `RpcError`, `FetchError` and
`Crash` interrupt them. `Updaters` is the set of concurrent calls of `update`.

Abstractions: a reorganization replaces `d` blocks by `d + 1` in one step, and a branch
never comes back; a shutdown is a fetch that ends and a crash; the call
`get_block_count` at the head of `update_index`, which fails without effect, is left
out; `Durability::None` is only used by tests.

### AddressIndex

One step per request, answer, input and output of a block (`todo`), per chunk of
answers of the fetcher, whose parallel requests end in any order, and per commit. The two
channels have their capacities: that of the answers is the next power of two of what
was asked for, 32768 in the code, which is more than a block has inputs. Whether outputs are requested is decided by the
database's flag `index_addresses`, whether there is a receiver by the setting of this
start. Of blocks below the first rune height the updater is given the header only (`Blocks`),
so their outputs are missing in every index, and inputs that spend them are fetched. The
setting and the flag may differ after a restart: an index made without addresses and opened with
them has a receiver nobody sends to, and waits for ever with the write transaction
open; an index made with them and opened without has a fetcher that dies at its
first answer, and the update fails at the next request. `NothingIsLeftOver` holds all
the same; `AddressesCatchUp` is about the case that they agree from some point on.
Rollbacks restore these tables with all others, which is `IndexUpdater`'s subject.

The blocks are a constant, and the module assumes of them what consensus does: ids differ
(`IdAssumption`), an input spends an output of an earlier transaction
(`EarlierAssumption`), and none is spent twice (`OnceAssumption`).

### WalletTransactions, ConversionLimits and Wallet

`WalletTransactions` and `ConversionLimits` are the pure part of `mint.rs`, `send.rs`
and `convert.rs`: selection of the inputs, change, runestones, limits. `Wallet` is one
command (`phase`) whose requests are steps, in the code's order: synchronize, list the outputs, ask
the balances of one after the other (`/outputs` answers each output from a read transaction
of its own), lock what holds runes, read the entries and the chain end and its value
(two reads), build, fund, send. The node mines any part of its mempool in any order,
the index follows by the actions of `RuneUpdater`, and others mint, convert and
break the chain. The history variable `order` has what the wallet had when its block was
begun, what the end of the chain held, whether the conversion was accepted, and what the
wallet gained by its transaction.

The first block, the commands and the transactions of others are constants, of which the
module assumes their types and what consensus does: a transaction of the first block
spends outputs of earlier ones, each once (`SeedAssumption`, `CrowdAssumption`,
`CommandAssumption`).

### ConversionChain

`convert` must find who spends the end of the chain in a mempool that does not say so:
it has a transaction refused and reads the fees of the other from the error, narrows
the mempool to what has these fees, follows the chain from there, simulates it, and
chooses a place, in front of other conversions if the fee allows to replace them. One
step per request; the mempool and the index move between them.

The mempool has the rules of BIP 125, the counts of packages, and a fee rate that it asks
for, `floor`: a full one drops a package (`Trim`) and from then on asks for that package's
rate and the increment on top, until that decays (`FloorFalls`). It may also drop what is
too old (`Expire`). A block begins with its reward (`BeginBlock`, as `index_block`
does with `update_supply`), its transactions follow (`Mine`), and `EndBlock` completes it;
the index takes complete blocks. `Simulate` issues the reward of the next block first, as
`Updater::simulate` does, while the state that the command has read (`ReadSupplies`) is that
of the entries, without it.

## The runs

| Run | Shows | Bounds | States |
| --- | --- | --- | --- |
| `edicts` | `TypeOK`, `Conservation`, `ConvertedIsAllocated`, `BalancesUnspent`, `InputReturned`, and the refinement `SupplyFollowsCurve` | every runestone of 0 to 2 edicts with amounts 0, 1, 3 on outputs OP_RETURN, convert, plain, plain, with and without a pointer, after a mint and a conversion, amounts whose sum passes the width, and exact outputs whose square does; a width of 1024 | 300 000 |
| `chains` | `ChainEndUnspent`, `OneMintPerBlock`, `ConversionsDescend` | 7 transactions in 3 blocks that start, continue, move, break the chains, coinbase mints among them | 2 700 000 |
| `replay` | `TestsHold`, `SimulationForetells`, and that a simulation takes the steps of the index, `SimulationIndexes` | the tests of `runes.rs` and all lists of up to 4 transactions out of a few; 22-bit amounts | 14 000 |
| `blocks` | the five properties of `SupplyCurve`, `RingHoldsLastRates`, `InterestRateIsMedian`, `UtilsAreDefined` | rewards 4 and 8, supplies to 6 and what conversions make of them; 3 slots and 5 rates, so the ring wraps with even and odd counts | 49 000 |
| `index` | `TypeOK`, `ConnectedIndex`, `RollbackOnlyOnFork`, `FirstReorgIsRecoverable`, `IndexCatchesUp` | 8 blocks, 2 reorgs of up to 4 blocks, 1 failed call, 1 crash; interval 3, 2 savepoints, distance 3 | 680 000 |
| `two_updaters` | `ConnectedIndex` | two updates at once, 5 blocks, 1 reorg; symmetric in the updaters | 210 000 |
| `addresses` | `AddressesAreUnspent`, `AnswerIsSpent`, `NothingIsLeftOver`, `AddressesCatchUp` | 4 blocks, the first below the first rune height, with up to 4 missing inputs, one more than the request channel holds; batches of 3 in 2 parallel requests; 3 restarts, 2 failed calls | 27 000 |
| `wallet` | `LimitsEnforced`, `OutputRuneKept`, `RefusedComesBack`, `SendGivesAmount`, `MintGivesReported` | one command of every kind, two distributions of 14 Tighten and 19 Ease with and without a chain, in one of which the end of the chain holds runes, one conversion and one mint of others, two blocks during the command | 1 500 000 |
| `conversion_chain` | `ReportedIsConverted`, `ReplacementIsTaken`, `SpenderIsFound`, `WholeChainIsFound`, `LookupEnds` | five transactions of others: a chain of two, a replacement, one that closes the chain, one with a parent; a package limit of 3, one eviction, two blocks with rewards of 12 and 8 | 430 000 |

Why the bounds are enough: an edict's effect depends on the balance being below, at or
above the amount and on the kind of the output, all of which occur with two edicts; two
savepoints of interval 3 are the code's two of 10 with every residue of the height, and
8 blocks pass two savepoints and a reorg past the older one; two conversions and a
block boundary suffice to break a chain and use it again; the wallet's requests see at
most the blocks before and after them, of which two make every pair of reads differ;
and the chain of conversions is followed by the same step at every length above one.
The code's constants (50 coins, 210 000 blocks, 100 slots, 10, 21, 32, a package of 25)
are parameters.

The premises of some properties are part of what the runs and the proofs showed, as
without them the properties fail on behaviours that the code has:

- `RefusedComesBack` leaves out conversions of an exact input with change: when the
  index refuses one, `ReturnInput` gives it back to the OP_RETURN output it was burned in.
  It is about conversions that ask for some of the output rune: the minimum of an
  expected single unit is 99.8% of it, rounded down to 0 (`convert.rs:369`), and the
  edict then asks for nothing, so what is burned stays burned. And it is about ends of the
  chain without runes: what another leaves on one goes to whoever spends it next.
- `SendGivesAmount`, and `LimitsEnforced` for an exact input, are about amounts above 0.
  No command refuses 0, and an edict reads it as all there is.
- `SupplyFollowsCurve` is about conversions whose two sides of the curve fit a u128. The
  guard of an exact output compares squares that wrapped (`rune_updater.rs:734`), so an
  amount past the square root of the width may pass it: with a width of 1024, the
  supplies 5 and 0 become 5 and 32, off the curve of `specification.md:206`.
- `LimitsEnforced` is about conversions that begin a chain: a connected one carries no
  minimum, and yields less than reported when it is mined after a block whose reward
  moved the supplies.
- `SpenderIsFound` leaves out spenders with unconfirmed parents (the candidates are
  filtered by `depends`) and those smaller than the test transaction, whose fees the
  error does not name. It also needs a mempool that asks for no more than the relay fee: a full one
  refuses the test at 1 sat/vB with "mempool min fee not met", which is not "insufficient
  fee", so `convert.rs:839` returns no candidates while a spender that could be replaced is
  there. So an empty chain does not mean that the transaction will be accepted, as
  the comment at `convert.rs:703` has it.
- `ReplacementIsTaken` needs no such premise: in a mempool that asks for more nothing is
  found, and there is no place in front of others to choose.
- `ReportedIsConverted` is about lookups that saw one state of the index; the supplies
  are read in two requests, which a block may separate. In that state, the supplies before
  the first place are the entries' (`convert.rs:678`), and those behind it are the simulation's,
  which has issued the reward of the next block (`updater.rs:530`); the comment at
  `convert.rs:731` calls both "the supply state prior to the conversion". The
  next conversion is in a block that begins with that reward. So the
  amounts reported for a place behind others are what is converted if all of them are in the
  next block; those for the first place are never computed with a reward, and what is converted
  differs by those of the blocks from the read to the conversion (`Rewarded`). No bound on
  that difference is claimed. The property keeps what the code does guarantee: the place is the
  one reported for, no other conversion comes before it that was not counted, and
  nothing but rewards lies between the two amounts.
- `AddressesAreUnspent` is about blocks from the first rune height on. Below it, the fetcher
  hands the updater headers only (`updater.rs:202`), so the outputs made there are in no
  table, and every input that spends one is fetched and unlists nothing.
- `SpenderIsFound`, `WholeChainIsFound` and `ReplacementIsTaken` are about a mempool
  that was quiet since it was read; the other properties hold while it moves.

Three more runs show where the code departs from what the repository says of it:

| Run | Property | What TLC finds |
| --- | --- | --- |
| `wide` | `OutstandingIsSupplyMinusBurned` | `amount * destinations` wraps (`lot.rs:78`) while the outputs are given the full amounts |
| `batch` | `ForkIsLeftOrShown` | a reorg between two blocks of one batch is not detected, as headers are read from the committed state |
| `sends` | `SendLeavesOther` | a send of all that an output holds of one rune leaves no change, and takes the other rune on it along |

`batch` is shown with a commit interval above 1. It is 5000 by default, so
a node that is some blocks ahead is enough. With the interval 1, `index` shows what does
hold: no mixture of branches is committed (`ConnectedIndex`), and the first reorg that is
called recoverable is (`FirstReorgIsRecoverable`), at any height past the first
`MAX_SAVEPOINTS` intervals, provided that no call failed before it and that the node's tip is
within `CHAIN_TIP_DISTANCE` of the lowest height the depth counts on (`LowestCounted`, one to
two intervals below the index, so that a savepoint was taken there). With the code's 10, 2
and 21 that is every index at most three blocks behind the tip, and up to twelve just
after a savepoint. Each premise is needed: a second reorg, a skipped
savepoint, two updates at once (both delete a savepoint before either creates one) or an
index that is far below the tip can leave the oldest savepoint on the abandoned branch, or
none at all. In the first interval a savepoint is taken at every block (`reorg.rs:78`), so the
oldest is one or two blocks old, and up to the second it is younger than the depth that
`detect_reorg` accepts: with the interval 3 of the run, a reorg of 4 blocks there rolls
back to a savepoint of the abandoned branch, again and again.

### Fairness

`index` assumes weak fairness of the updater's steps and of its fetch thread. The
server's index thread calls `update` for ever, sleeping `polling_interval` in between
(`src/subcommand/server.rs:111`); the fetch thread only waits for room in the channel,
which the updater makes. Nothing is assumed of the node: it may mine and reorganize or
stop, and `IndexCatchesUp` speaks of behaviours in which, from some point on, no reorg was
found unrecoverable and the oldest savepoint is on the node's chain. `addresses` assumes
the same of the updater and the fetcher, whose failures are bounded by `MaxErrors`.
In `conversion_chain` the command is one thread that waits for each answer: `Answered`
says that it takes steps until it is done. It is weak fairness of `Lookup` and of
`EndBlock`, as a block that has begun is complete at once for whoever asks the node; it is
written out because its `ENABLED` is costly. Nothing is assumed of the mempool, of when
blocks come, or of the index.

## The proofs

`tlapm` proves, for every set of rewards and all supplies, assuming `CurveAssumption`
only (rewards are natural numbers), about `SupplyCurve`:

| Theorem | States |
| --- | --- |
| `SuppliesType` | the supplies are natural numbers in every behaviour |
| `RoundTripNeverGains` | `RoundTripNoGain`: converting there and back gains nothing |
| `SplittingNeverGains` | `SplitNoGain`: two conversions yield no more than one |
| `ExactOutputCostsTheLeast` | `ExactOutputIsCheapest`: the cost of an output is the least input that buys it |
| `ConversionLosesLessThanOne` | `ConvertLosesLessThanOne`: K never grows by a conversion and loses less than a unit |
| `IssueRaisesSupply` | `IssueTracksReward`: a reward raises K by itself, up to two units less and, if K is no smaller than the reward, up to two more |

`Sqrt` is a `CHOOSE`,
so the first lemmas show that the root exists (`SqrtExists`, by the least number whose
square passes `n`) and is the largest (`SqrtIsLargest`). `ExactInputBest` and
`ExactOutputBest` say that what the code computes is within the circle and best in one
coordinate. The three properties of reachable supplies follow from these for any two
natural numbers, so the inductive invariant they need is `SuppliesAreNat`; the action
property needs it to know that the squares compared are those of natural numbers.
`UpdaterFollowsCurve`, below, connects the two: `RuneUpdater` takes only steps of `SupplyCurve`.

The reward is split by two divisions (`ShareRounds`). For supplies `s` and `t` with the root
`k`, and `m = k + r`, each new supply times `k` is `m` times the old one, less what a
division leaves (less than `k`), so which bounds the sum of the new squares from both sides
(`RewardLower`, `RewardUpper`). That `s + t` is at most `2k` (`SumOfSides`) keeps what
rounding takes within two units of K.

About `BlockSupplies`, also for every length of the ring and every base value, from
`CurveAssumption`, `UtilAssumption` (slots, the base value and the blocks of a year are
positive) and `BoundAssumption` (the bounds are numbers):

| Theorem | States |
| --- | --- |
| `BlocksFollowCurve` | a block takes only steps of `SupplyCurve`, whose theorems hold of blocks therefore |
| `RingIsLastRates` | `RingHoldsLastRates`: the ring, read backwards, is the last rates |
| `InterestIsMedian` | `InterestRateIsMedian`: of any number of rates, even or odd, the rate is their median |
| `UtilsHaveValue` | `UtilsAreDefined`: the rate is between 1 and 100%, so no division of the API is by zero |

`RingHoldsLastRates` is not inductive, as it does not say where the free slots are.
`RingFits` does: the j-th slot before the index has the j-th latest rate, the slots that
were not reached are 0, and until the ring is full the index is the number of rates. The
median is about a filter, a sort and a count. The prover knows nothing of `SelectSeq` and
`SortSeq`, so `UtilEntry` writes the filter as the recurrence it is, and the sort as what
any sort returns, an order of the sequence that ascends. `NonZerosOfPrefix` says what the
filter leaves, `OrderExists` that there is such an order (the largest goes last, and so
on), `SortedIsHistory` that it holds each rate of the history as often as the history
does, and `CountedFrom` turns a place in it into a number of rates above and below.

And, for every width of an amount and every transaction, assuming `LotAssumption` (the
width is a positive number):

| Theorem | States |
| --- | --- |
| `DecipheredFits` | whatever integers a transaction carries, the edicts and the pointer that `decipher` returns point at its outputs, and amounts are below half the width: what `RuneUpdater` assumes of its transactions |
| `DecipherOfEncipher` | a runestone with amounts below half the width deciphers to itself: the assertion of `mint`, `send` and `convert` (`mint.rs:157`, `send.rs:274`, `convert.rs:670`) holds |
| `EncipherNeverOverflows` | the doubled amount fits a u128, for a width of at least 4 |

The argument is arithmetic of the parity: `AmountIsDecoded` undoes the doubling, and the
length of the payload is odd exactly if there is a pointer, so that every edict is read
from the two places it was written to.

About `RuneUpdater`, for any transactions that `Templates` may hold and any inputs, and
from the assumptions of the module: the bounds are natural numbers and a coinbase output
takes a block at least to mature (`BoundAssumption`), templates are transactions
(`TemplateAssumption`), rewards are natural numbers (`RewardAssumption`), the width is
positive (`LotAssumption`). That an artifact fits its transaction is not needed.

| Theorem | States |
| --- | --- |
| `TypesCorrect` | `TypeOK`: amounts are natural numbers, so no subtraction of the edict loop, or of what a conversion takes from the amounts burned and allocated, goes below zero (the supplies it moves wrap) |
| `InputIsReturned` | `InputReturned`: the input of a conversion that was refused, or needed less, does not stay burned |
| `UpdaterFollowsCurve` | `SupplyFollowsCurve`: the updater implements `SupplyCurve` |
| `ChainEndsAreUnspent` | `ChainEndUnspent`: the recorded end of a chain is unspent, with its script and value |
| `BalancesAreUnspent` | `BalancesUnspent`: rows are those of unspent outputs or pending inputs, and are not empty |
| `OneMintInABlock` | `OneMintPerBlock`: the pot is claimed once in a block |
| `LaterConversionsDescend` | `ConversionsDescend`: a later conversion of a block descends from the earlier one while the outpoint is required |

`RuneUpdaterProofs` proves them in two parts, after those of the codec. The first, of the first three, rests on the
invariant `UpdaterInvariant`, which is `TypeOK`,
`InputReturned`, that the height is not below the first (rewards are numbers from there on)
and `ConversionFound`: in `convert`, `inputId` is a rune of which some was burned. Without
the last, the type of the supplies is not inductive. The edict loop is the long part: each
kind of edict gives at most what is unallocated (`EdictEffectType`). For the refinement,
`WrappedYieldsFit` and `WrappedCostsFit` say that what the u128 computes is
`ExactInputYields` and `ExactOutputCosts` when the squares fit, and `ExactInputBest` and
`ExactOutputBest` that these are the point of the curve which `SupplyCurve` asks for
(`AcceptedPoint`). A block's reward is an `Issue`, and no other step changes a supply.

The second part adds `ChainInvariant`, whose parts are inductive only together:

| Part | Why it is needed |
| --- | --- |
| `Numbered` | a new transaction's outputs are not those of an earlier one, and null is no output |
| `PendingTaken` | a row of a pending input is gone before the next transaction is taken |
| `OutputsCreated` | the outputs of the current transaction are unspent, with script, value and height: `FirstOutpoint` and the rows `StoreOutput` writes point at them |
| `EndsRecorded` | an output at the end of a chain has the chain's script, so `Spendable` keeps the end of the mint chain for the next block |
| `MintEndsAtMinter` | once a block has minted, the mint chain ends at the minter, at an output of this height: nobody can move it, and `mint` refuses everyone else |
| `EndDescends` | while it is required, the end of the conversion chain is null or a descendant of the block's last conversion |

`OneMintPerBlock` rests on consensus as much as on the code: the mint script's relative
lock of a block is why the second transaction cannot spend the first one's output.

A third part is about the amounts:

| Theorem | States |
| --- | --- |
| `ConvertedEqualsAllocated` | `ConvertedIsAllocated`, when `ProductsFit` in every state: what a conversion is computed for is what its outputs are given |
| `RunesAreConserved` | `Conservation`, when `ProductsFit` and `SuppliesFit` in every state: outputs, the transaction in hand and what is burned add up to the supply, in every loop |

Their premises are the two places where a release build computes another number than the
code means. `ProductsFit`: the product of an edict to all destinations of a rune that is
not held fits a u128 (when it does not, the run `wide` shows what follows). `SuppliesFit`:
so do the supplies, which a conversion moves without a check. Both are conditions on amounts and not on the order of steps. Supplies stay below
2.1 * 10^15, so the second holds on the chain; the first fails only at an edict that names
an amount far above every supply.

A total over the outputs is a fold, which takes one element after another. The prover has
no induction over sets, so the module shows from the least size without a solution that
the recurrence of the fold has one (`FoldExists`) and that the order does not matter; then
what a row more, a row less or another amount does to a total. Each kind of edict is shown
to give what it takes, and each action to move amounts between the outputs, the locals and
what is burned. `LocalsInvariant` says of the locals what the sums need: nothing is allocated
past the outputs of the transaction, rows are stored in the order of the outputs, and
the rows are finitely many.

About `Simulation`, from the same assumptions, for any transactions that are simulated on
anything that the index may have committed (`SimulationSpec`):

| Theorem | States |
| --- | --- |
| `SimulationTakesTheSteps` | `SimulationIndexes`: each step of a simulation is one of indexing its transactions, or none |

A simulation calls `update_burned` after each transaction. What it has moved then (`moved`)
counts as burned in the block (`BlockEntries`, `BlockBurned`); so seen, the early call is no
step, and a mint is paid the same pot. `SimulationInvariant` has the types, of `saved` too,
and two facts: what was moved is a part of what is burned (`MovedIsBurned`), and a
transaction that mints is not one that has minted before (`MinterIsNew`), so that its mint
shows in `minters` and empties `moved`. The steps of `Replay`, which TLC runs, are steps of
`SimulationSpec`.

About `IndexUpdater`, for every length of the chain, interval, channel and distance, and
any reorganizations, failures and crashes (`UpdaterAssumption`: they are numbers, and the
sizes positive):

| Theorem | Assumes | States |
| --- | --- | --- |
| `BasicsHold` | | one holder of the write transaction, and blocks numbered by their heights, for any number of updaters |
| `IndexIsConnected` | `CommitInterval = 1` | `ConnectedIndex`: no mixture of branches is committed, for any number of updaters |
| `IndexTypes` | `Alone` | `TypeOK`: never more than `MAX_SAVEPOINTS` savepoints |
| `RollbackIsJustified` | `Alone` | `RollbackOnlyOnFork`: only a fork is rolled back |
| `FirstReorgRecovers` | `Alone`, `CommitInterval = 1` | `FirstReorgIsRecoverable`: the first reorg that is accepted as recoverable is, at any height, while the tip is near and nothing has failed |

`Alone` is at most one call of `Index::update` at a time, as in a server nobody else
opens the index of: with two, both may delete a savepoint before either creates one. The
commit interval of 1 is needed because `detect_reorg` compares with headers that are
committed, which `batch` shows. `Basics` is inductive by itself. `Links` adds that, committed
after every block, the write transaction is the database when the next block is compared
with it, so the comparison of `detect_reorg` is one with the block below.
`Ages` is what makes a rollback justified: a reorganization replaces blocks by blocks of a
later branch, so whatever was read before it, in the queue, the tables or the savepoints,
is at most as new as the chain is now; a block whose parent is not the block below it then
shows a fork, and never an answer that came late. `Follows` is the longest: until the
first reorg is followed, the newest savepoints are at the ends of the last `MAX_SAVEPOINTS`
intervals, as far down as the tip is near (`Standing`, `Rung`, `Near`; the chain only becomes
longer, so the tip was near when that height was indexed as well), which is as deep
as `detect_reorg` looks; then the index has recovered from it (`Recovered`), or it is below
the first intervals or too far from the tip (`Stuck`, `Low`).

About `AddressIndex`, for every chain that keeps the rules of consensus above, any sizes of
batches, parts and channels, any first rune height, restarts and failed calls
(`AddressAssumption`):

| Theorem | States |
| --- | --- |
| `ListedAreUnspent` | `AddressesAreUnspent`: an address lists its unspent outputs of the blocks from the first rune height on, and no others |
| `AnswersAreInOrder` | `AnswerIsSpent`: the answer that is taken for an input is the output it spends |
| `AssertionHolds` | `NothingIsLeftOver`: "Previous block did not consume all inputs" is never said (`updater.rs`) |

`TableInv` is for the first: at each place within a block, the tables and the cache
together hold what is unspent at that place (`Fit`), and what the block itself has made and
not spent is in the cache (`Midway`). For the other two, `QueueInv` says what is on its way:
the answers that have come, the batch the fetcher works on and the requests it has not
taken, in this order, are the inputs that still need an answer. `get_transactions` may end its parts
in any order and sorts them back: `AddressIndex` states it as the batch in the order of its
numbers, and the proof puts the parts together again. The rules of consensus are needed: an
output spent twice would be requested twice and be in the table once.

About `ConversionChain`, for any pool of transactions of others and any commands: sizes are
positive and so is the limit of a package (`SizeAssumption`), fees too, and no other
transaction spends the wallet's own coin (`PoolAssumption`), rates, the first supplies
and the rewards are numbers (`CommandAssumption`, `SupplyAssumption`).

| Theorem | States |
| --- | --- |
| `WholeChain` | `WholeChainIsFound`: nothing in a mempool that rests spends the end of the chain that was found |
| `SpenderFound` | `SpenderIsFound`: the fees in the node's error lead to the spender |
| `ReplacementTaken` | `ReplacementIsTaken`: a place in front of others is only chosen where the node accepts the replacement |
| `ReportedConverted` | `ReportedIsConverted`: a conversion that is mined spends the place it was reported for; behind others it converts the amounts reported when it is in the block that was simulated, and in the first place only rewards come between them |

The mempool is a graph: `Descendants` and `Ancestors` are its least closed sets, and the
first part of the proof shows what the node's rules keep of it. No outpoint is
spent twice, so a transaction has a parent for each input and the graph has no
cycle; fees and sizes of a package add up; a replacement removes the descendants of what it
replaces and nothing else. While the mempool is `quiet`, what was read of it stays true,
which the first three theorems need: that the fees which an error names are those of one
candidate, that the candidate's children continue the chain, and that what the command
counted as evicted and paid is what the node counts.

`ReportedConverted` is about a mempool that does not rest. `ChainInvariant` says of the
blocks that the conversions in them are one path (`MinedOrdered`, `TipUnspent`) and that it
goes on from the state that the command has seen to the tip (`TipFollows`). `PathOK` says
that what was found is such a path as well, of transactions that could all be in blocks
together (`FoundTogether`), however many of them were replaced since. The transaction that
was built spends the output of one place of the path; if it is mined, so was each of
those before it, in the same order, since each spends the output of the one before
(`MinedInPlace`). The simulation was of a list in a topological order, with
their other ancestors between them: there is such an order (`OrderExists`), and the
supplies after each of its conversions are those along the path (`BlockFollows`), so
`prevs` has at each place behind others what the indexer will have there in a block that
begins with the next reward. Between blocks the route from the state that was read to the tip
has steps that only issue a reward (`Issued`, `RouteIssues`); one without a
conversion is what rewards make of that state, and nothing else (`RewardedIs`).

`SpenderFound` needs the fee rate that the mempool asks for: while the mempool rests so does
its `floor`, and what was found, was found by a test that it did not refuse (`FloorOK`).

About `Wallet`, for any first blocks, commands and transactions of others that the
assumptions of the module allow, with those of `RuneUpdater`:

| Theorem | States |
| --- | --- |
| `WalletAgrees` | the invariant of the wallet, the node and the index, `WalletInvariant` |
| `SendGives` | `SendGivesAmount`: a send costs the amount, and nothing of the other rune if there is change |
| `OutputComesBack` | `OutputRuneKept`: a conversion never costs any of the rune it converts to |
| `LimitsHold` | `LimitsEnforced`: a conversion that begins a chain takes at most the maximum and gives at least the minimum |
| `RefusedReturns` | `RefusedComesBack`: a conversion that the index refuses costs nothing |
| `MintGives` | `MintGivesReported`: a connected mint in the block it was computed for gets what the command reports |

The last five speak of what the wallet has when its transaction is indexed, some
blocks after what it read, so the proof has three layers. `WalletInvariant` is about the
three parts between the requests:

| Part | Why it is needed |
| --- | --- |
| `NodeInvariant` | an output is of a mined transaction before it is spent, and spent once; in the mempool only the command's transaction is the wallet's own |
| `Updater` | the invariants of `RuneUpdater` hold of the blocks that the node mines |
| `IndexInvariant` | rows are of unspent outputs of indexed transactions; what the node has not spent is there for the index; nothing is in hand between transactions |
| `OrderRight` | the command sends once, and the history has its transaction until it is indexed |
| `CommandRight` | what was listed is all that the wallet can spend (`ListedRight`); what is known of an output holds until it is spent (`KnownRight`); outputs with runes are locked before the node funds, so the coin it adds has none (`LockedRight`); the end that was read is the end until it is spent (`EndRight`) |
| `DraftRight` | what was built is a function of what was read |

`RunInvariant` adds the second: while the index takes the inputs of the wallet's own
transaction, the wallet has what it had without those taken, and `index_runes` holds
what the wallet knew of them (`OwnTaking`, `OwnTaken`, `OwnGone`). `Due` is what the wallet
will have gained once its outputs are stored, and storing one does not change it. The third layer has
an invariant for each property, which says loop by loop what was given and what is left
(`SendRight`, `KeptRight`, `LimitRight`, `RefundRight`, `MintRight`). For conversions it goes through
the eight shapes of a runestone that `create_unfunded_convert_transaction` writes
(`StoneIs`): with and without change, connected or not, exact input or output. That the
edicts count outputs which were visited and not spent is why the rune converted to is known as
a bound and not exactly.

`MintGives` also needs what happens before the transaction is indexed. What the command
read at one height is what the index has there until the block begins (`BeforeRight`); then
`update_supply` issues to each pot what `mint.rs` has computed from it, and until the
wallet's transaction mints, the pot still holds what is reported (`PotRight`): another mint
would have to spend the end of the chain, which the wallet's transaction spends, and a
coinbase carries no chain. Other transactions of the block may burn before it, so the pot
is a bound too.

Three premises came out of these proofs, as steps that could not be proved: an amount of
0, the minimum of 0 that a single unit has, and an end of the chain with runes on it.

Only model-checked: `TestsHold` and `SimulationForetells` of `Replay`, whose inputs are the
repository's tests. The second compares a simulation with a later run of the index over the
same transactions: that each of its steps is one of indexing is `SimulationTakesTheSteps`,
but an inductive invariant would need every state the simulation went through, and only
the supplies are kept of them. Liveness
(`IndexCatchesUp`, `AddressesCatchUp`, `LookupEnds`) is beyond the prover.

## Not modelled

- The width of `bonds_per_sat` and of the products of the reward shares (u128): the
  models compute with natural numbers. Supplies stay far below 2^64 (2.1 * 10^15 at
  most), so the latter fit; the former compounds for decades of blocks before it does not.
- The bytes of varints and the pushes of a script.
- Events: a channel that only tests create, filled inside the write transaction.
- The postage and size checks of `mint` before it funds (`mint.rs:80`).
- The wallet's sends of sats, utils and bonds, its setup, backup and listings, coin
  selection and signing. In the mempool only counts of a package are limited, not its sizes
  (`convert.rs:288`, `convert.rs:297`): the room for a place behind the last conversion is
  counted, and a replacement is not held against either limit in the code.
- The server's pages and the API beyond the requests the wallet makes: they read the same
  tables and render them. Settings and the command line: merged once at the start.
- Value types and formatting: no state that changes.
- The mock node of the tests; the node and redb are external and modelled by use.

## Plan

1. `SupplyCurve`, `RuneUpdater`, `IndexUpdater`, `UtilEntry` with their runs, the proofs
   of the arithmetic: done.
2. `Simulation` and `Replay`, `AddressIndex`, `Wallet`, `ConversionChain`, `Runestone`
   with its proofs: done.
3. Proofs about `RuneUpdater`: its types, `SupplyFollowsCurve`, the chains and the
   balances: done.
4. `Conservation` and `ConvertedIsAllocated`; proofs about `IndexUpdater`, `AddressIndex`,
   `BlockSupplies` (the util entry and `IssueTracksReward`) and `SimulationIndexes`: done.
5. Proofs about `ConversionChain`: done.
6. Proofs about `Wallet`: done.
