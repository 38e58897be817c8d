---------------------------- MODULE AddressIndex ----------------------------
(***************************************************************************)
(* The address index (src/index/updater.rs, fetcher.rs): which outputs a   *)
(* script has.  To unlist a spent output its script must be known; outputs *)
(* that are neither cached nor in the database are asked of the node by a  *)
(* thread: the updater sends all requests of a block into one channel and  *)
(* then takes the answers, in order, from another.                         *)
(*                                                                         *)
(* Outputs are missing that were made in blocks below the first rune       *)
(* height, whose transactions are not looked at, and those of blocks that  *)
(* were indexed without addresses: whether to ask is decided by a flag of  *)
(* the database, set when it was made, but whether to listen by the        *)
(* setting of this start.  The chain does not reorganize here, and a       *)
(* database that is half written is none: see IndexUpdater.                *)
(***************************************************************************)
EXTENDS Integers, Sequences, FiniteSetsExt, SequencesExt

CONSTANTS
  Chain,              \* the node's: sequence of blocks, each a sequence of
                      \* transactions [txid, inputs, outputs]: outpoints, scripts
  FirstRuneHeight,    \* settings.first_rune_height()
  CommitInterval,     \* settings.commit_interval()
  BatchSize,          \* BATCH_SIZE, 2048
  ParallelRequests,   \* settings.bitcoin_rpc_limit(), 12
  RequestCap,         \* CHANNEL_BUFFER_SIZE, 20000
  MaxRestarts,        \* bound: starts of the program after the first
  MaxErrors           \* bound: calls to the node that fail for good

ASSUME AddressAssumption ==
  /\ {CommitInterval, BatchSize, ParallelRequests, RequestCap} \subseteq Nat \ {0}
  /\ {FirstRuneHeight, MaxRestarts, MaxErrors} \subseteq Nat

VARIABLES
  setting,          \* settings.index_addresses(), of this start
  indexAddresses,   \* Statistic::IndexAddresses, of the database
  mined,            \* blocks of the node
  restarts, errors, \* for the bounds
  \* the tables
  db, wtx,          \* committed, and in the write transaction: [blocks, txouts,
                    \* listed, complete]; complete is history
  \* the updater
  pc,
  todo,             \* the transactions of the block still to be looked at, with
                    \* their inputs
  cache,            \* utxo_cache
  uncommitted,
  \* the fetcher
  requests,         \* outpoint_receiver
  answers, lagged,  \* address_txout_receiver
  fetcher           \* what the thread does: [does, batch, replies]

config == <<setting, indexAddresses>>
external == <<mined, restarts, errors>>
updater == <<wtx, todo, cache, uncommitted>>
channels == <<requests, answers, lagged, fetcher>>
vars == <<config, external, db, pc, updater, channels>>

NoTables == [blocks |-> 0, txouts |-> {}, listed |-> {}, complete |-> TRUE]
Idle == [does |-> "waiting", batch |-> << >>, replies |-> << >>]

\* Database::create sets the flag.
Init ==
  /\ setting \in BOOLEAN
  /\ indexAddresses = setting
  /\ mined = 0
  /\ restarts = 0
  /\ errors = 0
  /\ db = NoTables
  /\ wtx = db
  /\ pc = "idle"
  /\ todo = << >>
  /\ cache = {}
  /\ uncommitted = 0
  /\ requests = << >>
  /\ answers = << >>
  /\ lagged = FALSE
  /\ fetcher = Idle

-----------------------------------------------------------------------------
(* The chain. *)

Output(txid, vout) == [txid |-> txid, vout |-> vout]
AllTxs == UNION {Range(Chain[n]) : n \in DOMAIN Chain}
OutputsOf(t) == {Output(t.txid, v) : v \in DOMAIN t.outputs}
ScriptOf(o) == (CHOOSE t \in AllTxs : t.txid = o.txid).outputs[o.vout]
Listing(o) == [script |-> ScriptOf(o), output |-> o]

(***************************************************************************)
(* What consensus guarantees of blocks: no two transactions have the same  *)
(* id, an input spends an output of an earlier transaction, and no two     *)
(* inputs spend the same output.                                           *)
(***************************************************************************)
AllOutputs == UNION {OutputsOf(t) : t \in AllTxs}
ASSUME ChainAssumption ==
  /\ Chain \in Seq(Seq(AllTxs))
  /\ \A t \in AllTxs : t.inputs \in Seq(AllOutputs)
ASSUME IdAssumption ==
  \A n, m \in DOMAIN Chain : \A i \in DOMAIN Chain[n], j \in DOMAIN Chain[m] :
    Chain[n][i].txid = Chain[m][j].txid => n = m /\ i = j
ASSUME EarlierAssumption ==
  \A n \in DOMAIN Chain : \A i \in DOMAIN Chain[n] : \A k \in DOMAIN Chain[n][i].inputs :
    \E m \in 1..n : \E j \in DOMAIN Chain[m] :
      /\ m < n \/ j < i
      /\ Chain[n][i].inputs[k] \in OutputsOf(Chain[m][j])
ASSUME OnceAssumption ==
  \A n, m \in DOMAIN Chain : \A i \in DOMAIN Chain[n], j \in DOMAIN Chain[m] :
    \A k \in DOMAIN Chain[n][i].inputs, l \in DOMAIN Chain[m][j].inputs :
      Chain[n][i].inputs[k] = Chain[m][j].inputs[l] => n = m /\ i = j /\ k = l

(***************************************************************************)
(* What the updater gets of a block: below the first rune height only its  *)
(* header.  The height of block n is n - 1.                                *)
(***************************************************************************)
Blocks ==
  [n \in DOMAIN Chain |-> IF n - 1 >= FirstRuneHeight THEN Chain[n] ELSE << >>]
Txs(n) == Range(Blocks[n])

-----------------------------------------------------------------------------
(* The fetcher: the thread of spawn_fetcher, and Fetcher::get_transactions. *)

Ended == [Idle EXCEPT !.does = "ended"]

\* It waits for one request and takes all there are, up to BATCH_SIZE, in chunks
\* for parallel requests.
Chunks(batch) ==
  LET size == (Len(batch) \div ParallelRequests) + 1
  IN  [c \in 1..((Len(batch) + size - 1) \div size) |->
         SubSeq(batch, (c - 1) * size + 1, Min({c * size, Len(batch)}))]
TakeBatch ==
  LET n == Min({BatchSize, Len(requests)})
      batch == SubSeq(requests, 1, n)
  IN  /\ fetcher.does = "waiting"
      /\ requests # << >>
      /\ requests' = SubSeq(requests, n + 1, Len(requests))
      /\ fetcher' = [does |-> "fetching", batch |-> batch,
                     replies |-> [c \in DOMAIN Chunks(batch) |-> << >>]]
      /\ UNCHANGED <<answers, lagged>>

\* Mutant: the results are used in the order in which they come back.
AsReceived(results) == [i \in DOMAIN results |-> results[i].txid]
InOrder(results) ==
  LET sorted == CHOOSE s \in SetToSeqs(Range(results)) :
                  \A i, j \in DOMAIN s : i < j => s[i].id < s[j].id
  IN  [i \in DOMAIN sorted |-> sorted[i].txid]

\* The node answers a chunk, its results in any order.
Reply(c) ==
  LET chunk == Chunks(fetcher.batch)[c]
      results == {[id |-> i, txid |-> chunk[i].txid] : i \in DOMAIN chunk}
  IN  /\ fetcher.replies[c] = << >>
      /\ \E received \in SetToSeqs(results) :
           fetcher' = [fetcher EXCEPT !.replies[c] = InOrder(received)]
      /\ UNCHANGED <<requests, answers, lagged>>

\* Mutant: the channel holds what it was made for.
AsAsked == RequestCap
\* The capacity of a broadcast channel is the next power of two.
AnswerCap == CHOOSE n \in {2 ^ k : k \in 0..15} :
               n >= RequestCap /\ n < 2 * RequestCap

\* All chunks are there: their outputs are sent one by one.  Without a receiver
\* the thread ends; a full channel drops its oldest answer.
Answered == fetcher.does = "fetching" /\ \A c \in DOMAIN fetcher.replies : fetcher.replies[c] # << >>
SendAnswer ==
  LET txids == FlattenSeq(fetcher.replies)
      answer == Output(Head(txids), Head(fetcher.batch).vout)
      rest == [does |-> "sending", batch |-> Tail(fetcher.batch), replies |-> <<Tail(txids)>>]
  IN  /\ Answered \/ fetcher.does = "sending"
      /\ IF setting
         THEN /\ fetcher' = IF Len(fetcher.batch) = 1 THEN Idle ELSE rest
              /\ lagged' = (lagged \/ Len(answers) = AnswerCap)
              /\ answers' = Append(IF Len(answers) = AnswerCap THEN Tail(answers)
                                                               ELSE answers, answer)
         ELSE /\ fetcher' = Ended
              /\ UNCHANGED <<answers, lagged>>
      /\ UNCHANGED requests

\* The retries are used up, or the node knows no such transaction.
FetchFails ==
  /\ fetcher.does = "fetching"
  /\ errors < MaxErrors
  /\ errors' = errors + 1
  /\ fetcher' = Ended
  /\ UNCHANGED <<config, mined, restarts, db, pc, updater, requests, answers, lagged>>

FetchThread ==
  /\ \/ TakeBatch
     \/ fetcher.does = "fetching" /\ \E c \in DOMAIN fetcher.replies : Reply(c)
     \/ SendAnswer
  /\ UNCHANGED <<config, external, db, pc, updater>>

-----------------------------------------------------------------------------
(* The updater. *)

Goto(phase) ==
  /\ pc' = phase
  /\ UNCHANGED <<config, external>>

\* update_index returns: what it holds is dropped, and the thread ends with it.
Drop ==
  /\ wtx' = db
  /\ todo' = << >>
  /\ cache' = {}
  /\ uncommitted' = 0
  /\ requests' = << >>
  /\ answers' = << >>
  /\ lagged' = FALSE
  /\ fetcher' = Idle
  /\ UNCHANGED db

\* begin_write and spawn_fetcher.
BeginUpdate ==
  /\ pc = "idle"
  /\ Goto("block")
  /\ UNCHANGED <<db, updater, channels>>

Height == wtx.blocks + 1
Todo ==
  [i \in DOMAIN Blocks[Height] |->
     [tx |-> Blocks[Height][i], inputs |-> Blocks[Height][i].inputs]]
Current == Head(todo)
Input == Head(Current.inputs)
AfterInput == <<[Current EXCEPT !.inputs = Tail(@)]>> \o Tail(todo)

\* index_block: nothing may be left of the block before.
NothingToReceive == answers = << >> /\ ~lagged /\ fetcher.does # "ended"
BeginBlock ==
  /\ pc = "block"
  /\ Height <= mined
  /\ Goto(IF setting => NothingToReceive THEN "request" ELSE "panicked")
  /\ todo' = IF indexAddresses THEN Todo ELSE << >>
  /\ UNCHANGED <<db, wtx, cache, uncommitted, channels>>

\* Mutant: inputs that are spent in their own block are requested too.
MissingOrNew(o) == o \notin cache \cup wtx.txouts
\* Outputs of the block itself, cached ones and those of the table are not requested.
Missing(o) ==
  /\ o.txid \notin {t.txid : t \in Txs(Height)}
  /\ o \notin cache \cup wtx.txouts

Request ==
  /\ pc = "request"
  /\ todo # << >>
  /\ Goto("request")
  /\ IF Current.inputs = << >>
     THEN /\ todo' = Tail(todo)
          /\ UNCHANGED requests
     ELSE /\ todo' = AfterInput
          /\ IF Missing(Input)
             THEN /\ fetcher.does # "ended"
                  /\ Len(requests) < RequestCap
                  /\ requests' = Append(requests, Input)
             ELSE UNCHANGED requests
  /\ UNCHANGED <<db, wtx, cache, uncommitted, answers, lagged, fetcher>>

\* blocking_send: nobody receives.
RequestFails ==
  /\ pc = "request"
  /\ todo # << >>
  /\ Current.inputs # << >>
  /\ Missing(Input)
  /\ fetcher.does = "ended"
  /\ Goto("idle")
  /\ Drop

Requested ==
  /\ pc = "request"
  /\ todo = << >>
  /\ Goto("receive")
  /\ todo' = IF setting THEN Todo ELSE << >>
  /\ UNCHANGED <<db, wtx, cache, uncommitted, channels>>

\* index_transaction_output_script_pubkeys, an input: its output, which is known
\* or received, is removed.
Unlist(txout) ==
  /\ cache' = cache \ {Input}
  /\ wtx' = [wtx EXCEPT !.txouts = @ \ {Input},
                        !.listed = @ \ {[script |-> ScriptOf(txout), output |-> Input]}]
  /\ todo' = AfterInput
  /\ UNCHANGED <<db, uncommitted>>
AtInput == pc = "receive" /\ todo # << >> /\ Current.inputs # << >>
Known == Input \in cache \cup wtx.txouts

SpendKnown ==
  /\ AtInput
  /\ Known
  /\ Goto("receive")
  /\ Unlist(Input)
  /\ UNCHANGED channels

SpendFetched ==
  /\ AtInput
  /\ ~Known
  /\ ~lagged
  /\ answers # << >>
  /\ Goto("receive")
  /\ Unlist(Head(answers))
  /\ answers' = Tail(answers)
  /\ UNCHANGED <<requests, lagged, fetcher>>

\* blocking_recv: answers were dropped, or nobody sends any.
ReceiveFails ==
  /\ AtInput
  /\ ~Known
  /\ lagged \/ (answers = << >> /\ fetcher.does = "ended")
  /\ Goto("idle")
  /\ Drop

\* ... and its outputs.
ListOutputs ==
  /\ pc = "receive"
  /\ todo # << >>
  /\ Current.inputs = << >>
  /\ Goto("receive")
  /\ cache' = cache \cup OutputsOf(Current.tx)
  /\ wtx' = [wtx EXCEPT !.listed = @ \cup {Listing(o) : o \in OutputsOf(Current.tx)}]
  /\ todo' = Tail(todo)
  /\ UNCHANGED <<db, uncommitted, channels>>

EndBlock ==
  /\ pc = "receive"
  /\ todo = << >>
  /\ Goto(IF uncommitted + 1 = CommitInterval THEN "commit" ELSE "block")
  /\ wtx' = [wtx EXCEPT !.blocks = @ + 1, !.complete = @ /\ setting]
  /\ uncommitted' = uncommitted + 1
  /\ UNCHANGED <<db, todo, cache, channels>>

\* Mutant: the cache is dropped and not written.
Unflushed == wtx
\* commit writes the cache into OUTPOINT_TO_TXOUT.
Flushed == [wtx EXCEPT !.txouts = @ \cup cache]

Commit ==
  /\ pc = "commit"
  /\ Goto("block")
  /\ db' = Flushed
  /\ wtx' = Flushed
  /\ cache' = {}
  /\ uncommitted' = 0
  /\ UNCHANGED <<todo, channels>>

\* There are no more blocks.
Finish ==
  /\ pc = "block"
  /\ Height > mined
  /\ IF uncommitted > 0
     THEN Goto("commit") /\ UNCHANGED <<db, updater, channels>>
     ELSE Goto("idle") /\ Drop

Update ==
  \/ BeginUpdate
  \/ BeginBlock
  \/ Request
  \/ RequestFails
  \/ Requested
  \/ SpendKnown
  \/ SpendFetched
  \/ ReceiveFails
  \/ ListOutputs
  \/ EndBlock
  \/ Commit
  \/ Finish

-----------------------------------------------------------------------------
Mine ==
  /\ mined < Len(Chain)
  /\ mined' = mined + 1
  /\ UNCHANGED <<config, restarts, errors, db, pc, updater, channels>>

\* The program stops, at any moment, and is started with or without the option.
Restart ==
  /\ restarts < MaxRestarts
  /\ restarts' = restarts + 1
  /\ setting' \in BOOLEAN
  /\ pc' = "idle"
  /\ Drop
  /\ UNCHANGED <<indexAddresses, mined, errors>>

Next == Update \/ FetchThread \/ FetchFails \/ Mine \/ Restart

\* The server's index thread updates again and again; the fetcher is a thread.
Spec == Init /\ [][Next]_vars /\ WF_vars(Update) /\ WF_vars(FetchThread)

-----------------------------------------------------------------------------
(***************************************************************************)
(* While addresses are indexed from the first block on, what is committed  *)
(* lists the outputs that were made at or above the first rune height and  *)
(* are unspent, under their scripts, and no other, and knows all of them,  *)
(* whether they were spent from the cache, from the table or in the block  *)
(* that made them (index_transaction_output_script_pubkeys, commit).       *)
(***************************************************************************)
Indexed(n) == UNION {Txs(i) : i \in 1..n}
Unspent(n) ==
  (UNION {OutputsOf(t) : t \in Indexed(n)}) \ (UNION {Range(t.inputs) : t \in Indexed(n)})
AddressesAreUnspent ==
  db.complete => /\ db.listed = {Listing(o) : o \in Unspent(db.blocks)}
                 /\ db.txouts = Unspent(db.blocks)

(***************************************************************************)
(* The answer that is taken for an input is the output it spends: requests,*)
(* batches, chunks, results in any order and inputs that need no answer do *)
(* not shift the one against the other (updater.rs:453, fetcher.rs:100).   *)
(***************************************************************************)
AnswerIsSpent ==
  AtInput /\ ~Known /\ ~lagged /\ answers # << >> => Head(answers) = Input

(***************************************************************************)
(* "Previous block did not consume all inputs" (updater.rs:312): the       *)
(* assertion holds, restarts with another setting and failed calls         *)
(* included.                                                               *)
(***************************************************************************)
NothingIsLeftOver == pc # "panicked"

(***************************************************************************)
(* The index catches up, also over blocks with more missing inputs than the*)
(* channel of the requests holds: no update waits for an answer that will  *)
(* not come, and none fails again and again.  This needs the setting to be *)
(* the one the database was made with.                                     *)
(***************************************************************************)
AddressesCatchUp ==
  <>[](setting = indexAddresses) => <>[](db.blocks = mined)
=============================================================================
