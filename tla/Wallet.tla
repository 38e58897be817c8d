------------------------------- MODULE Wallet -------------------------------
(***************************************************************************)
(* One command of the wallet (src/wallet.rs, wallet/wallet_constructor.rs, *)
(* src/subcommand/wallet: mint, send, convert) between the node and the    *)
(* index.  Each request it makes is a step, and the node mines, the index  *)
(* follows and others send their transactions between the requests.        *)
(*                                                                         *)
(* A request answered while a block is indexed reads the tables as they    *)
(* were before it, so the wallet's steps are between blocks (pc = "idle"); *)
(* the node is at most one block ahead of the index.  All inputs are       *)
(* confirmed, and a transaction that conflicts with one in the mempool is  *)
(* refused; ConversionChain models chains and replacements in the mempool. *)
(***************************************************************************)
EXTENDS WalletTransactions

CONSTANTS
  Seeds,       \* the first block: sequences of [inputs, template, mine]
  Crowd,       \* what others may send: [inputs, ends, template], name -> record
  Commands,    \* the commands the user may give
  LateBlocks   \* a block may be mined between two requests of a command

VARIABLES
  \* the node (external)
  txs,       \* the transactions there are, by number
  mempool,   \* the numbers of those that are not mined
  block,     \* the numbers of those mined and not indexed, in order
  unspent,   \* its unspent outputs, of the block that is not indexed too
  locked,    \* the wallet's locked outputs
  sentBy,    \* the others that send nothing (any more); bound: one of them may
  \* the command
  phase,     \* the request that is next
  command,
  listed,    \* utxos
  known,     \* output_info
  tip,       \* the node's height, which mint reads
  read,      \* the entries the command has read
  chainEnd,  \* last_conversion_outpoint or last_mint_outpoint, with its value
  draft,     \* the transaction it builds
  offer,     \* what it tells the user
  readAt,    \* history: the heights of the index at its reads
  \* history: the transaction it sent, and what came of it
  order

nodeVars == <<txs, mempool, block, unspent, locked, sentBy>>
locals == <<command, listed, known, tip, read, chainEnd, draft, offer, readAt>>
commandVars == <<phase, locals>>
walletVars == <<vars, nodeVars, commandVars, order>>

NoDraft == [inputs |-> {}, mine |-> {}, template |-> [coinbase |-> FALSE,
             rbf |-> FALSE, outputs |-> << >>, artifact |-> NoArtifact]]
NoCommand == [kind |-> "none"]
Nowhere == [at |-> Missing, value |-> 0]
NoOrder == [status |-> "none", txid |-> 0, had |-> Zero, end |-> Zero,
            got |-> Zero, converted |-> FALSE, at |-> 0]

Created(t, txid) ==
  {[txid |-> txid, vout |-> v] :
     v \in {w \in DOMAIN t.template.outputs :
              t.template.outputs[w].script # "op_return"}}
Mine(txid) == {[txid |-> txid, vout |-> v] : v \in txs[txid].mine}
Owned == UNION {Mine(n) : n \in DOMAIN txs}
SpentInMempool == UNION {txs[n].inputs : n \in mempool}

CoinbaseTx(mine) ==
  [inputs |-> {}, mine |-> mine,
   template |-> [coinbase |-> TRUE, rbf |-> FALSE,
                 outputs |-> <<WalletOutput("plain"), WalletOutput("plain")>>,
                 artifact |-> NoArtifact]]

\* A transaction, and the outputs of it that are the wallet's.
Transaction == [inputs : SUBSET Outpoint, mine : SUBSET Nat, template : Template]
Command ==
  [kind : {"mint"}]
  \cup [kind : {"send"}, id : Rune, amount : Nat]
  \cup [kind : {"convert"}, exactInput : BOOLEAN, id : Rune, input : Nat, output : Nat]

\* The i-th transaction after the coinbase is number i + 1.  What consensus asks of
\* the first block: an output is spent once, by a later transaction.
FirstBlock(seed) == <<CoinbaseTx({1, 2})>> \o seed
ASSUME SeedAssumption ==
  \A seed \in Seeds :
    /\ seed \in Seq(Transaction)
    /\ \A i \in DOMAIN seed :
         /\ ~seed[i].template.coinbase
         /\ \A v \in seed[i].mine : /\ v \in DOMAIN seed[i].template.outputs
                                   /\ seed[i].template.outputs[v].script = "plain"
         /\ \A o \in seed[i].inputs :
              o.txid \in 1..i /\ o \in Created(FirstBlock(seed)[o.txid], o.txid)
         /\ \A j \in DOMAIN seed \ {i} : seed[i].inputs \cap seed[j].inputs = {}
ASSUME CrowdAssumption ==
  \A name \in DOMAIN Crowd :
    /\ Crowd[name].template \in Template
    /\ ~Crowd[name].template.coinbase
    /\ Crowd[name].ends \subseteq StateChange
ASSUME CommandAssumption == Commands \subseteq Command
ASSUME WidthAssumption == U128Max \in Nat

\* The first block is mined; its coinbase pays the wallet two coins.
WalletInit ==
  /\ Init
  /\ \E seed \in Seeds :
       /\ txs = FirstBlock(seed)
       /\ block = [n \in 1..(Len(seed) + 1) |-> n]
       /\ unspent = (UNION {Created(txs[n], n) : n \in DOMAIN txs})
                      \ (UNION {txs[n].inputs : n \in DOMAIN txs})
  /\ mempool = {}
  /\ locked = {}
  /\ \E name \in DOMAIN Crowd : sentBy = DOMAIN Crowd \ {name}
  /\ phase = "start"
  /\ command = NoCommand
  /\ listed = {}
  /\ known = [o \in {} |-> Zero]
  /\ tip = 0
  /\ read = entries
  /\ chainEnd = Nowhere
  /\ draft = NoDraft
  /\ offer = NoCommand
  /\ readAt = {}
  /\ order = NoOrder

-----------------------------------------------------------------------------
(* The node, and others. *)

\* A transaction the mempool takes.
MempoolAccepts(t) == t.inputs \subseteq unspent \ SpentInMempool
Broadcast(t) ==
  /\ txs' = Append(txs, t)
  /\ mempool' = mempool \cup {Len(txs) + 1}

\* Bound: nothing happens once the command has failed or its transaction is indexed.
Over == phase = "done" /\ order.status # "sent"

\* Somebody mints or converts, on the end of the chain as it is now.
CrowdSends(name) ==
  LET other == Crowd[name]
      t == [inputs |-> other.inputs \cup
                       ({lastOutpoint[c] : c \in other.ends} \ {Null, Missing}),
            mine |-> {}, template |-> other.template]
  IN  /\ pc = "idle"
      /\ ~Over
      /\ block = << >>
      /\ name \notin sentBy
      /\ MempoolAccepts(t)
      /\ Broadcast(t)
      /\ sentBy' = sentBy \cup {name}
      /\ UNCHANGED <<vars, block, unspent, locked, commandVars, order>>

\* The node mines some of its mempool, in any order.
MineBlock ==
  /\ pc = "idle"
  /\ block = << >>
  /\ ~Over
  /\ height <= MaxHeight
  /\ LateBlocks \/ phase \in {"start", "done"}
  /\ \E S \in SUBSET mempool : \E list \in SetToSeqs(S) :
       LET taken == [n \in 1..(Len(list) + 1) |->
                       IF n = 1 THEN Len(txs) + 1 ELSE list[n - 1]]
       IN  /\ txs' = Append(txs, CoinbaseTx({}))
           /\ block' = taken
           /\ mempool' = mempool \ S
           /\ unspent' = (unspent \cup UNION {Created(txs'[n], n) : n \in Range(taken)})
                           \ (UNION {txs[n].inputs : n \in S})
  /\ UNCHANGED <<vars, locked, sentBy, commandVars, order>>

-----------------------------------------------------------------------------
(* The index follows. *)

Held(o) == IF o \in DOMAIN balances THEN balances[o] ELSE Zero
WalletHas == [r \in Rune |-> Total(balances, Owned \cap DOMAIN balances, r)]

IndexBegin ==
  /\ block # << >>
  /\ BeginBlock
  /\ UNCHANGED <<nodeVars, commandVars, order>>

IndexTake ==
  LET n == Head(block)
  IN  /\ block # << >>
      /\ Take(n, txs[n].template, {u \in Spendable : u.at \in txs[n].inputs})
      /\ nextTxid' = nextTxid
      /\ block' = Tail(block)
      /\ order' = IF order.txid = n
                  THEN [order EXCEPT !.had = WalletHas, !.end = Held(chainEnd.at),
                                     !.at = height]
                  ELSE order
      /\ UNCHANGED <<txs, mempool, unspent, locked, sentBy, commandVars>>

IndexStep ==
  /\ IndexRunes
  /\ order' = IF order.txid # tx.txid THEN order
              ELSE IF pc' = "block"
              THEN [order EXCEPT !.status = "indexed",
                                 !.got = [r \in Rune |-> WalletHas[r] - order.had[r]]]
              ELSE [order EXCEPT !.converted =
                                   @ \/ (pc = "convert" /\ Acceptable /\ Connected)]
  /\ UNCHANGED <<nodeVars, commandVars>>

IndexEnd ==
  /\ block = << >>
  /\ EndBlock
  /\ UNCHANGED <<nodeVars, commandVars, order>>

-----------------------------------------------------------------------------
(* The command: WalletConstructor::build. *)

\* A request of the command: after `from' comes `to'.
Request(from, to) ==
  /\ pc = "idle"
  /\ phase = from
  /\ phase' = to
  /\ UNCHANGED <<vars, order>>
NodeUnchanged == UNCHANGED nodeVars

\* The wallet waits until the index has the blocks of the node.
Synchronize ==
  /\ height > FirstRuneHeight
  /\ block = << >>
  /\ Request("start", "list")
  /\ \E c \in Commands : command' = c
  /\ NodeUnchanged
  /\ UNCHANGED <<listed, known, tip, read, chainEnd, draft, offer, readAt>>

\* get_utxos and get_locked_utxos.
ListOutputs ==
  /\ Request("list", "info")
  /\ listed' = (Owned \cap unspent) \ SpentInMempool
  /\ NodeUnchanged
  /\ UNCHANGED <<command, known, tip, read, chainEnd, draft, offer, readAt>>

\* get_output_info: /outputs answers for one output after the other, each from a
\* read of its own, and knows no runes on an output that is not indexed.  The
\* wallet always has a coin.
GetOutputInfo ==
  LET waiting == listed \ DOMAIN known
  IN  \E o \in waiting :
        /\ \A p \in waiting \ {o} : Earlier(o, p)
        /\ Request("info", IF waiting # {o} THEN "info"
                           ELSE IF command.kind = "mint" THEN "count" ELSE "lock")
        /\ known' = [p \in DOMAIN known \cup {o} |-> IF p = o THEN Held(o) ELSE known[p]]
        /\ NodeUnchanged
        /\ UNCHANGED <<command, listed, tip, read, chainEnd, draft, offer, readAt>>

-----------------------------------------------------------------------------
(* The command: what it reads and locks. *)

\* lock_non_cardinal_outputs.
LockOutputs ==
  /\ Request("lock", IF command.kind = "convert" THEN "tighten" ELSE "build")
  /\ locked' = locked \cup Runic(known)
  /\ UNCHANGED <<txs, mempool, block, unspent, sentBy, locals>>

\* mint: get_block_count of the node.
GetBlockCount ==
  /\ Request("count", "tighten")
  /\ tip' = height - 1 + (IF block = << >> THEN 0 ELSE 1)
  /\ NodeUnchanged
  /\ UNCHANGED <<command, listed, known, read, chainEnd, draft, offer, readAt>>

\* get_rune, once for each rune.
GetEntry(r, from, to) ==
  /\ Request(from, to)
  /\ read' = [read EXCEPT ![r] = entries[r]]
  /\ readAt' = readAt \cup {height}
  /\ NodeUnchanged
  /\ UNCHANGED <<command, listed, known, tip, chainEnd, draft, offer>>
GetEntries == GetEntry(ID0, "tighten", "ease") \/ GetEntry(ID1, "ease", "end")

\* /status: the end of the chain and its value, in two read transactions.
EndOf == IF command.kind = "mint" THEN "mint" ELSE "convert"
GetChainEnd ==
  /\ Request("end", "value")
  /\ chainEnd' = [at |-> lastOutpoint[EndOf], value |-> 0]
  /\ NodeUnchanged
  /\ UNCHANGED <<command, listed, known, tip, read, draft, offer, readAt>>
GetEndValue ==
  /\ Request("value", IF command.kind = "mint" THEN "lock" ELSE "build")
  /\ chainEnd' = [chainEnd EXCEPT !.value = lastValue[EndOf]]
  /\ NodeUnchanged
  /\ UNCHANGED <<command, listed, known, tip, read, draft, offer, readAt>>

HasEnd == chainEnd.at \notin {Null, Missing}

-----------------------------------------------------------------------------
(* The command: the transaction. *)

GiveUp ==
  /\ phase' = "done"
  /\ UNCHANGED <<draft, offer>>

\* It gives up when there is nothing to mint.
BuildMint ==
  LET pile == [r \in Rune |-> MintPile(read, tip + 1, r)]
  IN  /\ command.kind = "mint"
      /\ IF \E r \in Rune : pile[r] # 0
         THEN /\ phase' = "fund"
              /\ draft' = MintTransaction
              /\ offer' = [pile |-> pile]
         ELSE GiveUp

BuildSend ==
  /\ command.kind = "send"
  /\ IF Covers(known, command.id, command.amount)
     THEN /\ phase' = "fund"
          /\ draft' = SendTransaction(known, command.id, command.amount)
          /\ offer' = [change |-> draft'.mine # {}]
     ELSE GiveUp

\* The entries are read again for the parameters; the places in the chain are
\* the end, that nothing in the mempool spends, with the supplies read before.
BuildConvert ==
  LET state == [r \in Rune |-> read[r].supply]
      limits == Parameters(command, HasEnd, <<state>>, [r \in Rune |-> entries[r].supply])
      inputs == Selected(known, command.id, limits.max)
  IN  /\ command.kind = "convert"
      /\ chainEnd.at \notin SpentInMempool
      /\ IF /\ limits.ok
            /\ Covers(known, command.id, limits.max)
            /\ HasEnd => Satisfies(command, state, limits)
         THEN /\ phase' = "fund"
              /\ draft' = ConvertTransaction(known, command, HasEnd, limits)
              /\ offer' = [max |-> limits.max, min |-> limits.min,
                           change |-> Total(known, inputs, command.id) > limits.max]
         ELSE GiveUp

Build ==
  /\ pc = "idle"
  /\ phase = "build"
  /\ BuildMint \/ BuildSend \/ BuildConvert
  /\ NodeUnchanged
  /\ UNCHANGED <<vars, command, listed, known, tip, read, chainEnd, readAt, order>>

\* The node funds with a coin of the wallet that is not locked, then the end of
\* the chain is added.  The fee of a conversion is counted over the listed
\* outputs, and it is a panic when the coin is not one of them.
Coins == ((Owned \cap unspent) \ SpentInMempool) \ (locked \cup draft.inputs)
FundWith(coin) ==
  /\ phase' = "send"
  /\ offer' = offer
  /\ draft' = [Funded(draft, coin) EXCEPT
                 !.inputs = @ \cup (IF HasEnd /\ command.kind # "send"
                                    THEN {chainEnd.at} ELSE {})]
Fund ==
  /\ pc = "idle"
  /\ phase = "fund"
  /\ \/ Coins = {} /\ GiveUp
     \/ \E coin \in Coins :
          IF command.kind = "convert" /\ coin \notin listed
          THEN GiveUp ELSE FundWith(coin)
  /\ NodeUnchanged
  /\ UNCHANGED <<vars, command, listed, known, tip, read, chainEnd, readAt, order>>

\* The signature of the conversion's input commits to the value that was read.
SignatureValid ==
  command.kind = "convert" /\ HasEnd => chainEnd.value = 1

Send ==
  /\ pc = "idle"
  /\ phase = "send"
  /\ phase' = "done"
  /\ IF MempoolAccepts(draft) /\ SignatureValid
     THEN /\ Broadcast(draft)
          /\ order' = [order EXCEPT !.status = "sent", !.txid = Len(txs) + 1]
     ELSE UNCHANGED <<txs, mempool, order>>
  /\ UNCHANGED <<vars, block, unspent, locked, sentBy, locals>>

WalletNext ==
  \/ \E name \in DOMAIN Crowd : CrowdSends(name)
  \/ MineBlock
  \/ IndexBegin
  \/ IndexTake
  \/ IndexStep
  \/ IndexEnd
  \/ Synchronize
  \/ ListOutputs
  \/ GetOutputInfo
  \/ LockOutputs
  \/ GetBlockCount
  \/ GetEntries
  \/ GetChainEnd
  \/ GetEndValue
  \/ Build
  \/ Fund
  \/ Send

WalletSpec == WalletInit /\ [][WalletNext]_walletVars

-----------------------------------------------------------------------------
Done(kind) == order.status = "indexed" /\ command.kind = kind
Out == Other(command.id)

(***************************************************************************)
(* A conversion that is not connected keeps the limits the wallet reports, *)
(* whatever is mined before it and however old what it has read is: the    *)
(* runestone carries them (convert.rs:495-631), and they survive outputs   *)
(* of the other rune that are counted but not spent.  No command refuses an*)
(* amount of 0, which an edict reads as all there is.                      *)
(***************************************************************************)
LimitsEnforced ==
  /\ Done("convert") /\ order.converted /\ ~HasEnd
  /\ command.exactInput => command.input > 0
  => /\ order.got[command.id] >= -offer.max
     /\ order.got[Out] >= offer.min

(***************************************************************************)
(* The rune a conversion is to yield is never lost, in the transactions    *)
(* the wallet builds: accepted or refused, with and without change, what   *)
(* its inputs hold of that rune comes back.                                *)
(***************************************************************************)
OutputRuneKept == Done("convert") => order.got[Out] >= 0

\* The edicts ask for more of the output rune than the inputs hold: a minimum of
\* 0, which 99.8% of a single unit is, asks for nothing (convert.rs:369-377).
Asks == offer.min > 0 \/ (command.exactInput /\ HasEnd)

(***************************************************************************)
(* A conversion the index refuses costs nothing, in the transactions that  *)
(* leave no change or fix the output: the input rune comes back to the     *)
(* wallet and not to the OP_RETURN output it was burned in.  This is about *)
(* ends of the chain without runes, as the wallet expects them.            *)
(***************************************************************************)
RefusedComesBack ==
  /\ Done("convert") /\ ~order.converted
  /\ ~(command.exactInput /\ offer.change)
  /\ Asks
  /\ order.end = Zero
  => order.got = Zero

(***************************************************************************)
(* Sending takes exactly the amount of the rune from the wallet, and with  *)
(* change nothing of the other rune (send.rs:217-264), unless the amount   *)
(* is 0, which the edict reads as all there is.                            *)
(***************************************************************************)
SendGivesAmount ==
  Done("send") /\ command.amount > 0 =>
    /\ order.got[command.id] = -command.amount
    /\ offer.change => order.got[Out] = 0

(***************************************************************************)
(* A connected mint in the block it was computed for gets what the command *)
(* reports: mint.rs:49-66 computes the share of the reward again, before   *)
(* the block, that update_supply issues in it.                             *)
(***************************************************************************)
MintGivesReported ==
  Done("mint") /\ HasEnd /\ readAt = {order.at} /\ tip + 1 = order.at =>
    \A r \in Rune : order.got[r] >= offer.pile[r]

(***************************************************************************)
(* What the documents say of a send, and the wallet does not do: a send    *)
(* names an amount of one rune (docs/src/guides/wallet.md:429), and        *)
(* send.rs:210 asks for change when the inputs hold a second rune, but     *)
(* only ever counts the rune that is sent.                                 *)
(***************************************************************************)
SendLeavesOther == Done("send") => order.got[Out] = 0
=============================================================================
