----------------------------- MODULE GossipSet -----------------------------
(***************************************************************************)
(* How blocks and transactions enter the node (src/vm/gossip.go,           *)
(* src/vm/block_adapter.go, src/unnamed/part_001):                         *)
(*   adder     UnifiedBTCSet.Add, called by the p2p gossip handler for     *)
(*             items pushed or pulled from peers; s.lock serialises the    *)
(*             calls, so one Add is in progress at a time                  *)
(*   relay[b]  the goroutine OnBlockRelay spawns when btcd connects b      *)
(*   engine    VM.ParseBlock of a block's bytes (a peer's Put) and         *)
(*             VM.GetBlock of its ID (a poll naming it), on the consensus  *)
(*             engine thread                                               *)
(*   rpc       a transaction submitted to the mempool over RPC             *)
(* They race on btcd's block index and mempool and on the bloom filter.    *)
(*                                                                         *)
(* The btcd chain and mempool (github.com/MetalBlockchain/btcvm/btcd,      *)
(* outside src/) are modelled from the spec's capability interface and     *)
(* btcd's documented ProcessBlock: a block already in the index or the     *)
(* orphan pool is rejected as a duplicate, a block whose parent is unknown *)
(* becomes an orphan, and connecting a block connects the orphans that     *)
(* descend from it, firing the block-connected callback for each.          *)
(*                                                                         *)
(* Blocks are one peer chain 1..NumBlocks over genesis 0, block b's parent *)
(* being b - 1; which transactions a block includes is abstracted to the   *)
(* mempool losing any of them when a block connects.                       *)
(***************************************************************************)
EXTENDS Integers, FiniteSets, GossipCodec

CONSTANTS
    NumBlocks,        \* length of the peer chain
    Txs,              \* transactions (model values)
    TxMayBeRejected   \* whether ProcessTransaction may reject a transaction

ASSUME NumBlocks \in Nat \ {0} /\ TxMayBeRejected \in BOOLEAN

Genesis == 0
Blocks == 1..NumBlocks

TxItem(t)    == [kind |-> "tx", id |-> t]
BlockItem(b) == [kind |-> "block", id |-> b]
\* A block a peer sends that btcd rejects with a RuleError (bad proof of work,
\* bad merkle root, ...): it is never stored and never an orphan.
BadBlock == NumBlocks + 1

Items == {TxItem(t) : t \in Txs} \cup {BlockItem(b) : b \in Blocks \cup {BadBlock}}

VARIABLES
    stored,    \* blocks in btcd's block index, main and side chains
    orphans,   \* btcd's orphan pool
    mempool,   \* transactions in the btcd mempool
    bloom,     \* items added to s.bloom
    pushed,    \* items handed to vm.pushGossiper.Add
    relay,     \* blocks whose OnBlockRelay goroutine has not run yet
    adder,     \* the UnifiedBTCSet.Add call holding s.lock
    parsed,    \* blocks ParseBlock or GetBlock returned a BlockAdapter for
    accepted,  \* history: transactions the mempool has ever accepted
    gossipPC   \* how far onNormalOperationsStarted's initializeGossip got

vars == <<stored, orphans, mempool, bloom, pushed, relay, adder, parsed,
          accepted, gossipPC>>

AdderPC == {"idle", "process", "mark"}

\* "bootstrap": SetState(NormalOp) has not run, vm.pushGossiper is nil and no
\* handler is registered; "failed": initializeGossip returned an error before
\* vm.pushGossiper was set; "pushSet": vm.pushGossiper is set, AddHandler has
\* not run; "noHandler": AddHandler failed; "up": the handler is registered.
GossipPCs == {"bootstrap", "failed", "pushSet", "noHandler", "up"}

\* vm.pushGossiper != nil (vm.btcSet, written before it, is then set too).
PushGossiperSet == gossipPC \in {"pushSet", "noHandler", "up"}

\* The p2p network routes peers' gossip for BTCGossipHandlerID to Add.
HandlerRegistered == gossipPC = "up"

TypeOK ==
    /\ stored \subseteq {Genesis} \cup Blocks /\ Genesis \in stored
    /\ orphans \subseteq Blocks
    /\ mempool \subseteq Txs
    /\ bloom \subseteq Items
    /\ pushed \subseteq Items
    /\ relay \subseteq Blocks
    /\ adder \in [pc : AdderPC, item : Items]
    /\ parsed \subseteq Blocks
    /\ accepted \subseteq Txs
    /\ gossipPC \in GossipPCs

-----------------------------------------------------------------------------
(* btcd, as the VM sees it.                                                *)

\* chain.HaveBlock: in the block index or a known orphan.
HaveBlock(b) == b \in stored \/ b \in orphans

\* A fault: connecting b without the orphans that were waiting for it.
ConnectChain_NoOrphans(b) ==
    {b}

\* The orphans that connect once b does: the unbroken run above it.
ConnectChain(b) ==
    {b} \cup {c \in orphans : c > b /\ \A d \in (b + 1)..c : d \in orphans}

\* chain.ProcessBlock(b) with outcome r: "dup" (already have block), "invalid"
\* (a RuleError: nothing is kept), "orphan" (parent unknown, kept in the
\* orphan pool) or "ok" (b and the orphans it unblocks are connected; each
\* fires OnBlockRelay, and the mempool drops the transactions they include).
ProcessBlock(b, r) ==
    \/ /\ r = "dup"
       /\ HaveBlock(b)
       /\ UNCHANGED <<stored, orphans, relay, mempool>>
    \/ /\ r = "invalid"
       /\ b = BadBlock
       /\ UNCHANGED <<stored, orphans, relay, mempool>>
    \/ /\ r = "orphan"
       /\ b \in Blocks /\ ~HaveBlock(b) /\ b - 1 \notin stored
       /\ orphans' = orphans \cup {b}
       /\ UNCHANGED <<stored, relay, mempool>>
    \/ /\ r = "ok"
       /\ b \in Blocks /\ ~HaveBlock(b) /\ b - 1 \in stored
       /\ stored' = stored \cup ConnectChain(b)
       /\ orphans' = orphans \ ConnectChain(b)
       /\ relay' = relay \cup ConnectChain(b)
       /\ mempool' \in SUBSET mempool

Idle == [pc |-> "idle", item |-> TxItem(CHOOSE t \in Txs : TRUE)]

-----------------------------------------------------------------------------
(* Plausible faults of the code, each a variant of one action below.       *)

\* Add marking a transaction known although ProcessTransaction failed.
AddProcessTx_MarkOnError ==
    /\ adder.pc = "process" /\ adder.item.kind = "tx"
    /\ LET t == adder.item.id IN
       \/ /\ t \in mempool \/ TxMayBeRejected
          /\ bloom' = bloom \cup {adder.item}
          /\ UNCHANGED <<mempool, accepted, pushed>>
       \/ /\ t \notin mempool
          /\ mempool' = mempool \cup {t}
          /\ accepted' = accepted \cup {t}
          /\ bloom' = bloom \cup {adder.item}
          /\ pushed' = pushed \cup {adder.item}
    /\ adder' = Idle
    /\ UNCHANGED <<stored, orphans, relay, parsed, gossipPC>>

-----------------------------------------------------------------------------
Init ==
    /\ stored = {Genesis}
    /\ orphans = {}
    /\ mempool = {}
    /\ bloom = {}
    /\ pushed = {}
    /\ relay = {}
    /\ adder = Idle
    /\ parsed = {}
    /\ accepted = {}
    /\ gossipPC = "bootstrap"

-----------------------------------------------------------------------------
(* UnifiedBTCSet.Add(item), under s.lock.                                  *)

\* A peer's item arrives. Transactions: HaveTransaction; blocks: HaveBlock.
\* A known item is marked in the bloom filter and Add returns nil.
AddCheck(item) ==
    /\ adder.pc = "idle"
    /\ LET known == IF item.kind = "tx" THEN item.id \in mempool
                                       ELSE HaveBlock(item.id)
       IN  \/ known /\ bloom' = bloom \cup {item} /\ UNCHANGED adder
           \/ ~known /\ adder' = [pc |-> "process", item |-> item]
                     /\ UNCHANGED bloom
    /\ UNCHANGED <<stored, orphans, mempool, pushed, relay, parsed, accepted,
                   gossipPC>>

\* ProcessTransaction: an error (already in the mempool by now, or invalid)
\* is returned without marking the item; on acceptance the item is marked
\* and OnTxRelay hands it to the push gossiper.
AddProcessTx ==
    /\ adder.pc = "process" /\ adder.item.kind = "tx"
    /\ LET t == adder.item.id IN
       \/ /\ t \in mempool \/ TxMayBeRejected
          /\ UNCHANGED <<mempool, accepted, bloom, pushed>>
       \/ /\ t \notin mempool
          /\ mempool' = mempool \cup {t}
          /\ accepted' = accepted \cup {t}
          /\ bloom' = bloom \cup {adder.item}
          /\ pushed' = pushed \cup {adder.item}
    /\ adder' = Idle
    /\ UNCHANGED <<stored, orphans, relay, parsed, gossipPC>>

\* ProcessBlock; its error (duplicate by now, orphan) is logged and dropped.
AddProcessBlock ==
    /\ adder.pc = "process" /\ adder.item.kind = "block"
    /\ LET b == adder.item.id IN
       \E r \in {"dup", "invalid", "orphan", "ok"} :
          /\ ProcessBlock(b, r)
    /\ adder' = [adder EXCEPT !.pc = "mark"]
    /\ UNCHANGED <<bloom, pushed, parsed, accepted, gossipPC>>

\* s.bloom.Add(item) after ProcessBlock, whatever its outcome.
AddMark ==
    /\ adder.pc = "mark"
    /\ bloom' = bloom \cup {adder.item}
    /\ adder' = Idle
    /\ UNCHANGED <<stored, orphans, mempool, pushed, relay, parsed, accepted,
                   gossipPC>>

-----------------------------------------------------------------------------
(* The other actors.                                                       *)

\* The OnBlockRelay goroutine: nothing while vm.pushGossiper is nil (it reads
\* the field without a lock, so it sees whatever initializeGossip has written
\* when it runs); otherwise skip a block already in the bloom filter, and
\* pushGossiper.Add the rest.
RelayRun(b) ==
    /\ b \in relay
    /\ relay' = relay \ {b}
    /\ pushed' = IF PushGossiperSet /\ BlockItem(b) \notin bloom
                  THEN pushed \cup {BlockItem(b)} ELSE pushed
    /\ UNCHANGED <<stored, orphans, mempool, bloom, adder, parsed, accepted,
                   gossipPC>>

\* VM.ParseBlock -> NewBlockAdapterFromBytes: ProcessBlock, failing on its
\* error; then BlockByHashAny, failing for an orphan (not in the index).
ParseBlock(b) ==
    /\ \E r \in {"dup", "orphan", "ok"} :
          /\ ProcessBlock(b, r)
          /\ parsed' = IF r = "ok" THEN parsed \cup {b} ELSE parsed
    /\ UNCHANGED <<bloom, pushed, adder, accepted, gossipPC>>

\* VM.GetBlock -> NewBlockAdapterFromID -> NewBlockAdapterFromHash: the
\* engine looks up a block it lacks by ID; BlockByHashAny finds blocks of
\* the index (main or side chain) but not orphans, and NewBlockAdapter
\* wraps it.
GetBlock(b) ==
    /\ b \notin parsed /\ b \in stored
    /\ parsed' = parsed \cup {b}
    /\ UNCHANGED <<stored, orphans, mempool, bloom, pushed, relay, adder,
                   accepted, gossipPC>>

\* A transaction submitted over RPC enters the mempool.
SubmitTx(t) ==
    /\ t \notin mempool
    /\ mempool' = mempool \cup {t}
    /\ accepted' = accepted \cup {t}
    /\ UNCHANGED <<stored, orphans, bloom, pushed, relay, adder, parsed,
                   gossipPC>>

\* SetState(NormalOp) -> onNormalOperationsStarted -> initializeGossip, up to
\* vm.pushGossiper = pushGossiper. NewBloomFilter, NewMetrics,
\* InitializeValidators (an error when the host context or its
\* ValidatorState is missing) and NewPushGossiper may each return an error
\* first; vm.btcSet is written between them. The engine makes the call once
\* bootstrapping is done, so it gets no fairness.
InitializeGossip ==
    /\ gossipPC = "bootstrap"
    /\ gossipPC' \in {"failed", "pushSet"}
    /\ UNCHANGED <<stored, orphans, mempool, bloom, pushed, relay, adder,
                   parsed, accepted>>

\* The rest of initializeGossip: NewPullGossiper, then p2pNetwork.AddHandler,
\* which may fail; vm.pushGossiper stays set either way.
RegisterHandler ==
    /\ gossipPC = "pushSet"
    /\ gossipPC' \in {"noHandler", "up"}
    /\ UNCHANGED <<stored, orphans, mempool, bloom, pushed, relay, adder,
                   parsed, accepted>>

-----------------------------------------------------------------------------
Adder == AddProcessTx \/ AddProcessBlock \/ AddMark

\* metalgo's gossip handler receiving a message from a peer, once AddHandler
\* has registered it: it calls UnmarshalGossip and hands a decoded item to
\* Add; it drops the rest.
Receive(m) ==
    LET r == UnmarshalGossip(m) IN HandlerRegistered /\ r.ok /\ AddCheck(r.item)

Next ==
    \/ \E m \in WireMessages(Items) : Receive(m)
    \/ Adder
    \/ \E b \in Blocks : RelayRun(b) \/ ParseBlock(b) \/ GetBlock(b)
    \/ \E t \in Txs : SubmitTx(t)
    \/ InitializeGossip
    \/ RegisterHandler

\* The Add holding s.lock and every relay goroutine run to completion; the
\* engine keeps asking for each block of the chain the network accepts
\* until it has it: peers keep sending its bytes, and its polls keep naming
\* its ID, which the engine looks up with GetBlock. Peers and RPC clients
\* need not send anything.
Fairness ==
    /\ WF_vars(Adder)
    /\ WF_vars(RegisterHandler)
    /\ \A b \in Blocks : WF_vars(RelayRun(b))
    /\ \A b \in Blocks : WF_vars(ParseBlock(b))
    /\ \A b \in Blocks : WF_vars(GetBlock(b))

Spec == Init /\ [][Next]_vars /\ Fairness

-----------------------------------------------------------------------------
(* Properties.                                                             *)

\* Spec sections 4.2 and 7: a transaction is marked known in the bloom filter
\* only once the mempool has accepted it, so that a transaction that failed
\* validation is not suppressed when it is resent. Add's HaveTransaction check
\* and its ProcessTransaction are separate steps, and an RPC submission of the
\* same transaction may land between them; ProcessTransaction's error must
\* then leave the item unmarked, while the known-item early return marks it.
\* (Blocks are marked whatever ProcessBlock says, RuleErrors included, as the
\* spec intends.)
KnownTxAccepted ==
    \A t \in Txs : TxItem(t) \in bloom => t \in accepted

\* The host engine gets every block of the chain, in order, whatever gossip
\* did first: when ParseBlock of its bytes fails because Add stored the block
\* (or left it an orphan), the engine still finds it by ID with GetBlock.
EngineGetsBlocks ==
    \A b \in Blocks : (b - 1 \in parsed \cup {Genesis}) ~> (b \in parsed)

=============================================================================
