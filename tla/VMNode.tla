------------------------------- MODULE VMNode -------------------------------
(***************************************************************************)
(* One node's VM over its whole life (src/unnamed/part_001, part_002,      *)
(* src/vm/block_adapter.go, src/vm/gossip.go, src/vm/gossip_item.go):      *)
(*   lifecycle  Initialize, SetState(NormalOp) starting the push and pull  *)
(*              gossip loops, Shutdown cancelling and joining them, and a  *)
(*              crash at any point followed by a restart                   *)
(*   btcd       its block index and best chain, which it picks itself by   *)
(*              most work (here: greatest height, first seen on a tie)     *)
(*              for every block ProcessBlock stores, from ParseBlock,      *)
(*              BuildBlock or gossip's Add; it survives a restart          *)
(*   the VM     lastAccepted and preferred, written by Accept and          *)
(*              SetPreference and, on Initialize, from btcd's best block   *)
(*   the engine the Snowman engine's processing blocks and its decisions;  *)
(*              Accept of a block rejects its competitors, and Reject is   *)
(*              only logged by the VM                                      *)
(*                                                                         *)
(* The host (metalgo's chain manager) calls Initialize once per process,   *)
(* SetState(StateSyncing or Bootstrapping) before SetState(NormalOp), and  *)
(* NormalOp once; it calls Shutdown once and nothing after it. The         *)
(* earlier SetStates only clear the already clear bootstrapped flag, so    *)
(* they are left out, and so are the returns for a second Initialize, a    *)
(* second NormalOp and a second Shutdown, which this host never makes.     *)
(*                                                                         *)
(* Blocks are a fixed tree: Parent maps each block but Genesis to its      *)
(* parent. BuildBlock builds on btcd's best block, with the content of the *)
(* child the tree gives it.                                                *)
(***************************************************************************)
EXTENDS Integers, FiniteSets, GossipConfig

CONSTANTS
    Blocks,    \* every block that can ever exist, Genesis included
    Genesis,   \* the genesis block, stored from the start
    Parent     \* Parent[b]: the parent of block b # Genesis

ASSUME Genesis \in Blocks /\ Parent \in [Blocks \ {Genesis} -> Blocks]

\* The goroutines startGossipLoops starts.
GossipLoops == {"push", "pull"}

\* The height of a block: its distance from Genesis.
RECURSIVE Height(_)
Height(b) == IF b = Genesis THEN 0 ELSE 1 + Height(Parent[b])

\* The chain from Genesis to b, both included.
RECURSIVE Chain(_)
Chain(b) == IF b = Genesis THEN {b} ELSE {b} \cup Chain(Parent[b])

\* a is b or one of its ancestors.
Extends(b, a) == a \in Chain(b)

VARIABLES
    stored,        \* btcd's block index (main and side chains)
    tip,           \* btcd's best block (BestSnapshot)
    lastAccepted,  \* vm.lastAccepted
    preferred,     \* vm.preferred
    processing,    \* blocks the engine has issued and not yet decided
    accepted,      \* history: blocks the engine (the network) has accepted
    initialized,   \* vm.initialized: the process is up and Initialize returned
    bootstrapped,  \* vm.bootstrapped
    cancelSet,     \* vm.cancel != nil
    ctxCancelled,  \* vm.gossipCtx has been cancelled
    loops,         \* loops[l]: the gossip loop goroutine l
    shutdownPC,    \* Shutdown: not called, waiting on shutdownWg, returned
    stopped,       \* vm.stopped
    config         \* vm.gossipConfig, as Initialize accepted it

chainVars == <<stored, tip, lastAccepted, preferred, processing, accepted>>
lifeVars == <<initialized, bootstrapped, cancelSet, ctxCancelled, loops,
              shutdownPC, stopped, config>>
vars == <<chainVars, lifeVars>>

TypeOK ==
    /\ stored \subseteq Blocks /\ Genesis \in stored
    /\ tip \in stored
    /\ lastAccepted \in stored /\ preferred \in stored
    /\ processing \subseteq stored
    /\ accepted \subseteq stored
    /\ initialized \in BOOLEAN /\ bootstrapped \in BOOLEAN
    /\ cancelSet \in BOOLEAN /\ ctxCancelled \in BOOLEAN
    /\ loops \in [GossipLoops -> {"none", "running", "done"}]
    /\ shutdownPC \in {"idle", "waiting", "done"}
    /\ stopped \in BOOLEAN
    /\ config \in ProbeConfigs

-----------------------------------------------------------------------------
(* btcd, as the VM sees it.                                                *)

\* chain.ProcessBlock(b) for a block whose parent is stored: stores it and
\* makes it the best block when it has more work than the current one.
Connect(b) ==
    /\ stored' = stored \cup {b}
    /\ tip' = IF Height(b) > Height(tip) THEN b ELSE tip

\* chain.BlockHashByHeight(int32(height)): the main chain's block at h. The
\* model's heights are far below 2^31, where int32 is the identity; TLC's own
\* integers are 32-bit, so the wrap itself cannot be represented here.
GetBlockIDAtHeight(h) == CHOOSE b \in Chain(tip) : Height(b) = h

\* vm.getCurrentBlock: btcd's best block (BestSnapshot, then BlockByHash).
GetCurrentBlock == tip

\* The engine issues a block whose parent it knows: a processing block or
\* its last accepted one. A block under any other parent is dropped.
Issue(b) ==
    processing' = IF Parent[b] \in processing \cup {lastAccepted}
                  THEN processing \cup {b} ELSE processing

\* The engine calls into the VM between Initialize and Shutdown.
EngineCalls == initialized /\ shutdownPC = "idle"

\* A VM as Go's zero values leave it, before Initialize.
FreshVM ==
    /\ bootstrapped' = FALSE
    /\ cancelSet' = FALSE
    /\ ctxCancelled' = FALSE
    /\ loops' = [l \in GossipLoops |-> "none"]
    /\ shutdownPC' = "idle"
    /\ stopped' = FALSE

-----------------------------------------------------------------------------
(* Plausible faults of the code, each a variant of one action below.       *)

\* Initialize leaving lastAccepted and preferred at Genesis, as when
\* BestSnapshot returns nothing.
Initialize_Empty(c) ==
    /\ ~initialized
    /\ Validate(c) = "ok"
    /\ config' = c
    /\ initialized' = TRUE
    /\ lastAccepted' = Genesis
    /\ preferred' = Genesis
    /\ FreshVM
    /\ UNCHANGED <<stored, tip, processing, accepted>>

\* BuildBlock returning the adapter of its template without handing the
\* block to ProcessBlockNoPoW.
BuildBlock_Unstored ==
    /\ EngineCalls /\ bootstrapped
    /\ \E b \in Blocks \ stored :
          /\ b # Genesis /\ Parent[b] = GetCurrentBlock
          /\ Issue(b)
    /\ UNCHANGED <<stored, tip, lastAccepted, preferred, accepted, lifeVars>>

\* Shutdown without its call to vm.cancel().
ShutdownStart_NoCancel ==
    /\ EngineCalls
    /\ shutdownPC' = "waiting"
    /\ UNCHANGED <<chainVars, initialized, bootstrapped, cancelSet,
                   ctxCancelled, loops, stopped, config>>

-----------------------------------------------------------------------------
\* The first Initialize, on a fresh database: btcd holds only Genesis.
Init ==
    /\ stored = {Genesis}
    /\ tip = Genesis
    /\ lastAccepted = Genesis
    /\ preferred = Genesis
    /\ processing = {}
    /\ accepted = {Genesis}
    /\ initialized = TRUE
    /\ bootstrapped = FALSE
    /\ cancelSet = FALSE
    /\ ctxCancelled = FALSE
    /\ loops = [l \in GossipLoops |-> "none"]
    /\ shutdownPC = "idle"
    /\ stopped = FALSE
    /\ config \in {c \in ProbeConfigs : Validate(c) = "ok"}

(* The lifecycle.                                                          *)

\* VM.Initialize after a restart, with the node's gossip configuration c
\* (the defaults, or the defaults with one field set at or beyond an edge):
\* Initialize fails unless GossipConfig.Validate accepts c;
\* lastAccepted and preferred are set from btcd's BestSnapshot; the engine
\* resumes from LastAccepted. Its I/O failures (genesis, btcd, p2p) leave
\* the process down, as a crash does.
Initialize(c) ==
    /\ ~initialized
    /\ Validate(c) = "ok"
    /\ config' = c
    /\ initialized' = TRUE
    /\ lastAccepted' = tip
    /\ preferred' = tip
    /\ FreshVM
    /\ UNCHANGED <<stored, tip, processing, accepted>>

\* initializeGossip, then startGossipLoops: any of its steps (the bloom
\* filter, the handler's registration with the p2p network, ...) may fail,
\* and then no loop starts; otherwise both loops join shutdownWg and run.
StartGossip ==
    \/ loops' = [l \in GossipLoops |-> "running"]
    \/ UNCHANGED loops

\* SetState(NormalOp), the first time: bootstrapped is set, then
\* onNormalOperationsStarted makes a new gossipCtx and vm.cancel and starts
\* gossip; on success initBlockBuilding starts the builder (BlockBuilder),
\* whose goroutines are not in shutdownWg.
SetStateNormalOp ==
    /\ EngineCalls /\ ~bootstrapped
    /\ bootstrapped' = TRUE
    /\ cancelSet' = TRUE
    /\ ctxCancelled' = FALSE
    /\ StartGossip
    /\ UNCHANGED <<chainVars, initialized, shutdownPC, stopped, config>>

\* gossip.Every returns once gossipCtx is cancelled; shutdownWg.Done.
LoopExit(l) ==
    /\ loops[l] = "running" /\ ctxCancelled
    /\ loops' = [loops EXCEPT ![l] = "done"]
    /\ UNCHANGED <<chainVars, initialized, bootstrapped, cancelSet,
                   ctxCancelled, shutdownPC, stopped, config>>

\* VM.Shutdown up to shutdownWg.Wait(): vm.cancel() if it is set, the btcd
\* adapter stopped, shutdownChan closed.
ShutdownStart ==
    /\ EngineCalls
    /\ ctxCancelled' = (ctxCancelled \/ cancelSet)
    /\ shutdownPC' = "waiting"
    /\ UNCHANGED <<chainVars, initialized, bootstrapped, cancelSet, loops,
                   stopped, config>>

\* shutdownWg.Wait() returns once no loop runs; vm.stopped = true.
ShutdownWait ==
    /\ shutdownPC = "waiting"
    /\ \A l \in GossipLoops : loops[l] # "running"
    /\ shutdownPC' = "done"
    /\ stopped' = TRUE
    /\ UNCHANGED <<chainVars, initialized, bootstrapped, cancelSet,
                   ctxCancelled, loops, config>>

\* The process stops, at any point (also after Shutdown, when it exits):
\* the VM's fields, its goroutines and the engine's processing set are
\* lost; btcd's database is not.
Crash ==
    /\ initialized
    /\ initialized' = FALSE
    /\ processing' = {}
    /\ FreshVM
    /\ UNCHANGED <<stored, tip, lastAccepted, preferred, accepted, config>>

(* The engine's calls.                                                     *)

\* VM.ParseBlock of a new block whose parent btcd has (ProcessBlock, then
\* BlockByHashAny); the engine issues the adapter. Duplicates and orphans
\* fail and change nothing (see GossipSet).
ParseBlock(b) ==
    /\ EngineCalls
    /\ b \notin stored /\ Parent[b] \in stored
    /\ Connect(b)
    /\ Issue(b)
    /\ UNCHANGED <<lastAccepted, preferred, accepted, lifeVars>>

\* UnifiedBTCSet.Add of a peer's block: ProcessBlock stores it; the engine
\* does not hear of it. The gossip handler exists once NormalOp set it up.
GossipAdd(b) ==
    /\ EngineCalls /\ bootstrapped
    /\ b \notin stored /\ Parent[b] \in stored
    /\ Connect(b)
    /\ UNCHANGED <<lastAccepted, preferred, processing, accepted, lifeVars>>

\* VM.GetBlock of a block the engine does not have, whose ID a poll names:
\* NewBlockAdapterFromID finds any block of btcd's index (BlockByHashAny),
\* and the engine issues the adapter. This is how blocks gossip stored
\* reach the engine.
GetBlock(b) ==
    /\ EngineCalls
    /\ b \in stored \ (processing \cup accepted)
    /\ Issue(b)
    /\ UNCHANGED <<stored, tip, lastAccepted, preferred, accepted, lifeVars>>

\* VM.BuildBlock, in normal operation: getCurrentBlock reads btcd's best
\* block, the template is built on it and ProcessBlockNoPoW connects the
\* result; the engine issues the adapter BuildBlock returns.
BuildBlock ==
    /\ EngineCalls /\ bootstrapped
    /\ \E b \in Blocks \ stored :
          /\ b # Genesis /\ Parent[b] = GetCurrentBlock
          /\ Connect(b)
          /\ Issue(b)
    /\ UNCHANGED <<lastAccepted, preferred, accepted, lifeVars>>

\* VM.SetPreference: the engine prefers a processing block, or its last
\* accepted one when none is processing.
SetPreference(b) ==
    /\ EngineCalls
    /\ b \in processing \cup {lastAccepted}
    /\ preferred' = b
    /\ UNCHANGED <<stored, tip, lastAccepted, processing, accepted, lifeVars>>

\* BlockAdapter.Accept of a processing child of the last accepted block,
\* under blocksMu; the engine then rejects (BlockAdapter.Reject, which only
\* logs) every processing block that does not descend from it.
Accept(b) ==
    /\ EngineCalls
    /\ b \in processing /\ Parent[b] = lastAccepted
    /\ lastAccepted' = b
    /\ preferred' = b
    /\ accepted' = accepted \cup {b}
    /\ processing' = {c \in processing : c # b /\ Extends(c, b)}
    /\ UNCHANGED <<stored, tip, lifeVars>>

Next ==
    \/ \E c \in ProbeConfigs : Initialize(c)
    \/ SetStateNormalOp \/ ShutdownStart \/ ShutdownWait \/ Crash
    \/ \E l \in GossipLoops : LoopExit(l)
    \/ BuildBlock
    \/ \E b \in Blocks \ {Genesis} :
          ParseBlock(b) \/ GossipAdd(b) \/ GetBlock(b) \/ Accept(b)
    \/ \E b \in Blocks : SetPreference(b)

\* Go runs the gossip loops and Shutdown's wait once they can proceed. The
\* host, the engine's calls and crashes get no fairness.
Spec ==
    /\ Init /\ [][Next]_vars
    /\ \A l \in GossipLoops : WF_vars(LoopExit(l))
    /\ WF_vars(ShutdownWait)

-----------------------------------------------------------------------------
(* Properties.                                                             *)

\* The last accepted block never moves back towards Genesis, not even over
\* a crash and the Initialize that re-reads it from btcd's best block.
LastAcceptedNeverRegresses ==
    [][Height(lastAccepted') >= Height(lastAccepted)]_vars

\* Spec section 2 (gossip configuration): a VM that is up runs with a
\* configuration whose fractions lie in [0,1], counts are non-negative,
\* durations and filter size positive and filter rates in (0,1), because
\* Initialize refuses any other (GossipConfig.Validate).
RunningConfigValid ==
    initialized => \A f \in FieldSet : SpecValidField(config, f)

\* Spec section 5 (loops are preemptible by shutdown): Shutdown's shutdownWg.Wait returns, because
\* the cancel it calls first ends both gossip loops, whether or not
\* SetState(NormalOp) ran and whether or not initializeGossip failed.
ShutdownCompletes ==
    shutdownPC = "waiting" ~> (shutdownPC = "done" \/ ~initialized)

\* Spec section 1 (the adapter keeps the ledger and consensus consistent),
\* and the contract of GetBlockIDAtHeight: for every height up to the last
\* accepted one, btcd's main chain has the block consensus accepted. It is
\* at risk across a restart: ParseBlock connects a block to btcd's main
\* chain before consensus decides on it, and Initialize after a crash takes
\* btcd's best block as lastAccepted without consensus ever accepting it.
AcceptedHeightsOnMainChain ==
    initialized =>
        \A h \in 0..Height(lastAccepted) : GetBlockIDAtHeight(h) \in accepted

=============================================================================
