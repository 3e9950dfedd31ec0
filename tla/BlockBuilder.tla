---------------------------- MODULE BlockBuilder ----------------------------
(***************************************************************************)
(* The event-driven block builder of the VM (blockBuilder in               *)
(* vm/block_builder.go, src/unnamed/part_003) together with the VM entry   *)
(* points that drive it (BuildBlock, WaitForEvent, Shutdown in vm/vm.go,   *)
(* src/unnamed/part_001).                                                  *)
(*                                                                         *)
(* Goroutines modelled:                                                    *)
(*   listener   awaitTxSubmissions: drains txSubmitChan, signalCanBuild    *)
(*   sched[s]   one scheduleBlockBuild goroutine per slot s                *)
(*   engine     the host engine thread running BuildBlock                  *)
(*   waiter     the host engine's notifier calling WaitForEvent            *)
(*   bridge     the goroutine waitForNeedToBuild spawns to turn            *)
(*              pendingSignal.Wait() into a channel close                  *)
(* and the environment: the mempool accepting transactions (onTxAccepted), *)
(* peer blocks moving the chain tip, context cancellation, the clock and   *)
(* Shutdown.                                                               *)
(*                                                                         *)
(* Data is abstracted: the mempool is the number of mining descriptors,    *)
(* a block hash is the height of the block on the best chain, time is the  *)
(* number of ticks since lastBuildTime (saturating at TargetBlockTime,     *)
(* beyond which every delay is zero), and a timer is a countdown.          *)
(***************************************************************************)
EXTENDS Integers, FiniteSets

CONSTANTS
    MaxMempool,          \* bound on the mining descriptors in the mempool
    MaxHeight,           \* bound on the height of the best chain
    TxSubmitChannelSize, \* capacity of txSubmitChan (1024 in the code)
    ToEngineSize,        \* capacity of the toEngine channel
    RetryDelay,          \* RetryDelay (100ms), in ticks
    TargetBlockTime,     \* TargetBlockTime (2s), in ticks
    SchedSlots,          \* bound: goroutines scheduleBlockBuild may run at once
    CurrentBlockMayFail, \* whether getCurrentBlock may return an error
    WaitForEventUsed     \* whether the host engine calls WaitForEvent instead of
                         \* reading toEngine; the engine of metalgo v1.12.2
                         \* (go.mod) reads toEngine only

ASSUME
    /\ MaxMempool \in Nat /\ MaxHeight \in Nat
    /\ TxSubmitChannelSize \in Nat \ {0} /\ ToEngineSize \in Nat \ {0}
    /\ RetryDelay \in Nat \ {0} /\ TargetBlockTime \in Nat
    /\ RetryDelay < TargetBlockTime
    /\ SchedSlots # {}
    /\ CurrentBlockMayFail \in BOOLEAN
    /\ WaitForEventUsed \in BOOLEAN

NoBuild == -1   \* lastBuildTime.IsZero(): no build attempt recorded yet

VARIABLES
    mempool,         \* len(mempool.MiningDescs())
    tip,             \* chain.BestSnapshot().Hash, as a height
    txSubmitChan,    \* buffered signals in b.txSubmitChan
    hasPendingTxs,   \* b.hasPendingTxs
    lastBuildParent, \* b.lastBuildParentHash, NoBuild while lastBuildTime is zero
    elapsed,         \* time.Now() - b.lastBuildTime, saturating at TargetBlockTime
    listener,        \* control point of awaitTxSubmissions
    sched,           \* sched[s]: control point and timer of a scheduleBlockBuild goroutine
    toEngine,        \* messages buffered in vm.toEngine
    engine,          \* control point of BuildBlock on the engine thread
    waiter,          \* control point of WaitForEvent
    waiterTimer,     \* the timer of waitForEvent's STEP 4
    ctxDone,         \* ctx.Done() of the current WaitForEvent call is closed
    bridge,          \* state of the condition-wait goroutine of waitForNeedToBuild
    waiterMsg,       \* PendingTxs returned by WaitForEvent: none, pending, or building
    shutdown,        \* vm.shutdownChan is closed
    initBB           \* control point of initBlockBuilding in SetState(NormalOp)

vars == <<mempool, tip, txSubmitChan, hasPendingTxs, lastBuildParent,
          elapsed, listener, sched, toEngine, engine, waiter, waiterTimer,
          ctxDone, bridge, waiterMsg, shutdown, initBB>>

SchedPC   == {"free", "start", "sleep", "check", "clear"}
EnginePC  == {"idle", "retrigger", "spawn", "template", "clear"}
WaiterPC  == {"idle", "check", "select", "join", "delay", "sleep", "deliver"}
BridgePC  == {"none", "lock", "waiting", "closed"}

TypeOK ==
    /\ mempool \in 0..MaxMempool
    /\ tip \in 0..MaxHeight
    /\ txSubmitChan \in 0..TxSubmitChannelSize
    /\ hasPendingTxs \in BOOLEAN
    /\ lastBuildParent \in {NoBuild} \cup 0..MaxHeight
    /\ elapsed \in 0..TargetBlockTime
    /\ listener \in {"recv", "signal", "spawn", "exited"}
    /\ sched \in [SchedSlots -> [pc : SchedPC, timer : 0..TargetBlockTime]]
    /\ toEngine \in 0..ToEngineSize
    /\ engine \in EnginePC
    /\ waiter \in WaiterPC
    /\ waiterTimer \in 0..TargetBlockTime
    /\ ctxDone \in BOOLEAN
    /\ bridge \in BridgePC
    /\ waiterMsg \in {"none", "pending", "building"}
    /\ shutdown \in BOOLEAN
    /\ initBB \in {"check", "signal", "spawn", "done"}

-----------------------------------------------------------------------------
(* Helpers translated from the code.                                       *)

\* needToBuild: the mempool has mining descriptors.
needToBuild == mempool > 0

\* calculateBuildingDelay(currentBlockHash): zero before the first attempt,
\* RetryDelay after lastBuildTime when the tip is the last attempt's parent,
\* TargetBlockTime after it otherwise; never negative.
calculateBuildingDelay(cur) ==
    IF lastBuildParent = NoBuild THEN 0
    ELSE LET wait == IF lastBuildParent = cur THEN RetryDelay ELSE TargetBlockTime
         IN  IF wait > elapsed THEN wait - elapsed ELSE 0

\* pendingSignal.Broadcast(): wakes the bridge goroutine if it is already
\* parked in Wait(); it re-locks, closes `signaled` and exits (no step holds
\* b.lock across another, so nothing can come between). A broadcast before
\* the bridge parks is lost.
Broadcast == bridge' = IF bridge = "waiting" THEN "closed" ELSE bridge

\* go b.scheduleBlockBuild(): a fresh goroutine in a free slot.
SpawnScheduler ==
    \E s \in SchedSlots :
        /\ sched[s].pc = "free"
        /\ sched' = [sched EXCEPT ![s] = [pc |-> "start", timer |-> 0]]

\* The check-and-set half of signalCanBuild, done under b.lock. The caller
\* continues at `spawn` when the flag was clear and at `done` when it was set.
SignalSet(pc, spawn, done) ==
    /\ hasPendingTxs' = TRUE
    /\ pc' = IF hasPendingTxs THEN done ELSE spawn

\* The other half of signalCanBuild, after the unlock: Broadcast, then
\* go scheduleBlockBuild.
SignalSpawn == Broadcast /\ SpawnScheduler

\* BuildBlock returns: the engine has handled a PendingTxs that came from
\* WaitForEvent, so the notifier may call WaitForEvent again.
BuildBlockReturns ==
    waiterMsg' = IF waiterMsg = "building" THEN "none" ELSE waiterMsg

-----------------------------------------------------------------------------
(* Plausible faults of the code, each a variant of one action below; the   *)
(* checks of the passing runs must reject them.                            *)

\* scheduleBlockBuild blocking on `b.vm.toEngine <- common.PendingTxs`.
SchedCheck_Blocking(s) ==
    /\ sched[s].pc = "check"
    /\ \/ ~needToBuild /\ sched' = [sched EXCEPT ![s].pc = "clear"] /\ UNCHANGED toEngine
       \/ /\ needToBuild /\ toEngine < ToEngineSize
          /\ sched' = [sched EXCEPT ![s].pc = "free"] /\ toEngine' = toEngine + 1
    /\ UNCHANGED <<mempool, tip, txSubmitChan, hasPendingTxs, lastBuildParent,
                   elapsed, listener, engine, waiter, waiterTimer, ctxDone,
                   bridge, waiterMsg, shutdown, initBB>>

\* scheduleBlockBuild returning on !needToBuild without clearing the flag.
SchedClear_Skip(s) ==
    /\ sched[s].pc = "clear"
    /\ sched' = [sched EXCEPT ![s].pc = "free"]
    /\ UNCHANGED <<mempool, tip, txSubmitChan, hasPendingTxs, lastBuildParent,
                   elapsed, listener, toEngine, engine, waiter, waiterTimer,
                   ctxDone, bridge, waiterMsg, shutdown, initBB>>

-----------------------------------------------------------------------------
\* SetState(NormalOp) has just run onNormalOperationsStarted and, in
\* initBlockBuilding, started awaitTxSubmissions. onTxAccepted has been the
\* mempool's callback since Initialize, so transactions accepted before
\* normal operation may wait in the mempool and their signals in
\* txSubmitChan (whether or not a block has since included them).
Init ==
    /\ mempool \in 0..MaxMempool
    /\ tip = 0
    /\ txSubmitChan \in 0..TxSubmitChannelSize
    /\ hasPendingTxs = FALSE
    /\ lastBuildParent = NoBuild
    /\ elapsed = 0
    /\ listener = "recv"
    /\ sched = [s \in SchedSlots |-> [pc |-> "free", timer |-> 0]]
    /\ toEngine = 0
    /\ engine = "idle"
    /\ waiter = "idle"
    /\ waiterTimer = 0
    /\ ctxDone = FALSE
    /\ bridge = "none"
    /\ waiterMsg = "none"
    /\ shutdown = FALSE
    /\ initBB = "check"

-----------------------------------------------------------------------------
(* Environment.                                                            *)

\* The mempool accepts a transaction and calls onTxAccepted, which sends on
\* txSubmitChan without blocking and drops the signal when it is full.
TxAccepted ==
    /\ ~shutdown
    /\ mempool < MaxMempool
    /\ mempool' = mempool + 1
    /\ txSubmitChan' = IF txSubmitChan < TxSubmitChannelSize
                       THEN txSubmitChan + 1 ELSE txSubmitChan
    /\ UNCHANGED <<tip, hasPendingTxs, lastBuildParent, elapsed, listener, sched,
                   toEngine, engine, waiter, waiterTimer, ctxDone, bridge,
                   waiterMsg, shutdown, initBB>>

\* A block from a peer (gossip Add or ParseBlock -> ProcessBlock) becomes the
\* new tip; the mempool drops the transactions it includes.
PeerBlock ==
    /\ ~shutdown
    /\ tip < MaxHeight
    /\ tip' = tip + 1
    /\ mempool' \in 0..mempool
    /\ UNCHANGED <<txSubmitChan, hasPendingTxs, lastBuildParent, elapsed,
                   listener, sched, toEngine, engine, waiter, waiterTimer,
                   ctxDone, bridge, waiterMsg, shutdown, initBB>>

\* The engine cancels the context of the WaitForEvent call in progress. It is
\* read only at the two selects, so a cancellation is placed at them.
CancelWait ==
    /\ waiter \in {"select", "sleep"}
    /\ ~ctxDone
    /\ ctxDone' = TRUE
    /\ UNCHANGED <<mempool, tip, txSubmitChan, hasPendingTxs,
                   lastBuildParent, elapsed, listener, sched, toEngine, engine,
                   waiter, waiterTimer, bridge, waiterMsg, shutdown, initBB>>

\* Time passes while a timer runs or lastBuildTime is recent.
Tick ==
    /\ \/ \E s \in SchedSlots : sched[s].pc = "sleep" /\ sched[s].timer > 0
       \/ waiter = "sleep" /\ waiterTimer > 0
       \/ lastBuildParent # NoBuild /\ elapsed < TargetBlockTime
    /\ elapsed' = IF elapsed < TargetBlockTime THEN elapsed + 1 ELSE elapsed
    /\ sched' = [s \in SchedSlots |->
                   IF sched[s].pc = "sleep" /\ sched[s].timer > 0
                   THEN [sched[s] EXCEPT !.timer = @ - 1] ELSE sched[s]]
    /\ waiterTimer' = IF waiter = "sleep" /\ waiterTimer > 0
                      THEN waiterTimer - 1 ELSE waiterTimer
    /\ UNCHANGED <<mempool, tip, txSubmitChan, hasPendingTxs,
                   lastBuildParent, listener, toEngine, engine, waiter, ctxDone,
                   bridge, waiterMsg, shutdown, initBB>>

\* Shutdown: cancel gossip, stop btcd, close(vm.shutdownChan).
Shutdown ==
    /\ ~shutdown
    /\ initBB = "done"
    /\ shutdown' = TRUE
    /\ UNCHANGED <<mempool, tip, txSubmitChan, hasPendingTxs,
                   lastBuildParent, elapsed, listener, sched, toEngine, engine,
                   waiter, waiterTimer, ctxDone, bridge, waiterMsg, initBB>>

-----------------------------------------------------------------------------
(* The rest of initBlockBuilding, racing the listener it has just started. *)

\* Check for existing transactions in the mempool.
InitCheck ==
    /\ initBB = "check"
    /\ initBB' = IF needToBuild THEN "signal" ELSE "done"
    /\ UNCHANGED <<mempool, tip, txSubmitChan, hasPendingTxs, lastBuildParent,
                   elapsed, listener, sched, toEngine, engine, waiter,
                   waiterTimer, ctxDone, bridge, waiterMsg, shutdown>>

InitSignal ==
    /\ initBB = "signal"
    /\ SignalSet(initBB, "spawn", "done")
    /\ UNCHANGED <<mempool, tip, txSubmitChan, lastBuildParent, elapsed,
                   listener, sched, toEngine, engine, waiter, waiterTimer,
                   ctxDone, bridge, waiterMsg, shutdown>>

InitSpawn ==
    /\ initBB = "spawn"
    /\ SignalSpawn
    /\ initBB' = "done"
    /\ UNCHANGED <<mempool, tip, txSubmitChan, hasPendingTxs,
                   lastBuildParent, elapsed, listener, toEngine, engine, waiter,
                   waiterTimer, ctxDone, waiterMsg, shutdown>>

-----------------------------------------------------------------------------
(* awaitTxSubmissions and the signalCanBuild calls it makes.               *)

ListenerRecv ==
    /\ listener = "recv"
    /\ \/ /\ txSubmitChan > 0
          /\ txSubmitChan' = txSubmitChan - 1
          /\ listener' = "signal"
       \/ /\ shutdown
          /\ listener' = "exited"
          /\ UNCHANGED txSubmitChan
    /\ UNCHANGED <<mempool, tip, hasPendingTxs, lastBuildParent, elapsed,
                   sched, toEngine, engine, waiter, waiterTimer, ctxDone, bridge,
                   waiterMsg, shutdown, initBB>>

ListenerSignal ==
    /\ listener = "signal"
    /\ SignalSet(listener, "spawn", "recv")
    /\ UNCHANGED <<mempool, tip, txSubmitChan, lastBuildParent, elapsed,
                   sched, toEngine, engine, waiter, waiterTimer, ctxDone, bridge,
                   waiterMsg, shutdown, initBB>>

ListenerSpawn ==
    /\ listener = "spawn"
    /\ SignalSpawn
    /\ listener' = "recv"
    /\ UNCHANGED <<mempool, tip, txSubmitChan, hasPendingTxs,
                   lastBuildParent, elapsed, toEngine, engine, waiter, waiterTimer,
                   ctxDone, waiterMsg, shutdown, initBB>>

-----------------------------------------------------------------------------
(* scheduleBlockBuild, one goroutine per slot.                             *)

\* getCurrentBlock, then calculateBuildingDelay; an error clears the flag and
\* ends the goroutine.
SchedStart(s) ==
    /\ sched[s].pc = "start"
    /\ \/ /\ CurrentBlockMayFail
          /\ hasPendingTxs' = FALSE
          /\ sched' = [sched EXCEPT ![s] = [pc |-> "free", timer |-> 0]]
       \/ LET delay == calculateBuildingDelay(tip) IN
          /\ sched' = [sched EXCEPT ![s] = IF delay > 0
                                           THEN [pc |-> "sleep", timer |-> delay]
                                           ELSE [pc |-> "check", timer |-> 0]]
          /\ UNCHANGED hasPendingTxs
    /\ UNCHANGED <<mempool, tip, txSubmitChan, lastBuildParent, elapsed,
                   listener, toEngine, engine, waiter, waiterTimer, ctxDone,
                   bridge, waiterMsg, shutdown, initBB>>

\* select on timer.C and b.shutdownChan.
SchedSleep(s) ==
    /\ sched[s].pc = "sleep"
    /\ \/ sched[s].timer = 0 /\ sched' = [sched EXCEPT ![s].pc = "check"]
       \/ shutdown /\ sched' = [sched EXCEPT ![s] = [pc |-> "free", timer |-> 0]]
    /\ UNCHANGED <<mempool, tip, txSubmitChan, hasPendingTxs,
                   lastBuildParent, elapsed, listener, toEngine, engine, waiter,
                   waiterTimer, ctxDone, bridge, waiterMsg, shutdown, initBB>>

\* needToBuild re-check, made without b.lock: with nothing to build the
\* goroutine goes on to clear the flag; otherwise a non-blocking send of
\* PendingTxs to toEngine ends it.
SchedCheck(s) ==
    /\ sched[s].pc = "check"
    /\ \/ /\ ~needToBuild
          /\ sched' = [sched EXCEPT ![s].pc = "clear"]
          /\ UNCHANGED toEngine
       \/ /\ needToBuild
          /\ sched' = [sched EXCEPT ![s].pc = "free"]
          /\ toEngine' = IF toEngine < ToEngineSize THEN toEngine + 1 ELSE toEngine
    /\ UNCHANGED <<mempool, tip, txSubmitChan, hasPendingTxs, lastBuildParent,
                   elapsed, listener, engine, waiter, waiterTimer, ctxDone,
                   bridge, waiterMsg, shutdown, initBB>>

\* b.lock.Lock(); b.hasPendingTxs = false; return.
SchedClear(s) ==
    /\ sched[s].pc = "clear"
    /\ hasPendingTxs' = FALSE
    /\ sched' = [sched EXCEPT ![s].pc = "free"]
    /\ UNCHANGED <<mempool, tip, txSubmitChan, lastBuildParent, elapsed,
                   listener, toEngine, engine, waiter, waiterTimer, ctxDone,
                   bridge, waiterMsg, shutdown, initBB>>

-----------------------------------------------------------------------------
(* BuildBlock on the engine thread (buildBlockLock makes it sequential).   *)

\* The engine handles a PendingTxs message (from toEngine or WaitForEvent)
\* and calls BuildBlock: getCurrentBlock, then the first half of
\* handleBuildAttempt (record time and parent, clear the pending flag).
BuildBlockStart ==
    /\ engine = "idle"
    /\ ~shutdown
    /\ \E fromWaiter \in BOOLEAN :
        /\ IF fromWaiter THEN waiterMsg = "pending" /\ UNCHANGED toEngine
                         ELSE /\ ~WaitForEventUsed
                              /\ toEngine > 0 /\ toEngine' = toEngine - 1
        /\ \/ /\ CurrentBlockMayFail
              /\ waiterMsg' = IF fromWaiter THEN "none" ELSE waiterMsg
              /\ UNCHANGED <<engine, hasPendingTxs, lastBuildParent, elapsed>>
           \/ /\ lastBuildParent' = tip
              /\ elapsed' = 0
              /\ hasPendingTxs' = FALSE
              /\ engine' = "retrigger"
              /\ waiterMsg' = IF fromWaiter THEN "building" ELSE waiterMsg
    /\ UNCHANGED <<mempool, tip, txSubmitChan, listener, sched, waiter,
                   waiterTimer, ctxDone, bridge, shutdown, initBB>>

\* The rest of handleBuildAttempt: if needToBuild, signalCanBuild.
BuildBlockRetrigger ==
    /\ engine = "retrigger"
    /\ \/ needToBuild /\ SignalSet(engine, "spawn", "template")
       \/ ~needToBuild /\ engine' = "template" /\ UNCHANGED hasPendingTxs
    /\ UNCHANGED <<mempool, tip, txSubmitChan, lastBuildParent, elapsed,
                   listener, sched, toEngine, waiter, waiterTimer, ctxDone,
                   bridge, waiterMsg, shutdown, initBB>>

BuildBlockSpawn ==
    /\ engine = "spawn"
    /\ SignalSpawn
    /\ engine' = "template"
    /\ UNCHANGED <<mempool, tip, txSubmitChan, hasPendingTxs,
                   lastBuildParent, elapsed, listener, toEngine, waiter,
                   waiterTimer, ctxDone, waiterMsg, shutdown, initBB>>

\* NewBlockTemplate, ProcessBlockNoPoW and NewBlockAdapter. Any of them may
\* fail (no mining address, template error, orphan), returning an error
\* without clearing the flag; on success the block becomes the tip and the
\* mempool drops the transactions it includes.
BuildBlockTemplate ==
    /\ engine = "template"
    /\ \/ /\ engine' = "idle"
          /\ BuildBlockReturns
          /\ UNCHANGED <<tip, mempool, initBB>>
       \/ /\ tip < MaxHeight
          /\ tip' = tip + 1
          /\ mempool' \in 0..mempool
          /\ engine' = "clear"
          /\ UNCHANGED waiterMsg
    /\ UNCHANGED <<txSubmitChan, hasPendingTxs, lastBuildParent, elapsed,
                   listener, sched, toEngine, waiter, waiterTimer, ctxDone,
                   bridge, shutdown, initBB>>

\* clearPendingSignal after the block was built.
BuildBlockClear ==
    /\ engine = "clear"
    /\ hasPendingTxs' = FALSE
    /\ engine' = "idle"
    /\ BuildBlockReturns
    /\ UNCHANGED <<mempool, tip, txSubmitChan, lastBuildParent, elapsed,
                   listener, sched, toEngine, waiter, waiterTimer, ctxDone,
                   bridge, shutdown, initBB>>

-----------------------------------------------------------------------------
(* WaitForEvent -> waitForEvent -> waitForNeedToBuild, and its bridge      *)
(* goroutine.                                                              *)

\* The notifier calls WaitForEvent with a fresh context, once SetState has
\* returned and the engine has handled the PendingTxs the previous call
\* returned.
WaitForEventCall ==
    /\ WaitForEventUsed
    /\ initBB = "done"
    /\ waiter = "idle"
    /\ waiterMsg = "none"
    /\ ~shutdown
    /\ waiter' = "check"
    /\ ctxDone' = FALSE
    /\ UNCHANGED <<mempool, tip, txSubmitChan, hasPendingTxs,
                   lastBuildParent, elapsed, listener, sched, toEngine, engine,
                   waiterTimer, bridge, waiterMsg, shutdown, initBB>>

\* The loop head of waitForNeedToBuild, under b.lock: leave the loop and
\* clear the flag, or spawn the bridge goroutine and unlock.
WaitCheck ==
    /\ waiter = "check"
    /\ \/ /\ hasPendingTxs \/ needToBuild
          /\ hasPendingTxs' = FALSE
          /\ waiter' = "delay"
          /\ UNCHANGED bridge
       \/ /\ ~hasPendingTxs /\ ~needToBuild
          /\ bridge' = "lock"
          /\ waiter' = "select"
          /\ UNCHANGED hasPendingTxs
    /\ UNCHANGED <<mempool, tip, txSubmitChan, lastBuildParent, elapsed,
                   listener, sched, toEngine, engine, waiterTimer, ctxDone,
                   waiterMsg, shutdown, initBB>>

\* case <-signaled: re-lock and re-check.
WaitSignaled ==
    /\ waiter = "select"
    /\ bridge = "closed"
    /\ bridge' = "none"
    /\ waiter' = "check"
    /\ UNCHANGED <<mempool, tip, txSubmitChan, hasPendingTxs,
                   lastBuildParent, elapsed, listener, sched, toEngine, engine,
                   waiterTimer, ctxDone, waiterMsg, shutdown, initBB>>

\* case <-ctx.Done() or <-b.shutdownChan: Broadcast to wake the bridge,
\* then wait for it (<-signaled).
WaitAbort ==
    /\ waiter = "select"
    /\ ctxDone \/ shutdown
    /\ Broadcast
    /\ waiter' = "join"
    /\ UNCHANGED <<mempool, tip, txSubmitChan, hasPendingTxs,
                   lastBuildParent, elapsed, listener, sched, toEngine, engine,
                   waiterTimer, ctxDone, waiterMsg, shutdown, initBB>>

\* <-signaled returned: re-lock and return the error.
WaitJoin ==
    /\ waiter = "join"
    /\ bridge = "closed"
    /\ bridge' = "none"
    /\ waiter' = "idle"
    /\ UNCHANGED <<mempool, tip, txSubmitChan, hasPendingTxs,
                   lastBuildParent, elapsed, listener, sched, toEngine, engine,
                   waiterTimer, ctxDone, waiterMsg, shutdown, initBB>>

\* waitForEvent STEP 2 and 3: getCurrentBlock and calculateBuildingDelay.
WaitDelay ==
    /\ waiter = "delay"
    /\ \/ /\ CurrentBlockMayFail
          /\ waiter' = "idle"
          /\ UNCHANGED waiterTimer
       \/ LET delay == calculateBuildingDelay(tip) IN
          /\ waiter' = IF delay > 0 THEN "sleep" ELSE "deliver"
          /\ waiterTimer' = delay
    /\ UNCHANGED <<mempool, tip, txSubmitChan, hasPendingTxs,
                   lastBuildParent, elapsed, listener, sched, toEngine, engine,
                   ctxDone, bridge, waiterMsg, shutdown, initBB>>

\* STEP 4: select on ctx.Done(), timer.C and b.shutdownChan.
WaitSleep ==
    /\ waiter = "sleep"
    /\ \/ ctxDone /\ waiter' = "idle"
       \/ waiterTimer = 0 /\ waiter' = "deliver"
       \/ shutdown /\ waiter' = "idle"
    /\ waiterTimer' = 0
    /\ UNCHANGED <<mempool, tip, txSubmitChan, hasPendingTxs,
                   lastBuildParent, elapsed, listener, sched, toEngine, engine,
                   ctxDone, bridge, waiterMsg, shutdown, initBB>>

\* WaitForEvent returned PendingTxs; the notifier hands it to the engine.
WaitDeliver ==
    /\ waiter = "deliver"
    /\ \/ ~shutdown /\ waiterMsg' = "pending"
       \/ shutdown /\ UNCHANGED waiterMsg
    /\ waiter' = "idle"
    /\ UNCHANGED <<mempool, tip, txSubmitChan, hasPendingTxs,
                   lastBuildParent, elapsed, listener, sched, toEngine, engine,
                   waiterTimer, ctxDone, bridge, shutdown, initBB>>

\* The bridge goroutine: b.lock.Lock(); b.pendingSignal.Wait().
BridgePark ==
    /\ bridge = "lock"
    /\ bridge' = "waiting"
    /\ UNCHANGED <<mempool, tip, txSubmitChan, hasPendingTxs,
                   lastBuildParent, elapsed, listener, sched, toEngine, engine,
                   waiter, waiterTimer, ctxDone, waiterMsg, shutdown, initBB>>

-----------------------------------------------------------------------------
Environment == TxAccepted \/ PeerBlock \/ CancelWait \/ Shutdown

InitBlockBuilding == InitCheck \/ InitSignal \/ InitSpawn

Listener == ListenerRecv \/ ListenerSignal \/ ListenerSpawn

Scheduler(s) == SchedStart(s) \/ SchedSleep(s) \/ SchedCheck(s) \/ SchedClear(s)

BuildBlock == BuildBlockStart \/ BuildBlockRetrigger \/ BuildBlockSpawn
              \/ BuildBlockTemplate \/ BuildBlockClear

WaitForEvent == WaitForEventCall \/ WaitCheck \/ WaitSignaled \/ WaitAbort
                \/ WaitJoin \/ WaitDelay \/ WaitSleep \/ WaitDeliver

Bridge == BridgePark

Next ==
    \/ Environment
    \/ Tick
    \/ InitBlockBuilding
    \/ Listener
    \/ \E s \in SchedSlots : Scheduler(s)
    \/ BuildBlock
    \/ WaitForEvent
    \/ Bridge

\* Every goroutine of the VM and the engine runs when it can; the clock
\* advances while a timer runs. The environment (transactions, peers,
\* cancellation, shutdown) need not act.
Fairness ==
    /\ WF_vars(Tick)
    /\ WF_vars(InitBlockBuilding)
    /\ WF_vars(Listener)
    /\ \A s \in SchedSlots : WF_vars(Scheduler(s))
    /\ WF_vars(BuildBlock)
    /\ WF_vars(WaitForEvent)
    /\ WF_vars(Bridge)

Spec == Init /\ [][Next]_vars /\ Fairness

-----------------------------------------------------------------------------
(* Properties.                                                             *)

\* Build scheduling: signalCanBuild coalesces every tx signal while
\* hasPendingTxs is set, so while the VM runs the flag may only be set while
\* some goroutine is still on its way to a BuildBlock that clears it: a
\* scheduleBlockBuild goroutine in flight or about to be spawned, a PendingTxs
\* message buffered for the engine or returned by WaitForEvent, or BuildBlock
\* itself in progress. A flag left set with none of
\* these silences onTxAccepted until the next build. (A host calling
\* WaitForEvent consumes the flag in waitForNeedToBuild instead; see
\* WaitForEventReturns.)
PendingFlagOwned ==
    (hasPendingTxs /\ ~shutdown /\ ~WaitForEventUsed) =>
        \/ \E s \in SchedSlots : sched[s].pc # "free"
        \/ toEngine > 0
        \/ waiterMsg = "pending"
        \/ engine # "idle"
        \/ listener = "spawn"
        \/ initBB = "spawn"

\* Build progress: while the VM runs, transactions in the mempool lead to a
\* BuildBlock that records its attempt, unless a peer block takes them first.
TxsEventuallyBuilt ==
    (needToBuild /\ ~shutdown) ~> (engine = "retrigger" \/ ~needToBuild \/ shutdown)

\* Spec section 3: at most one scheduleBlockBuild goroutine is in flight
\* (the pending flag guards the spawn).
AtMostOneScheduler ==
    Cardinality({s \in SchedSlots : sched[s].pc # "free"}) <= 1

\* Spec section 8 (retry window): PendingTxs is signalled to the engine, by
\* scheduleBlockBuild or by WaitForEvent, only once the delay that
\* calculateBuildingDelay gives for the current tip has run out: RetryDelay
\* after an attempt on the same parent, TargetBlockTime after it otherwise.
BuildSignalNotPremature ==
    [][(toEngine' > toEngine \/ (waiterMsg' = "pending" /\ waiterMsg # "pending"))
          => calculateBuildingDelay(tip) = 0]_vars

\* Spec sections 5 and 9: a WaitForEvent call blocked in waitForNeedToBuild
\* (in its select, or joining its bridge goroutine) while it has a reason to
\* return (its context is cancelled, the VM shuts down, or transactions wait
\* in the mempool) returns, or the reason goes away. Section 5 says a
\* cancelled call joins its goroutine and returns; section 9 says the
\* condition wait never misses a signal given before it began.
WaitForEventReturns ==
    LET Blocked == waiter \in {"select", "join"}
        Reason  == ctxDone \/ shutdown \/ needToBuild
    IN  (Blocked /\ Reason) ~> ~(Blocked /\ Reason)

\* Goroutine hygiene: every scheduleBlockBuild goroutine ends, also when
\* getCurrentBlock fails, when toEngine is full (the send does not block) and
\* after Shutdown (its timer select also watches shutdownChan).
SchedulerExits ==
    \A s \in SchedSlots : (sched[s].pc # "free") ~> (sched[s].pc = "free")

=============================================================================
