# TLA+ models of btcvm

This directory holds TLA+ models of the concurrent parts of btcvm, the TLC
configurations that check them, and `PROJECT.json`. `PROJECT.json` maps every
modelled definition to the source lines it translates, and lists the runs,
mutants, findings and hazards.

## 1. The system

btcvm is a Metal/Avalanche `snowman` ChainVM that wraps a btcd chain and
mempool. The host consensus engine drives it. It has these parts:

| part | source | role |
|---|---|---|
| VM entry points | `src/unnamed/part_001` (vm/vm.go) | Initialize, SetState, BuildBlock, ParseBlock, GetBlock, SetPreference, LastAccepted, GetBlockIDAtHeight, WaitForEvent, Shutdown, App* handlers |
| Block Builder | `src/unnamed/part_003` (vm/block_builder.go) | decides when the engine is told to build: the pending flag, delay computation, the scheduler goroutines, the WaitForEvent wait |
| Dedup Set | `src/vm/gossip.go` (UnifiedBTCSet) | gossip Add/Has/Iterate over the btcd mempool and block index, with a bloom filter |
| Codec | `src/vm/gossip.go`, `src/vm/gossip_wrapper.go` | one-byte type tag plus the btcd wire encoding of a tx or block |
| Gossip Orchestrator | `src/unnamed/part_002`, relay callbacks in part_001:237-276 | the p2p handler, the push and pull loops, and the OnTxRelay/OnBlockRelay callbacks |
| Gossip config | `src/vm/gossip_item.go` | defaults and Validate |
| Block Adapter | `src/vm/block_adapter.go` | a btcd block as a snowman.Block: Verify, Accept, Reject |
| Genesis generator | `src/cmd/genesis-generator/main.go` | offline tool that mines and prints a genesis block |
| Plugin process | `src/unnamed/part_007` (main.go), `src/cmd/btcvm/*.go` | the plugin binary: cobra and flag parsing, config, logging, the interrupt listener, profiling, then `rpcchainvm.Serve` |
| Validators | `src/vm/validators.go` | builds the p2p validator set inside initializeGossip; its errors are failures of that call |
| btcd/params.go, vmid tool, scripts | | chain parameters and tooling |

How the parts interact:

- The mempool calls `onTxAccepted` for each transaction it admits. This starts
  at Initialize, before normal operation.
- `onTxAccepted` makes a non-blocking send on `txSubmitChan`.
- The listener goroutine `awaitTxSubmissions` turns each signal into a call to
  `signalCanBuild`.
- `signalCanBuild` check-and-sets `hasPendingTxs`. Only the caller that finds
  the flag clear continues: it broadcasts on `pendingSignal`, then spawns
  `scheduleBlockBuild`.
- `scheduleBlockBuild` waits out `calculateBuildingDelay`, re-checks the
  mempool, and makes a non-blocking send of `PendingTxs` on `toEngine`.
- The engine then calls `BuildBlock`. BuildBlock calls `handleBuildAttempt`
  before the block is built. handleBuildAttempt records the attempt, clears
  the flag, and calls signalCanBuild again if the mempool is not empty. After
  a successful build, BuildBlock calls `clearPendingSignal`.
- Engines that poll call `WaitForEvent` instead of reading `toEngine`.
  WaitForEvent runs `waitForNeedToBuild`, then the same delay computation.
  waitForNeedToBuild waits on the condition variable through a bridge
  goroutine, so that the wait can sit in a `select` with the context and
  `shutdownChan`.
- Shutdown closes `shutdownChan`. Every goroutine above watches it.
- SetState(NormalOp) creates `gossipCtx` and `vm.cancel`, runs
  `initializeGossip` and starts the push and pull loops, which join
  `shutdownWg`. Shutdown calls `vm.cancel()` and waits on `shutdownWg`.
- A peer's gossip message is decoded by `UnmarshalGossip` in metalgo's
  handler and handed to `UnifiedBTCSet.Add`. What this node pushes is encoded
  by `MarshalGossip`.

## 2. Modules

### BlockBuilder.tla (and MC_BlockBuilder.tla)

BlockBuilder models the Block Builder together with the VM entry points that
drive it: BuildBlock, WaitForEvent, Shutdown, and the `initBlockBuilding`
part of `SetState(NormalOp)`.

**State.** The variables keep the code's names where they can:

| variable | models |
|---|---|
| `mempool` | `len(MiningDescs())` |
| `tip` | the best block hash, as its height |
| `txSubmitChan` | the signals buffered in txSubmitChan |
| `hasPendingTxs` | the pending flag |
| `lastBuildParent` | `lastBuildParentHash`; `NoBuild` while `lastBuildTime` is zero |
| `elapsed` | the time since `lastBuildTime`, saturating at TargetBlockTime |
| `toEngine` | the messages buffered in toEngine |
| `listener`, `sched[s]`, `engine`, `waiter`, `bridge`, `initBB` | the control points of the goroutines |
| `waiterTimer` | the timer of waitForEvent |
| `ctxDone` | the WaitForEvent context has been cancelled |
| `waiterMsg` | a PendingTxs that WaitForEvent returned, and whether the engine has handled it |
| `shutdown` | `shutdownChan` is closed |

**Actions.** There is one action per step between two lock or channel
operations:

- `ListenerRecv`, `ListenerSignal`, `ListenerSpawn`: awaitTxSubmissions and
  signalCanBuild.
- `SchedStart`, `SchedSleep`, `SchedCheck`, `SchedClear`: scheduleBlockBuild.
  Its needToBuild re-check (`SchedCheck`) is made without `b.lock`, and the
  clearing of the flag under the lock (`SchedClear`) is a separate step.
- `BuildBlockStart`, `BuildBlockRetrigger`, `BuildBlockSpawn`,
  `BuildBlockTemplate`, `BuildBlockClear`: BuildBlock together with
  handleBuildAttempt and clearPendingSignal.
- `WaitForEventCall`, `WaitCheck`, `WaitSignaled`, `WaitAbort`, `WaitJoin`,
  `WaitDelay`, `WaitSleep`, `WaitDeliver`: WaitForEvent, waitForNeedToBuild
  and waitForEvent.
- `BridgePark`: the bridge goroutine.
- `InitCheck`, `InitSignal`, `InitSpawn`: initBlockBuilding. It races the
  listener it has just started.
- The environment: `TxAccepted` (onTxAccepted), `PeerBlock` (a peer block
  through gossip Add), `CancelWait`, `Tick` and `Shutdown`.

**Abstractions.**

- A `sync.Cond` Broadcast wakes the bridge only if it is already parked. This
  is the operator `Broadcast`.
- Time is relative to `lastBuildTime`.
- Error paths of getCurrentBlock are enabled by `CurrentBlockMayFail`.

**Host constant.** `WaitForEventUsed` chooses the host engine.

- FALSE is the metalgo v1.12.2 engine of `go.mod`, which reads `toEngine`.
- TRUE is a later engine, which calls WaitForEvent and does not read toEngine.

The host calls WaitForEvent only after SetState has returned. It calls it
again only after it has handled the PendingTxs of the previous call.

`MC_BlockBuilder` gives `SchedSlots` two model values. It also defines
their symmetry, for invariant-only checks.

`TypeOK` is kept in BlockBuilder, GossipSet, GenesisGenerator and BtcvmMain
as documentation of each variable's range. Only VMNode's is checked by a
run: the others hold by the shape of their actions (Go channels never exceed
their capacity, and a uint32 always wraps), so no plausible fault of the
code could break them.

### GossipSet.tla

GossipSet models how items enter the node. `UnifiedBTCSet.Add` (gossip.go
120-220) is the main part. It races three other actors:

- the relay goroutines that OnBlockRelay spawns (part_001:251-276);
- the engine's `ParseBlock`, through `NewBlockAdapterFromBytes`
  (block_adapter.go 83-124);
- RPC submissions to the mempool.

It also models how far `initializeGossip` (part_002:14-131) got. The engine
parses blocks while bootstrapping, before push gossip exists. The relay
goroutine reads `vm.pushGossiper` without a lock.

**State.**

| variable | models |
|---|---|
| `stored`, `orphans` | btcd's block index and orphan pool |
| `mempool` | the btcd mempool, as a set of transactions |
| `bloom` | the items added to `s.bloom` |
| `pushed` | the items handed to `pushGossiper.Add` |
| `relay` | the relay goroutines not yet run |
| `adder` | the Add holding `s.lock`, as a control point and an item |
| `parsed` | the blocks ParseBlock or GetBlock returned an adapter for |
| `accepted` | history: transactions ever accepted |
| `gossipPC` | how far `initializeGossip` got: bootstrap, failed before `vm.pushGossiper` was set, pushSet, noHandler (AddHandler failed), up |

**Actions.**

- `AddCheck`: HaveTransaction or HaveBlock, with the early return that marks
  known items.
- `AddProcessTx`: ProcessTransaction, the error return, the mark, and OnTxRelay.
- `AddProcessBlock` and `AddMark`: ProcessBlock with its error swallowed, then
  the mark. btcd's outcomes are a duplicate, a rule error (`BadBlock`, a
  block a peer sends that btcd rejects), an orphan, or a connected block. They are two steps because ProcessBlock spawns relay goroutines
  before Add reaches `bloom.Add`.
- `RelayRun(b)`: the relay goroutine's filter check and push.
- `ParseBlock(b)`: ProcessBlock then BlockByHashAny.
- `GetBlock(b)`: the engine asks for a block, by an ID a poll names, that it
  could not parse. `NewBlockAdapterFromID` (block_adapter.go 27-80) finds any
  block of btcd's index.
- `SubmitTx(t)`: an RPC submission.
- `InitializeGossip`: SetState(NormalOp) running `initializeGossip` up to
  `vm.pushGossiper = pushGossiper`. NewBloomFilter, NewMetrics,
  InitializeValidators (validators.go) and NewPushGossiper may fail first.
- `RegisterHandler`: NewPullGossiper and AddHandler, which may fail. Only a
  registered handler passes peers' messages to `Receive`.

**btcd.** btcd is outside `src/`. Its ProcessBlock (`ProcessBlock`,
`ConnectChain`, `HaveBlock`) is modelled from the capability interface of
the spec and btcd's documented behaviour:

- a block already in the index or the orphan pool is a duplicate;
- an invalid block (`BadBlock`) fails with a RuleError and changes nothing;
- a block whose parent is unknown becomes an orphan;
- connecting a block also connects its orphan descendants and fires the relay
  callback for each.

Blocks form one peer chain `1..NumBlocks` over genesis 0.

**Messages.** Add's input comes through `Receive(m)`, the p2p handler: it
decodes `m` with `UnmarshalGossip` (GossipCodec) and calls `AddCheck` only on
success. The messages peers send are every item's encoding, under its own
and the other type byte, with trailing data, truncated, with an unknown type
byte, and empty.

### GossipCodec.tla

`MarshalGossip` and `UnmarshalGossip` (gossip.go 31-100,
gossip_wrapper.go). A message is a type byte followed by a payload; btcd's
wire encoding of a transaction or block is abstracted to one payload element
that records which wire message it is. `UnmarshalGossip` fails on empty
input, an unknown type byte, and a payload that is not a message of that
type; it ignores trailing data, as the `bytes.Reader` it decodes from does.
`GossipID` only hashes the encoding and is left out.

### GossipConfig.tla

`DefaultGossipConfig` and `GossipConfig.Validate` (gossip_item.go 82-152),
with durations in milliseconds and fractions in thousandths, so every bound
of the code is exact. `Validate` returns "ok" or the name of the first field
that fails, in the code's order. `SpecValidField` is the reference, spec
section 2 read field by field, and `ProbeConfigs` are the defaults with each
field set in turn to its edges and one value either side.

### GenesisGenerator.tla

The offline genesis generator (`src/cmd/genesis-generator/main.go`). It is
one sequential process, whose control point is `pc`.

- `ParseFlags`: a flag error exits with 2, and `-h` exits with 0.
- `SelectNetwork`: an unknown `-net` exits with 1.
- `GenerateKeyPair`: generateKeyPair either prints the keys or fails
  NewPrivateKey.
- `CheckAddress`: an empty or undecodable `-address` exits with 1.
- `CreateGenesisBlock`: a PayToAddrScript error exits with 1. Otherwise the
  header is built with Nonce 0 and the target is `compactToBig(Bits)`.
- `MineStep`: one iteration of the mining loop. `Header.Nonce++` wraps at
  `2^NonceBits`.
- `Output`: serialization and printing.

`compactToBig` and `hashToBig` are translated from the code, using Bitwise's
`shiftR` and `&` and SequencesExt's `Reverse` and `FoldLeft`.

SHA-256 is abstracted to a block hash function from nonce to hash. It is
chosen when the header is built and fixed afterwards, because only the nonce
changes inside the loop. The references for the property are btcd's
`CompactToBig`, with its sign bit, and the little-endian value of a
`chainhash.Hash` (the RECURSIVE `LittleEndian`).

### BtcvmMain.tla

The plugin process. Its state has three parts:

- `pc` is the main goroutine's control point. It keeps its value when the
  process exits, so the step where main exited stays visible.
- `exitCode` is the status passed to `os.Exit`, or `Killed` for the
  runtime's default action on a signal.
- `listener`, `sigChan`, `serve` and `errChan` are the listener goroutine,
  its one-slot `interruptChannel`, the Serve goroutine and `errChan`.

The command line `args` is a sequence of at most `MaxArgs` argument
classes. The classes are two of loadConfig's flags, `-h`, `--` and a
positional argument.

The actions, in main's order:

- `CobraExecute`: cobra (`CobraFlagArgs`) rejects every flag-looking
  argument before `--` except `-h`, with exit 1. `-h` alone exits 0.
- `LoadConfig`: Go's `flag.Parse` (the RECURSIVE `GoFlagParse`), then
  `-version` or `-h`, then validate's directory creation.
- `InitLogging`, `CallInterruptListener`, `StartProfiler` and
  `InitSecurity`.
- `CheckInterrupt`: `interruptRequested`, then the spawn of Serve.
- `SelectInterrupt` and `SelectServeResult`: the final select.

The listener goroutine has two actions:

- `ListenerNotify` is `signal.Notify`.
- `ListenerReceive` receives a signal; the first one closes `c`.

The environment has two actions:

- `ServeReturns` is Serve returning nil or an error.
- `Signal` is a SIGINT or SIGTERM. Before Notify, it kills the process;
  after Notify, it is buffered, or dropped when the buffer is full.

Parsing with both cobra and flag shows that no flag ever reaches `cfg`:
cobra rejects a flag before `--`, and flag.Parse stops at `--`. That is a
finding. It is also why `StartProfiler` has only the branch with no
profiles.

### VMNode.tla (and MC_VMNode.tla)

VMNode models the node's two views of the chain: btcd's block index
and best chain, and the VM's `lastAccepted` and `preferred`. The engine
drives them through these actions:

- `ParseBlock`;
- `BuildBlock`, which builds on btcd's best block, as `getCurrentBlock` and
  the template generator do;
- `SetPreference`;
- `Accept`, which also rejects the competing processing blocks; Reject only
  logs;
- `GossipAdd`, a peer block through Add;
- `GetBlock`, the engine fetching by ID a block that gossip stored.

`Crash` loses the VM's and the engine's memory but not btcd's database.
`Initialize(c)` then validates the gossip configuration `c` (GossipConfig)
and re-reads `lastAccepted` from btcd's BestSnapshot (part_001:223-227).

**Lifecycle.** The host calls Initialize, SetState(Bootstrapping), then
SetState(NormalOp) once, engine calls, and Shutdown once:

- `SetStateNormalOp` sets `bootstrapped`, creates `vm.cancel` (`cancelSet`)
  and runs `StartGossip`: `initializeGossip` either fails, starting no loop,
  or succeeds and `startGossipLoops` starts both loops;
- `LoopExit(l)`: `gossip.Every` returns once `gossipCtx` is cancelled;
- `ShutdownStart`: `vm.cancel()` if set, the adapter stopped, `shutdownChan`
  closed; `ShutdownWait`: `shutdownWg.Wait()` returns and `stopped` is set.

SetState(Syncing/Bootstrapping) only clears an already clear flag, and the
host never calls NormalOp twice, so neither is an action.

**btcd's fork choice.** btcd picks its best chain by most work. Here that is
the greatest height, with the first block seen kept on a tie (`Connect`).

**Block tree.** Blocks are a fixed tree given by `Parent`. The operators
`Height` and `Chain` are RECURSIVE. `MC_VMNode` uses two competing
branches: g <- a1 <- a2 and g <- b1 <- b2.

**History.** The ghost variable `accepted` records what the engine (that is,
the network) accepted.

## 3. Runs

| run | cfg | checks | result |
|---|---|---|---|
| builder_safety | BlockBuilder_safety.cfg | PendingFlagOwned | pass |
| builder_failures | BlockBuilder_failures.cfg | SchedulerExits | pass |
| builder_one_scheduler | BlockBuilder_one_scheduler.cfg | AtMostOneScheduler | violation |
| builder_retry_window | BlockBuilder_retry_window.cfg | BuildSignalNotPremature | violation |
| builder_wait_stuck | BlockBuilder_wait_stuck.cfg | WaitForEventReturns | violation |
| builder_lost_signal | BlockBuilder_lost_signal.cfg | TxsEventuallyBuilt | violation |
| gossip_safety | GossipSet_safety.cfg | KnownTxAccepted, EngineGetsBlocks | pass |
| chain_safety | VMNode_safety.cfg | TypeOK, RunningConfigValid, LastAcceptedNeverRegresses, ShutdownCompletes | pass |
| chain_main_chain | VMNode_main_chain.cfg | AcceptedHeightsOnMainChain | violation |
| genesis_pow | GenesisGenerator_pow.cfg | MinedBlockMeetsTarget | pass |
| genesis_termination | GenesisGenerator_termination.cfg | GeneratorTerminates | violation |
| btcvm_process | BtcvmMain_process.cfg | SignalEndsProcess | pass |

What the passing runs show:

- **PendingFlagOwned.** On the toEngine path, while nothing fails, a set flag
  always has an owner. The owner is one of: a scheduler in flight or about to
  be spawned, a buffered PendingTxs, or a BuildBlock in progress.
- **SchedulerExits.** Every scheduler goroutine ends. This includes
  getCurrentBlock errors and shutdown.
- **KnownTxAccepted.** The bloom filter marks a transaction only once btcd
  has accepted it. A rejected transaction stays unmarked, so a corrected
  resend is not suppressed. This holds also when an RPC submission races
  Add's HaveTransaction check, and when AddHandler fails after the push
  gossiper is set.
- **EngineGetsBlocks.** The engine gets every block of the chain. When
  ParseBlock of a block's bytes fails with btcd's duplicate error, because
  gossip stored the block or an earlier ParseBlock left it an orphan, the
  engine finds it by ID through GetBlock.
- **RunningConfigValid.** A VM that is up runs with a gossip configuration
  spec §2 calls valid: Validate rejects every edge value the spec excludes.
- **ShutdownCompletes.** Shutdown's `shutdownWg.Wait` always returns, whether
  SetState(NormalOp) ran or not and whether initializeGossip failed.
- **LastAcceptedNeverRegresses.** The last accepted block never moves back,
  even across a restart.
- **MinedBlockMeetsTarget.** The genesis block the generator prints meets its
  target by btcd's reading of both the hash and Bits. This holds on every
  path of main and for every hash function, since the tool's simplified
  compactToBig agrees with btcd's on Bits without the sign bit.
- **SignalEndsProcess.** Every SIGINT or SIGTERM ends the plugin process,
  wherever main is. This includes a signal after the one interruptRequested
  check and a second signal dropped by the full interruptChannel. Before
  `signal.Notify` has run, the runtime's default action kills the process
  instead. TLC reaches that window even with main already at the check.

What the violations show. Each is a disagreement with `spec.md` or with the
host's contract, and `PROJECT.json` "findings" gives the details:

1. **one_scheduler.** handleBuildAttempt re-triggers signalCanBuild before
   BuildBlock's clearPendingSignal. The clear removes the guard of the
   scheduler that the re-trigger spawned, so two schedulers can run at once.
   Spec §3 says at most one.
2. **retry_window.** The re-trigger reads the old tip. A build that follows a
   successful block is therefore classified as a retry, and the engine is
   notified RetryDelay after the success instead of TargetBlockTime (spec §8).
3. **wait_stuck.** A cancellation before the bridge goroutine parks loses its
   Broadcast, and WaitForEvent never returns (spec §5). The same property
   also covers a second bug, which TLC reports later because its trace is
   longer: a signalCanBuild between waitForNeedToBuild's unlock and the
   bridge's `Wait()` is lost (spec §9).
4. **lost_signal.** scheduleBlockBuild re-checks needToBuild without
   `b.lock` and clears the flag after it. Suppose a transaction is accepted
   between the two steps. Its signalCanBuild sees the flag still set and is
   coalesced, then the scheduler clears the flag. The transaction waits with
   no build scheduled until another one arrives. TLC's trace is 12 steps
   long and needs no failure. The same property, TxsEventuallyBuilt, also
   catches a second bug. BuildBlock's early return on a getCurrentBlock
   error leaves `hasPendingTxs` set with no owner, so every later
   transaction is coalesced (spec §7). The cfg leaves errors out. With
   `CurrentBlockMayFail = TRUE`, as its comment says, TLC reports this
   shorter trace instead.
5. **main_chain.** ParseBlock connects a block to btcd's main chain before
   consensus decides on it, and Initialize re-reads lastAccepted from btcd's
   best block. TLC's trace is three steps: ParseBlock a1, a crash, and an
   Initialize that makes the undecided a1 the last accepted block, so
   GetBlockIDAtHeight(1) answers with a block consensus never accepted
   (spec §1). The same property is also broken without a restart, because
   Accept never tells btcd: if this node builds a1 and consensus accepts a
   peer's b1, btcd's best chain stays on a1. TLC reports the restart trace
   first, and "findings" records both.
6. **genesis_termination.** The genesis generator's mining loop only
   increments the uint32 nonce. If no nonce of the header meets the target,
   the nonce wraps and the loop runs forever. At `0x1d00ffff` that happens to
   about 37% of headers.

**Mutants.** Each property of a passing run is broken by one plausible fault
of the code, defined in its module before the definition it replaces:

| mutant | breaks |
|---|---|
| a `!needToBuild` return that keeps the flag | PendingFlagOwned |
| a blocking toEngine send | SchedulerExits |
| Add marking a transaction that ProcessTransaction rejected | KnownTxAccepted |
| ProcessBlock not connecting orphan descendants | EngineGetsBlocks |
| BuildBlock returning a block it did not hand to ProcessBlockNoPoW | TypeOK (VMNode) |
| Initialize leaving lastAccepted at genesis | LastAcceptedNeverRegresses |
| Shutdown without `vm.cancel()` | ShutdownCompletes |
| Validate without its last check (BloomResetThreshold) | RunningConfigValid |
| hashToBig without the byte reversal | MinedBlockMeetsTarget |
| the listener receiving the first signal without closing `c` | SignalEndsProcess |

## 4. Bounds

**BlockBuilder.** All runs use RetryDelay = 1 tick, TargetBlockTime = 2
ticks, and two scheduler slots.

- **Ticks.** Only the order of the delays matters, RetryDelay <
  TargetBlockTime, so one and two ticks cover both delay classes. They also
  cover a partly elapsed delay.
- **Scheduler slots.** Two slots are enough to see the second scheduler of
  violation 1 (one_scheduler). With two slots, a third spawn is simply not possible.
- **builder_safety.** Four transactions, three blocks, a txSubmitChan of
  two and the slot symmetry (675,166 distinct states, about 12 seconds).
  That is enough for a drop on both channels, for builds on three
  successive tips, and for a re-trigger after a build that leaves
  transactions behind while more arrive.
- **builder_failures.** One transaction and one block, with every error
  path enabled. Its properties are about goroutine exits, which one
  transaction already drives through every path. Two transactions take the
  run to about four minutes.
- **Initial states.** Init starts with any mempool and txSubmitChan contents,
  because transactions can be accepted before normal operation.

Only builder_safety uses the slot symmetry that `MC_BlockBuilder` defines:
it checks one invariant, and the slots are interchangeable. builder_failures
checks liveness, for which symmetry is unsound.

**GossipSet.** Three blocks of the peer chain, one invalid block, and one
transaction, which may be rejected (95,304 distinct states, about 40
seconds).
Three blocks let a block become an orphan behind a missing parent and be
connected, with its descendant, when the parent arrives. One transaction
covers both the rejected and the accepted outcome, because the choice is
made per submission. KnownTxAccepted is about one transaction at a time, so
a second transaction adds only interleavings of independent items, and it
would take the run past three minutes. Every ordering of the start-up steps against the engine's
ParseBlock and the relay goroutines of three blocks is explored.

**VMNode.** Two branches of two blocks. That gives one tie, a1
against b1, where btcd keeps the first block seen. It also gives a strictly
heavier branch, which makes btcd reorganise. The gossip configuration is
one of the probe configurations (the defaults, and the defaults with one field at or beyond
an edge); Init starts with any of those that validate.

**GenesisGenerator.** Hashes of two bytes over {0, 255}, a 2-bit nonce,
and Bits = 0x0200ffff. That Bits has the shape of the code's 0x1d00ffff
(mantissa 0x00ffff, no sign bit) and gives target 255. So exactly the hashes
whose high byte is 0 meet it, and that byte is byte 2 of the stored order.
This ensures a hashToBig that skipped the reversal would accept the wrong
hashes. Every function from the 4 nonces to the 4 hashes is enumerated. This
includes functions where no nonce is valid, which is the wrap-around case,
and functions where only a late nonce is valid.

**BtcvmMain.** Command lines have up to 2 arguments drawn from {`-version`,
`-cpuprofile=f`, `-h`, `--`, a positional}. Two is enough to put a config
flag after `--` and to reach every cobra and flag.Parse outcome. A scratch
run with 3 arguments reached the same flags result. There are up to 2
signals, one more than interruptChannel's capacity. Mkdir may fail.

## 5. Fairness

**BlockBuilder.** Weak fairness is assumed for each goroutine: the listener,
each scheduler slot, the engine's BuildBlock, the WaitForEvent caller, the
bridge, and initBlockBuilding. It is also assumed for the clock while a timer
runs. Go runs every runnable goroutine, and every blocking point the model
contains is a channel or timer that the model enables explicitly.

The environment has no fairness:

- new transactions;
- peer blocks;
- the host cancelling a WaitForEvent;
- Shutdown.

This matches the code, which relies on none of them. The runs say
`CHECK_DEADLOCK FALSE` because after Shutdown every goroutine exits and the
system really stops.

**GossipSet.** Weak fairness is assumed for the Add that holds `s.lock` and
for each relay goroutine, and for RegisterHandler, which continues the same
SetState call as InitializeGossip. The host's SetState(NormalOp) gets none.
Weak fairness is also assumed for the engine's ParseBlock and
GetBlock of each block, because consensus keeps re-querying a block it does
not have.
Peers and RPC clients get none. The runs say `CHECK_DEADLOCK FALSE` because
the peer chain is finite, so every behaviour ends when all blocks are in.

**VMNode.** Weak fairness is assumed for each gossip loop's exit and for
Shutdown's wait: Go runs a goroutine whose context is cancelled, and
`shutdownWg.Wait` returns once the counter is zero. The host, the engine's
calls and crashes get none. Deadlock is checked: a crash or a restart is
always possible.

**GenesisGenerator.** Weak fairness is assumed for Next: main is one
goroutine that never blocks. Under this fairness GeneratorTerminates is
still violated, because the mining loop itself cycles.

**BtcvmMain.** Weak fairness is assumed for main's steps and for the
listener goroutine, since Go runs runnable goroutines. Serve's return and
signals get none, because they come from the host. The run says
`CHECK_DEADLOCK FALSE` because the process really exits.

## 6. Not modelled

Not yet modelled:

- **SetState re-entry.** metalgo never returns to Bootstrapping after
  NormalOp, so the second NormalOp (part_001:306) is not modelled.
- **Has, Iterate and GetFilter.** They only read state.
- **btcd's wire encoding.** The codec abstracts it to one payload element.
- **The p2p App handlers.** AppRequest, AppRequestFailed and AppResponse
  return nil without forwarding to the p2p network, so pull gossip never gets
  a response.

The following are I/O or tooling, and are not modelled:

- the vmid tool (part_004), one constant conversion;
- in the plugin process: startProfiler's profiling branches, which need a
  profile name that no command line can set; shutdownRequestChannel, on which
  nothing sends; and setLogLevel, show and checkRequiredDirectories, which
  have no callers or only log;
- the genesis generator's printers;
- the chain parameters (btcd/params.go). They are constant data, and their
  256-bit PowLimit and targets exceed TLC's 32-bit integers. GenesisGenerator
  checks the compact-target arithmetic on a scaled Bits of the same shape;
- the scripts.

Not checked by any run:

- **int32 height wrap.** GetBlockIDAtHeight's int32 conversion is not
  modelled. TLC's integers are 32-bit signed, so a uint64 height of 2^31 or
  more cannot be represented, and below that the conversion is the identity.
  The engine asks only for heights up to its last accepted block.
- **Unusable flags.** No flag of `config.go` reaches the configuration.
  The BtcvmMain state space shows this: LoadConfig's `-version` branch is
  never taken. No run has it as a property.

Simplifications:

- **BlockBuilder.** The btcd mempool and chain are a transaction count and a
  height. A block removes any subset of the transactions. A BuildBlock that
  fails after ProcessBlockNoPoW has connected the block (an error in
  NewBlockAdapter) is folded into the failure branch without moving the tip.
- **GossipSet.** ParseBlock of `BadBlock` is left out: it fails on btcd's
  error before any state changes. The bloom filter is the exact set of marked items, and
  false positives are left out. The reset (part_002:22) is never called by
  anything, so the filter only grows. Its one reader is the relay
  goroutine's Has check. A false positive there would skip announcing a
  block, which only a violation run could show.
- **VMNode.** Work is height. Orphans and duplicates are left to
  GossipSet.

## 7. Plan

In order of importance:

1. **Waiter-path liveness.** A TxsEventuallyBuilt for a WaitForEvent host,
   once the bridge bugs are set aside. The properties could be stated with
   the lost-wakeup path disabled.
2. **A violation run** for the unusable flags, if a run slot frees up.

All 12 runs are in use. A new property must share a cfg with existing ones,
as builder_safety, builder_failures, gossip_safety, chain_safety,
genesis_pow and btcvm_process do, or replace a weaker run.
