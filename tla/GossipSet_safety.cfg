\* Add racing the relay goroutines, ParseBlock, GetBlock, RPC and initializeGossip: filter marks of transactions and the blocks the engine gets.
CONSTANTS
    NumBlocks = 3
    Txs = {t1}
    TxMayBeRejected = TRUE
SPECIFICATION Spec
INVARIANT KnownTxAccepted
PROPERTY EngineGetsBlocks
\* The peer chain is finite: every behaviour ends when all blocks are in.
CHECK_DEADLOCK FALSE
