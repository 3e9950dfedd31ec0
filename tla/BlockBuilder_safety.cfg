\* Safety of build scheduling, no getCurrentBlock errors,
\* toEngine path (the engine of metalgo v1.12.2). The scheduler slots are
\* interchangeable, and the run checks only an invariant, so symmetry is sound.
CONSTANTS
    MaxMempool = 4
    MaxHeight = 3
    TxSubmitChannelSize = 2
    ToEngineSize = 1
    RetryDelay = 1
    TargetBlockTime = 2
    CurrentBlockMayFail = FALSE
    WaitForEventUsed = FALSE
    s1 = s1
    s2 = s2
    SchedSlots <- MC_SchedSlots
SPECIFICATION Spec
SYMMETRY MC_Symmetry
INVARIANT PendingFlagOwned
\* After Shutdown every goroutine exits and the VM really stops.
CHECK_DEADLOCK FALSE
