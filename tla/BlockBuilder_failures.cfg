\* One transaction keeps the run within minutes. Error paths: getCurrentBlock
\* may fail in scheduleBlockBuild, in
\* waitForEvent and in BuildBlock, and any step of BuildBlock may fail; the host
\* calls WaitForEvent, whose bridge goroutine is checked. No symmetry: it is
\* unsound for liveness.
CONSTANTS
    MaxMempool = 1
    MaxHeight = 1
    TxSubmitChannelSize = 1
    ToEngineSize = 1
    RetryDelay = 1
    TargetBlockTime = 2
    CurrentBlockMayFail = TRUE
    WaitForEventUsed = TRUE
    s1 = s1
    s2 = s2
    SchedSlots <- MC_SchedSlots
SPECIFICATION Spec
PROPERTY SchedulerExits
\* After Shutdown every goroutine exits and the VM really stops.
CHECK_DEADLOCK FALSE
