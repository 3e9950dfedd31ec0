\* Build progress on the toEngine path without errors: a transaction accepted
\* while scheduleBlockBuild is between its needToBuild check and its clearing
\* of the flag is coalesced and then forgotten. With CurrentBlockMayFail =
\* TRUE (and MaxMempool = 2, TxSubmitChannelSize = 1) TLC reports a shorter
\* trace instead: BuildBlock returns on a getCurrentBlock error and leaves the
\* flag set, so every later transaction is coalesced.
CONSTANTS
    MaxMempool = 3
    MaxHeight = 2
    TxSubmitChannelSize = 2
    ToEngineSize = 1
    RetryDelay = 1
    TargetBlockTime = 2
    CurrentBlockMayFail = FALSE
    WaitForEventUsed = FALSE
    s1 = s1
    s2 = s2
    SchedSlots <- MC_SchedSlots
SPECIFICATION Spec
PROPERTY TxsEventuallyBuilt
\* After Shutdown every goroutine exits and the VM really stops.
CHECK_DEADLOCK FALSE
