\* Spec sections 5 and 9: a blocked WaitForEvent with a reason to return returns
\* (host engine calls WaitForEvent).
CONSTANTS
    MaxMempool = 1
    MaxHeight = 1
    TxSubmitChannelSize = 1
    ToEngineSize = 1
    RetryDelay = 1
    TargetBlockTime = 2
    CurrentBlockMayFail = FALSE
    WaitForEventUsed = TRUE
    s1 = s1
    s2 = s2
    SchedSlots <- MC_SchedSlots
SPECIFICATION Spec
PROPERTY WaitForEventReturns
\* After Shutdown every goroutine exits and the VM really stops.
CHECK_DEADLOCK FALSE
