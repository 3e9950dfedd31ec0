\* Spec section 8: the retry window and the target block interval (toEngine path only).
CONSTANTS
    MaxMempool = 2
    MaxHeight = 2
    TxSubmitChannelSize = 1
    ToEngineSize = 1
    RetryDelay = 1
    TargetBlockTime = 2
    CurrentBlockMayFail = FALSE
    WaitForEventUsed = FALSE
    s1 = s1
    s2 = s2
    SchedSlots <- MC_SchedSlots
SPECIFICATION Spec
PROPERTY BuildSignalNotPremature
\* After Shutdown every goroutine exits and the VM really stops.
CHECK_DEADLOCK FALSE
