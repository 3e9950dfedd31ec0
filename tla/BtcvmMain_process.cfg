\* Command lines of up to two arguments, up to two signals at any moment and
\* directory creation that may fail: every exit path of main and btcvmMain,
\* a signal before and after signal.Notify, a second signal while the first
\* is buffered, and Serve returning nil or an error.
CONSTANTS
    MaxArgs = 2
    MaxSignals = 2
    MkdirMayFail = TRUE
SPECIFICATION Spec
PROPERTY SignalEndsProcess
\* The process exits: every goroutine stops with it.
CHECK_DEADLOCK FALSE
