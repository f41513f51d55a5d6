SPECIFICATION RsSpec
CONSTANTS
    RsMaxSeq = 4
    RestoreBatch = 2
    restoreMsgsAttempts = 2
    ProceedOnRestoreFailure = FALSE
    RsMaxLost = 1
INVARIANT LastSeqKept
CHECK_DEADLOCK FALSE
