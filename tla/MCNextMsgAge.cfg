SPECIFICATION NMSpec
CONSTANTS
    NMMaxMsgs = 0
    NMMaxAge = TRUE
    NMMaxSeq = 4
INVARIANTS NoSkip
