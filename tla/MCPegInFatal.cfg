\* Honest-looking history: the only question is whether a restart can make
\* the watcher exit with log.Fatal on well-formed input.
CONSTANTS
    n1 = n1
    n2 = n2
    noMemo = noMemo
    Nonce <- MCNonce
    NoMemo <- noMemo
    Amount <- MCAmount
    MaxTx = 2
    MaxOps = 1
    MaxCrash = 1
    Honest = TRUE
SPECIFICATION Spec
INVARIANTS NoFatalExit
CHECK_DEADLOCK FALSE
