\* Cursor and observed-amount safety of the peg-in watcher, with any
\* payments, log.Fatal restarts and one crash.
CONSTANTS
    n1 = n1
    n2 = n2
    noMemo = noMemo
    Nonce <- MCNonce
    NoMemo <- noMemo
    Amount <- MCAmount
    MaxTx = 2
    MaxOps = 2
    MaxCrash = 1
    Honest = FALSE
SPECIFICATION Spec
INVARIANTS PegInTypeOK CursorSound ObservedAmountIsFirst
PROPERTIES PegInImplementsAbstract
\* After the last transaction the watcher blocks on the stream.
CHECK_DEADLOCK FALSE
