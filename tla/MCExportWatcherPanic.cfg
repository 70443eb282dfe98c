\* A transaction with the export shape whose log entry 1 is an integer.
CONSTANTS
    x5 = x5
    x7 = x7
    xb = xb
    xn = xn
    xi = xi
    xo = xo
    NoRow = NoRow
    TxId <- MCTxId
    Amount <- MCAmount
    Log <- MCLog
    Locked <- MCLocked
    RefAmt <- MCRefAmt
    Chain <- MCChainNonBytes
    MaxCrash = 0
SPECIFICATION Spec
INVARIANTS NoPanic
\* The pin stops at the chain's head and waits for the next block.
CHECK_DEADLOCK FALSE
