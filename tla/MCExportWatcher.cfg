\* No export is skipped, with two crashes anywhere in the pin's work.
CONSTANTS
    x5 = x5
    x7 = x7
    xb = xb
    xn = xn
    xi = xi
    xo = xo
    NoRow = NoRow
    TxId <- MCTxId
    Amount <- MCAmount
    Log <- MCLog
    Locked <- MCLocked
    RefAmt <- MCRefAmt
    Chain <- MCChainMixed
    MaxCrash = 2
SPECIFICATION Spec
INVARIANTS ExportWatcherTypeOK NoneSkipped
\* The pin stops at the chain's head and waits for the next block.
CHECK_DEADLOCK FALSE
