\* A crash in a block of two exports: the replay of the block never gets past its first INSERT.
CONSTANTS
    x5 = x5
    x7 = x7
    xb = xb
    xn = xn
    xi = xi
    xo = xo
    NoRow = NoRow
    TxId <- MCTxId
    Amount <- MCAmount
    Log <- MCLog
    Locked <- MCLocked
    RefAmt <- MCRefAmt
    Chain <- MCChainTwoExports
    MaxCrash = 1
SPECIFICATION Spec
PROPERTIES EveryExportRecorded
\* The pin stops at the chain's head and waits for the next block.
CHECK_DEADLOCK FALSE
