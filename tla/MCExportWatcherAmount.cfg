\* A transaction whose reference JSON claims more than the value it locks.
CONSTANTS
    x5 = x5
    x7 = x7
    xb = xb
    xn = xn
    xi = xi
    xo = xo
    NoRow = NoRow
    TxId <- MCTxId
    Amount <- MCAmount
    Log <- MCLog
    Locked <- MCLocked
    RefAmt <- MCRefAmt
    Chain <- MCChainOverclaim
    MaxCrash = 0
SPECIFICATION Spec
INVARIANTS RecordedAmountLocked
\* The pin stops at the chain's head and waits for the next block.
CHECK_DEADLOCK FALSE
