\* A ledger that applies every peg-out and always answers, no crash: the
\* minute sweep alone repays an export that was paid out.
CONSTANTS
    e1 = e1
    e2 = e2
    NoTx = NoTx
    Export <- MCExport
    Outcome <- MCOutcomeApplied
    MaxCrash = 0
SPECIFICATION Spec
INVARIANTS NoDoubleRedemption
CHECK_DEADLOCK FALSE
