\* A ledger that applies every peg-out and always answers, no crash: a
\* recorded export waits forever when its Broadcast finds no waiter in Wait.
CONSTANTS
    e1 = e1
    e2 = e2
    NoTx = NoTx
    Export <- MCExport
    Outcome <- MCOutcomeApplied
    MaxCrash = 0
SPECIFICATION Spec
PROPERTIES EveryExportPeggedOut
CHECK_DEADLOCK FALSE
