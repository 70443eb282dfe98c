\* Safety and settlement of the peg-out pipeline, with every ledger answer
\* and one crash of the custodian.
CONSTANTS
    e1 = e1
    e2 = e2
    NoTx = NoTx
    Export <- MCExport
    Outcome <- MCOutcomeAll
    MaxCrash = 1
SPECIFICATION Spec
INVARIANTS TypeOK RetiredOnlyIfPaid
PROPERTIES MonotonePeggedOut TerminalEventuallySettled ImplementsAbstract
\* The custodian is a server: once every export is settled it idles until
\* the next export or the next tick, which is not a deadlock.
CHECK_DEADLOCK FALSE
