--------------------------- MODULE MCExportWatcher ---------------------------
(***************************************************************************)
(* Chains for the export watcher: the exporter's transactions with and     *)
(* without change, transactions the recogniser must skip, and transactions *)
(* written by hand to pass the recogniser.                                 *)
(***************************************************************************)
EXTENDS ExportWatcher

CONSTANTS
    x5,     \* an export without change (5 log entries)
    x7,     \* an export with change (7 log entries)
    xb,     \* export shape, but log entry 1 holds bytes that are not JSON
    xn,     \* an ordinary transfer (input, output, finalize)
    xi,     \* export shape, log entry 1 holds an integer
    xo      \* export shape, JSON amount larger than the value it locks

MCTxId == {x5, x7, xb, xn, xi, xo}

MCAmount == {1, 2}

MCLog ==
    [t \in MCTxId |->
        CASE t = x5 -> ExportTxLog(FALSE)
          [] t = x7 -> ExportTxLog(TRUE)
          [] t = xb -> [ExportTxLog(FALSE) EXCEPT ![2].item = "bytes"]
          [] t = xn -> <<E("I", "other", "bytes"), E("O", "other", "bytes"),
                         E("F", "other", "bytes")>>
          [] t = xi -> [ExportTxLog(TRUE) EXCEPT ![2].item = "nonbytes"]
          [] t = xo -> ExportTxLog(FALSE)]

MCLocked == [t \in MCTxId |-> 1]

MCRefAmt == [t \in MCTxId |-> IF t = xo THEN 2 ELSE 1]

\* Blocks with an export and a transaction to skip; the last one also
\* holds the transaction that panics the handler.
MCChainMixed == << <<x5, xb>>, <<xn, x7>>, <<xo, xi>> >>

\* A block with two exports.
MCChainTwoExports == << <<x5, x7>>, <<xn>> >>

MCChainNonBytes == << <<xn, xi>> >>

MCChainOverclaim == << <<xo>> >>
=============================================================================
