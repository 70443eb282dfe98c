------------------------------- MODULE PegOut -------------------------------
(***************************************************************************)
(* The export -> peg-out -> settlement half of the slidechain custodian.   *)
(*                                                                         *)
(*  - the exporter's client: SubmitPreExportTx opens a temporary main-     *)
(*    ledger account whose only signer is the pre-authorised peg-out       *)
(*    transaction, BuildExportTx locks the value in the export contract    *)
(*    on the side ledger (export.go);                                      *)
(*  - watchExports records each export in the exports table and            *)
(*    broadcasts c.exports (part_001);                                     *)
(*  - pegOutFromExports: a waiter goroutine turning c.exports broadcasts   *)
(*    into sends on an unbuffered channel, and the consumer loop that      *)
(*    re-queries the not-yet/retry rows, submits each peg-out, classifies  *)
(*    the reply, writes pegged_out and forwards ok/fail rows (export.go);  *)
(*  - watchPegOuts: receives forwarded rows and sweeps the ok/fail rows    *)
(*    every minute, calling doPostPegOut, which retires (success) or       *)
(*    repays (failure) the locked value (part_001; doPostPegOut itself is  *)
(*    not in the source and is modelled from the spec, section 4.5).       *)
(*  - a crash of the custodian process loses every goroutine's memory;     *)
(*    the ledgers and the exports table survive.                           *)
(***************************************************************************)
EXTENDS Naturals, FiniteSets

CONSTANTS
    Export,     \* side-ledger transaction ids of exports (model values)
    Outcome,    \* what the main ledger may do with one peg-out submission
    MaxCrash,   \* bound on custodian process crashes
    NoTx        \* "no transaction": the consumer's cur before any row

(***************************************************************************)
(* The main ledger's possible answers to a submission of the pre-         *)
(* authorised transaction while the temporary account is open:            *)
(*   applied      merged and paid, reply is success                        *)
(*   appliedLost  merged and paid, but the client sees a transport error   *)
(*   timeout      never reached the ledger, the client sees a transport    *)
(*                error                                                    *)
(*   badSeq       rejected with tx_bad_seq, nothing changes                *)
(*   failed       an operation failed (e.g. no trustline): the sequence    *)
(*                number is consumed and the pre-auth signer removed       *)
(***************************************************************************)
AllOutcomes == {"applied", "appliedLost", "timeout", "badSeq", "failed"}

ASSUME ConstantsAssumption ==
    /\ IsFiniteSet(Export)
    /\ Outcome \subseteq AllOutcomes
    /\ MaxCrash \in Nat
    /\ NoTx \notin Export

VARIABLES
    temp,     \* main ledger: the temporary account of each export
    locked,   \* side ledger: the value held by each export contract
    pegged,   \* exports table: the pegged_out column ("absent" = no row)
    waiter,   \* pc of the goroutine that waits on c.exports
    cpc,      \* pc of the pegOutFromExports consumer loop
    todo,     \* txids of the consumer's current query snapshot not yet done
    cur,      \* the txid the consumer is working on
    res,      \* peggedOut: the state the consumer classified for cur
    fq,       \* watchPegOuts: <<txid, State>> pairs still to doPostPegOut
    crashes   \* crashes so far

vars == <<temp, locked, pegged, waiter, cpc, todo, cur, res, fq, crashes>>

TempState   == {"none", "open", "merged", "spent"}
LockState   == {"none", "locked", "retired", "repaid"}
PegOutState == {"notyet", "ok", "retry", "fail"}
Reply       == {"success", "txBadSeq", "txFailed", "transport"}

TypeOK ==
    /\ temp \in [Export -> TempState]
    /\ locked \in [Export -> LockState]
    /\ pegged \in [Export -> PegOutState \cup {"absent"}]
    /\ waiter \in {"start", "wait", "send"}
    /\ cpc \in {"idle", "loop", "update", "forward"}
    /\ todo \subseteq Export
    /\ cur \in Export \cup {NoTx}
    /\ res \in PegOutState
    /\ fq \subseteq Export \X PegOutState
    /\ crashes \in 0..MaxCrash

Init ==
    /\ temp = [e \in Export |-> "none"]
    /\ locked = [e \in Export |-> "none"]
    /\ pegged = [e \in Export |-> "absent"]
    /\ waiter = "start"
    /\ cpc = "idle"
    /\ todo = {}
    /\ cur = NoTx
    /\ res = "notyet"
    /\ fq = {}
    /\ crashes = 0

(***************************************************************************)
(* Exporter's client.                                                      *)
(***************************************************************************)

\* SubmitPreExportTx: create the temp account, make the pre-authorised
\* peg-out transaction its only signer.
SubmitPreExportTx(e) ==
    /\ temp[e] = "none"
    /\ temp' = [temp EXCEPT ![e] = "open"]
    /\ UNCHANGED <<locked, pegged, waiter, cpc, todo, cur, res, fq, crashes>>

\* BuildExportTx (submitted by the exporter): lock the value in the
\* two-stage export contract, naming the temp account in its reference.
BuildExportTx(e) ==
    /\ temp[e] = "open"
    /\ locked[e] = "none"
    /\ locked' = [locked EXCEPT ![e] = "locked"]
    /\ UNCHANGED <<temp, pegged, waiter, cpc, todo, cur, res, fq, crashes>>

(***************************************************************************)
(* watchExports: INSERT the export row, then c.exports.Broadcast().        *)
(* Broadcast does not take c.exports.L: it wakes the waiter only if the    *)
(* waiter is inside Wait at that moment.                                   *)
(***************************************************************************)
Broadcast == waiter' = IF waiter = "wait" THEN "send" ELSE waiter

RecordExport(e) ==
    /\ locked[e] # "none"
    /\ pegged[e] = "absent"
    /\ pegged' = [pegged EXCEPT ![e] = "notyet"]
    /\ Broadcast
    /\ UNCHANGED <<temp, locked, cpc, todo, cur, res, fq, crashes>>

(***************************************************************************)
(* pegOutFromExports.                                                      *)
(***************************************************************************)

\* The waiter goroutine, holding c.exports.L, checks ctx and calls Wait.
WaiterWait ==
    /\ waiter = "start"
    /\ waiter' = "wait"
    /\ UNCHANGED <<temp, locked, pegged, cpc, todo, cur, res, fq, crashes>>

\* Mutant: the query also selects OK rows.
PendingWithOK == {e \in Export : pegged[e] \in {"notyet", "retry", "ok"}}

\* SELECT txid, pegout_json FROM exports WHERE pegged_out IN (NotYet, Retry)
Pending == {e \in Export : pegged[e] \in {"notyet", "retry"}}

\* The consumer receives from ch (completing the waiter's send) and
\* snapshots the pending rows.
ConsumerWake ==
    /\ cpc = "idle"
    /\ waiter = "send"
    /\ waiter' = "start"
    /\ todo' = Pending
    /\ cpc' = "loop"
    /\ UNCHANGED <<temp, locked, pegged, cur, res, fq, crashes>>

ConsumerLoopDone ==
    /\ cpc = "loop"
    /\ todo = {}
    /\ cpc' = "idle"
    /\ UNCHANGED <<temp, locked, pegged, waiter, todo, cur, res, fq, crashes>>

\* What the main ledger does with the pre-authorised transaction, and the
\* reply the client returns: the temp account only accepts it while open.
LedgerStep(e, o, reply) ==
    IF temp[e] = "open"
    THEN \/ /\ o \in {"applied", "appliedLost"}
            /\ temp' = [temp EXCEPT ![e] = "merged"]
            /\ reply = IF o = "applied" THEN "success" ELSE "transport"
         \/ /\ o = "timeout"
            /\ temp' = temp
            /\ reply = "transport"
         \/ /\ o = "badSeq"
            /\ temp' = temp
            /\ reply = "txBadSeq"
         \/ /\ o = "failed"
            /\ temp' = [temp EXCEPT ![e] = "spent"]
            /\ reply = "txFailed"
    ELSE /\ temp' = temp
         /\ reply = "txFailed"

\* Mutant: only an equator error counts as a failure; any other error
\* (a transport error) leaves peggedOut at OK.
ClassifyEquatorOnly(reply) ==
    CASE reply = "success"  -> "ok"
      [] reply = "txBadSeq" -> "retry"
      [] reply = "txFailed" -> "fail"
      [] OTHER              -> "ok"

\* peggedOut: OK unless pegOut returned an error; an equator error whose
\* transaction result code is tx_bad_seq gives Retry, any other error Fail.
Classify(reply) ==
    CASE reply = "success"  -> "ok"
      [] reply = "txBadSeq" -> "retry"
      [] OTHER              -> "fail"

\* c.pegOut: build, sign and submit the peg-out transaction of a row.
SubmitPegOut(e) ==
    /\ cpc = "loop"
    /\ e \in todo
    /\ \E o \in Outcome, reply \in Reply :
          /\ LedgerStep(e, o, reply)
          /\ res' = Classify(reply)
    /\ todo' = todo \ {e}
    /\ cur' = e
    /\ cpc' = "update"
    /\ UNCHANGED <<locked, pegged, waiter, fq, crashes>>

\* Mutant: the UPDATE's two parameters swapped, the txid written into
\* pegged_out of the row.
UpdatePeggedOutSwapped ==
    /\ cpc = "update"
    /\ pegged' = [pegged EXCEPT ![cur] = cur]
    /\ cpc' = IF res \in {"ok", "fail"} THEN "forward" ELSE "loop"
    /\ UNCHANGED <<temp, locked, waiter, todo, cur, res, fq, crashes>>

\* UPDATE exports SET pegged_out=$1 WHERE txid=$2 (one row affected).
UpdatePeggedOut ==
    /\ cpc = "update"
    /\ pegged' = [pegged EXCEPT ![cur] = res]
    /\ cpc' = IF res \in {"ok", "fail"} THEN "forward" ELSE "loop"
    /\ UNCHANGED <<temp, locked, waiter, todo, cur, res, fq, crashes>>

(***************************************************************************)
(* watchPegOuts.  Its select takes the channel or the ticker only when the *)
(* previous batch is done (fq = {}).                                       *)
(***************************************************************************)

\* pegouts <- p with p.State = peggedOut: a rendezvous on the unbuffered
\* channel.
ReceivePegOut ==
    /\ cpc = "forward"
    /\ fq = {}
    /\ fq' = {<<cur, res>>}
    /\ cpc' = "loop"
    /\ UNCHANGED <<temp, locked, pegged, waiter, todo, cur, res, crashes>>

\* Mutant: the sweep also selects the retry rows.
SweepRowsWithRetry == {e \in Export : pegged[e] \in {"ok", "fail", "retry"}}

\* Mutant: the sweep selects the OK rows only.
SweepRowsOKOnly == {e \in Export : pegged[e] = "ok"}

\* Every minute: SELECT the OK and Fail rows and json.Unmarshal each into a
\* fresh pegOut.  State is tagged json:"-", so it keeps its zero value,
\* pegOutNotYet.
SweepRows == {e \in Export : pegged[e] \in {"ok", "fail"}}

Sweep ==
    /\ fq = {}
    /\ fq' = {<<e, "notyet">> : e \in SweepRows}
    /\ UNCHANGED <<temp, locked, pegged, waiter, cpc, todo, cur, res, crashes>>

\* doPostPegOut (spec 4.5): retire the locked value when p.State is OK,
\* repay it to the exporter otherwise; the side ledger rejects a second
\* settlement because the contract's value is consumed once.
DoPostPegOut(p) ==
    /\ p \in fq
    /\ fq' = fq \ {p}
    /\ locked' = IF locked[p[1]] = "locked"
                 THEN [locked EXCEPT ![p[1]] =
                          IF p[2] = "ok" THEN "retired" ELSE "repaid"]
                 ELSE locked
    /\ UNCHANGED <<temp, pegged, waiter, cpc, todo, cur, res, crashes>>

(***************************************************************************)
(* A crash of the process: every goroutine restarts from its beginning.    *)
(***************************************************************************)
Crash ==
    /\ crashes < MaxCrash
    /\ crashes' = crashes + 1
    /\ waiter' = "start"
    /\ cpc' = "idle"
    /\ todo' = {}
    /\ cur' = NoTx
    /\ res' = "notyet"
    /\ fq' = {}
    /\ UNCHANGED <<temp, locked, pegged>>

Environment ==
    \E e \in Export : SubmitPreExportTx(e) \/ BuildExportTx(e)

ConsumerStep ==
    \/ ConsumerWake
    \/ ConsumerLoopDone
    \/ \E e \in Export : SubmitPegOut(e)
    \/ UpdatePeggedOut

FinalizerPost == \E p \in fq : DoPostPegOut(p)

Next ==
    \/ Environment
    \/ \E e \in Export : RecordExport(e)
    \/ WaiterWait
    \/ ConsumerStep
    \/ ReceivePegOut
    \/ Sweep
    \/ FinalizerPost
    \/ Crash

(***************************************************************************)
(* Go's scheduler runs every runnable goroutine (weak fairness); a select  *)
(* with several ready cases picks one uniformly at random, so the channel  *)
(* and the ticker cases, each ready again and again, are strongly fair.    *)
(* watchExports is driven by the pin, which delivers every committed block *)
(* (weak fairness).  The exporters and crashes get no fairness.            *)
(***************************************************************************)
Fairness ==
    /\ WF_vars(\E e \in Export : RecordExport(e))
    /\ WF_vars(WaiterWait)
    /\ WF_vars(ConsumerStep)
    /\ WF_vars(FinalizerPost)
    /\ SF_vars(ReceivePegOut)
    /\ SF_vars(Sweep)

Spec == Init /\ [][Next]_vars /\ Fairness

-----------------------------------------------------------------------------
(***************************************************************************)
(* Properties.                                                             *)
(***************************************************************************)

\* The main ledger pays an export out exactly when its temp account merged.
PaidOut(e) == temp[e] = "merged"

(***************************************************************************)
(* No loss for the exporter: the locked value of an export is retired on   *)
(* the side ledger only if the main ledger paid the export out.  Broken by *)
(* a classification of pegOut's error that reports OK for a submission     *)
(* that never reached the ledger.                                          *)
(***************************************************************************)
RetiredOnlyIfPaid ==
    \A e \in Export : locked[e] = "retired" => PaidOut(e)

(***************************************************************************)
(* No double redemption: an export is never both paid out on the main      *)
(* ledger and repaid on the side ledger (spec section 1: every exported    *)
(* unit is pegged out exactly once, no double-spend).                      *)
(***************************************************************************)
NoDoubleRedemption ==
    \A e \in Export : ~(PaidOut(e) /\ locked[e] = "repaid")

(***************************************************************************)
(* Monotone pegged_out (spec section 8): the consumer's UPDATE only moves  *)
(* a row from not-yet to retry/ok/fail or from retry to retry/ok/fail; an  *)
(* ok or fail row is never rewritten to another state, even though the     *)
(* consumer writes from a snapshot taken before its submissions.           *)
(***************************************************************************)
Allowed(from, to) ==
    \/ from = to
    \/ from = "absent" /\ to = "notyet"
    \/ from \in {"notyet", "retry"} /\ to \in {"retry", "ok", "fail"}

MonotonePeggedOut ==
    [][\A e \in Export : Allowed(pegged[e], pegged'[e])]_pegged

(***************************************************************************)
(* Settlement after a restart (spec 4.5): once a row is ok or fail, its    *)
(* locked value is eventually retired or repaid, even when the forward on  *)
(* the channel was lost to a crash: the minute sweep catches it.           *)
(***************************************************************************)
TerminalEventuallySettled ==
    \A e \in Export :
        pegged[e] \in {"ok", "fail"} ~> locked[e] \in {"retired", "repaid"}

(***************************************************************************)
(* Every recorded export is eventually pegged out (spec 4.4, 5: a wake-up  *)
(* only means "re-query the store", so no export is missed).  Broken by a  *)
(* Broadcast that arrives while the waiter is not inside Wait.             *)
(***************************************************************************)
EveryExportPeggedOut ==
    \A e \in Export :
        pegged[e] \in {"notyet", "retry"} ~> pegged[e] \in {"ok", "fail"}

(***************************************************************************)
(* The pipeline implements its abstract specification (PegOutAbstract):   *)
(* seen through the temp accounts, the locked values and the pegged_out    *)
(* column alone, every step of the goroutines is a step of the abstract    *)
(* per-export life cycle or leaves all three unchanged.  It fails when the *)
(* consumer writes pegged_out from a stale snapshot, marks ok without a    *)
(* payout, or the finalizer settles a row that is not terminal.            *)
(***************************************************************************)
Abstract == INSTANCE PegOutAbstract
            WITH temp <- temp, locked <- locked, pegged <- pegged, Export <- Export

ImplementsAbstract == Abstract!Spec

=============================================================================
