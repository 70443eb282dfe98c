---------------------------- MODULE PegOutProofs ----------------------------
(***************************************************************************)
(* Proofs about the peg-out pipeline (module PegOut), for every set of     *)
(* exports, every set of ledger outcomes and every crash bound.            *)
(***************************************************************************)
EXTENDS PegOut, TLAPS

-----------------------------------------------------------------------------
(***************************************************************************)
(* Type correctness.                                                       *)
(***************************************************************************)

\* The classification of a reply is one of the four pegged_out states.
LEMMA ClassifyType ==
    ASSUME NEW r \in Reply
    PROVE  Classify(r) \in PegOutState
BY DEF Classify, PegOutState, Reply

\* A ledger step keeps the temp accounts typed.
LEMMA LedgerStepType ==
    ASSUME TypeOK, NEW e \in Export, NEW o, NEW r, LedgerStep(e, o, r)
    PROVE  temp' \in [Export -> TempState]
BY DEF LedgerStep, TypeOK, TempState

(***************************************************************************)
(* TypeOK alone is not inductive: forwarding <<cur, res>> needs cur to be  *)
(* an export whenever the consumer is between its submission and its       *)
(* forward.                                                                *)
(***************************************************************************)
CurDefined == cpc \in {"update", "forward"} => cur \in Export

TypeInv == TypeOK /\ CurDefined

LEMMA TypeInvInductive == TypeInv /\ [Next]_vars => TypeInv'
<1> SUFFICES ASSUME TypeOK, CurDefined, [Next]_vars PROVE TypeOK' /\ CurDefined'
    BY DEF TypeInv
<1> USE DEF CurDefined
<1>1. ASSUME NEW e \in Export, SubmitPreExportTx(e) PROVE TypeOK' /\ CurDefined'
    BY <1>1 DEF SubmitPreExportTx, TypeOK, TempState
<1>2. ASSUME NEW e \in Export, BuildExportTx(e) PROVE TypeOK' /\ CurDefined'
    BY <1>2 DEF BuildExportTx, TypeOK, LockState
<1>3. ASSUME NEW e \in Export, RecordExport(e) PROVE TypeOK' /\ CurDefined'
    BY <1>3 DEF RecordExport, Broadcast, TypeOK, PegOutState
<1>4. CASE WaiterWait
    BY <1>4 DEF WaiterWait, TypeOK
<1>5. CASE ConsumerWake
    BY <1>5 DEF ConsumerWake, Pending, TypeOK
<1>6. CASE ConsumerLoopDone
    BY <1>6 DEF ConsumerLoopDone, TypeOK
<1>7. ASSUME NEW e \in Export, SubmitPegOut(e) PROVE TypeOK' /\ CurDefined'
    <2>1. PICK o \in Outcome, r \in Reply :
                LedgerStep(e, o, r) /\ res' = Classify(r)
        BY <1>7 DEF SubmitPegOut
    <2>2. temp' \in [Export -> TempState]
        BY <2>1, LedgerStepType
    <2>3. res' \in PegOutState
        BY <2>1, ClassifyType
    <2>4. QED
        BY <1>7, <2>2, <2>3 DEF SubmitPegOut, TypeOK
<1>8. CASE UpdatePeggedOut
    BY <1>8 DEF UpdatePeggedOut, TypeOK, PegOutState
<1>9. CASE ReceivePegOut
    BY <1>9 DEF ReceivePegOut, TypeOK
<1>10. CASE Sweep
    BY <1>10 DEF Sweep, SweepRows, TypeOK, PegOutState
<1>11. ASSUME NEW p \in fq, DoPostPegOut(p) PROVE TypeOK' /\ CurDefined'
    BY <1>11 DEF DoPostPegOut, TypeOK, LockState
<1>12. CASE Crash
    BY <1>12, ConstantsAssumption DEF Crash, TypeOK, PegOutState
<1>13. CASE UNCHANGED vars
    BY <1>13 DEF vars, TypeOK
<1>14. QED
    BY <1>1, <1>2, <1>3, <1>4, <1>5, <1>6, <1>7, <1>8, <1>9, <1>10, <1>11,
       <1>12, <1>13
    DEF Next, Environment, ConsumerStep, FinalizerPost

\* Every reachable state is well typed.
THEOREM TypeCorrect == Spec => []TypeOK
<1>1. Init => TypeInv
    BY ConstantsAssumption
    DEF Init, TypeInv, TypeOK, CurDefined, TempState, LockState, PegOutState
<1>2. TypeInv => TypeOK
    BY DEF TypeInv
<1>3. QED
    BY <1>1, <1>2, TypeInvInductive, PTL DEF Spec

-----------------------------------------------------------------------------
(***************************************************************************)
(* No loss for the exporter: retired implies paid out.                     *)
(*                                                                         *)
(* RetiredOnlyIfPaid is not inductive: a retirement comes from a <<e, ok>> *)
(* pair in the finalizer's queue, which comes from the consumer's res at   *)
(* its forward, which comes from the reply to its submission.  The         *)
(* strengthening says that "ok" anywhere along that path means the temp    *)
(* account has merged, and a merged account stays merged.                  *)
(***************************************************************************)
OkPaid ==
    /\ \A e \in Export : pegged[e] = "ok" => PaidOut(e)
    /\ cpc \in {"update", "forward"} /\ res = "ok" => PaidOut(cur)
    /\ \A p \in fq : p[2] = "ok" => PaidOut(p[1])
    /\ RetiredOnlyIfPaid

Inv == TypeInv /\ OkPaid

\* Only a success reply is classified OK.
LEMMA ClassifyOK ==
    ASSUME NEW r \in Reply, Classify(r) = "ok"
    PROVE  r = "success"
BY DEF Classify, Reply

\* A success reply means the temp account merged in this very step.
LEMMA SuccessMerges ==
    ASSUME TypeOK, NEW e \in Export, NEW o, NEW r, LedgerStep(e, o, r),
           r = "success"
    PROVE  temp'[e] = "merged"
BY DEF LedgerStep, TypeOK

\* The ledger never un-merges a temp account.
LEMMA LedgerStepKeepsMerged ==
    ASSUME TypeOK, NEW e \in Export, NEW o, NEW r, LedgerStep(e, o, r),
           NEW x \in Export, temp[x] = "merged"
    PROVE  temp'[x] = "merged"
BY DEF LedgerStep, TypeOK

LEMMA OkPaidInductive == Inv /\ [Next]_vars => OkPaid'
<1> SUFFICES ASSUME TypeOK, CurDefined, OkPaid, [Next]_vars PROVE OkPaid'
    BY DEF Inv, TypeInv
<1> USE DEF OkPaid, RetiredOnlyIfPaid, PaidOut
<1>1. ASSUME NEW e \in Export, SubmitPreExportTx(e) PROVE OkPaid'
    BY <1>1 DEF SubmitPreExportTx, TypeOK
<1>2. ASSUME NEW e \in Export, BuildExportTx(e) PROVE OkPaid'
    BY <1>2 DEF BuildExportTx, TypeOK
<1>3. ASSUME NEW e \in Export, RecordExport(e) PROVE OkPaid'
    BY <1>3 DEF RecordExport, Broadcast, TypeOK
<1>4. CASE WaiterWait
    BY <1>4 DEF WaiterWait
<1>5. CASE ConsumerWake
    BY <1>5 DEF ConsumerWake
<1>6. CASE ConsumerLoopDone
    BY <1>6 DEF ConsumerLoopDone
<1>7. ASSUME NEW e \in Export, SubmitPegOut(e) PROVE OkPaid'
    <2>1. PICK o \in Outcome, r \in Reply :
                LedgerStep(e, o, r) /\ res' = Classify(r)
        BY <1>7 DEF SubmitPegOut
    <2>2. \A x \in Export : temp[x] = "merged" => temp'[x] = "merged"
        BY <2>1, LedgerStepKeepsMerged
    <2>3. res' = "ok" => temp'[e] = "merged"
        BY <2>1, ClassifyOK, SuccessMerges
    <2>4. cur' = e /\ cpc' = "update"
        BY <1>7 DEF SubmitPegOut
    <2>5. UNCHANGED <<locked, pegged, fq>>
        BY <1>7 DEF SubmitPegOut
    <2>6. fq \subseteq Export \X PegOutState
        BY DEF TypeOK
    <2>7. QED
        BY <2>2, <2>3, <2>4, <2>5, <2>6
<1>8. CASE UpdatePeggedOut
    BY <1>8 DEF UpdatePeggedOut, TypeOK
<1>9. CASE ReceivePegOut
    BY <1>9 DEF ReceivePegOut
<1>10. CASE Sweep
    BY <1>10 DEF Sweep
<1>11. ASSUME NEW p \in fq, DoPostPegOut(p) PROVE OkPaid'
    <2>1. p[1] \in Export /\ p[2] \in PegOutState
        BY DEF TypeOK
    <2>2. QED
        BY <1>11, <2>1 DEF DoPostPegOut, TypeOK
<1>12. CASE Crash
    BY <1>12 DEF Crash
<1>13. CASE UNCHANGED vars
    BY <1>13 DEF vars
<1>14. QED
    BY <1>1, <1>2, <1>3, <1>4, <1>5, <1>6, <1>7, <1>8, <1>9, <1>10, <1>11,
       <1>12, <1>13
    DEF Next, Environment, ConsumerStep, FinalizerPost

\* The locked value of an export is retired only after its main-ledger
\* payout: the custodian never burns value it has not paid out.
THEOREM RetiredImpliesPaid == Spec => []RetiredOnlyIfPaid
<1>1. Init => Inv
    BY ConstantsAssumption
    DEF Init, Inv, TypeInv, TypeOK, CurDefined, OkPaid, RetiredOnlyIfPaid,
        PaidOut, TempState, LockState, PegOutState
<1>2. Inv /\ [Next]_vars => Inv'
    BY TypeInvInductive, OkPaidInductive DEF Inv
<1>3. Inv => RetiredOnlyIfPaid
    BY DEF Inv, OkPaid
<1>4. QED
    BY <1>1, <1>2, <1>3, PTL DEF Spec

-----------------------------------------------------------------------------
(***************************************************************************)
(* The pipeline's bookkeeping.  What the consumer and the finalizer hold   *)
(* in memory agrees with the exports table: the snapshot only names rows   *)
(* that are still not-yet or retry, the row being updated is one of them   *)
(* and no longer in the snapshot, a forwarded row is already terminal in   *)
(* the table with the state forwarded, and the finalizer's batch only      *)
(* names terminal rows.  No step can make a row in memory stale, because   *)
(* only the consumer writes not-yet and retry rows.                        *)
(***************************************************************************)
PipeInv ==
    /\ \A e \in todo : pegged[e] \in {"notyet", "retry"}
    /\ cpc \in {"update", "forward"} => cur \notin todo
    /\ cpc = "update" => /\ pegged[cur] \in {"notyet", "retry"}
                         /\ res \in {"retry", "ok", "fail"}
    /\ cpc = "forward" => /\ pegged[cur] = res
                          /\ res \in {"ok", "fail"}
    /\ \A p \in fq : pegged[p[1]] \in {"ok", "fail"}

RInv == Inv /\ PipeInv

\* A reply is never classified not-yet.
LEMMA ClassifyTerminal ==
    ASSUME NEW r \in Reply
    PROVE  Classify(r) \in {"retry", "ok", "fail"}
BY DEF Classify, Reply

LEMMA PipeInvInductive == RInv /\ [Next]_vars => PipeInv'
<1> SUFFICES ASSUME TypeOK, CurDefined, PipeInv, [Next]_vars PROVE PipeInv'
    BY DEF RInv, Inv, TypeInv
<1> USE DEF PipeInv
<1>1. ASSUME NEW e \in Export, SubmitPreExportTx(e) PROVE PipeInv'
    BY <1>1 DEF SubmitPreExportTx
<1>2. ASSUME NEW e \in Export, BuildExportTx(e) PROVE PipeInv'
    BY <1>2 DEF BuildExportTx
<1>3. ASSUME NEW e \in Export, RecordExport(e) PROVE PipeInv'
    \* The new row is absent from everything the pipeline holds in memory.
    <2>1. /\ e \notin todo
          /\ cpc = "update" => cur # e
          /\ \A p \in fq : p[1] # e
        BY <1>3 DEF RecordExport
    <2>2. QED
        BY <1>3, <2>1 DEF RecordExport, TypeOK, CurDefined
<1>4. CASE WaiterWait
    BY <1>4 DEF WaiterWait
<1>5. CASE ConsumerWake
    BY <1>5 DEF ConsumerWake, Pending
<1>6. CASE ConsumerLoopDone
    BY <1>6 DEF ConsumerLoopDone
<1>7. ASSUME NEW e \in Export, SubmitPegOut(e) PROVE PipeInv'
    <2>1. PICK o \in Outcome, r \in Reply :
                LedgerStep(e, o, r) /\ res' = Classify(r)
        BY <1>7 DEF SubmitPegOut
    <2>2. res' \in {"retry", "ok", "fail"}
        BY <2>1, ClassifyTerminal
    <2>3. QED
        BY <1>7, <2>2 DEF SubmitPegOut
<1>8. CASE UpdatePeggedOut
    \* The updated row is neither in the snapshot nor in the batch.
    <2>1. cur \notin todo /\ \A p \in fq : p[1] # cur
        BY <1>8 DEF UpdatePeggedOut
    <2>2. QED
        BY <1>8, <2>1 DEF UpdatePeggedOut, TypeOK, CurDefined
<1>9. CASE ReceivePegOut
    BY <1>9 DEF ReceivePegOut
<1>10. CASE Sweep
    BY <1>10 DEF Sweep, SweepRows
<1>11. ASSUME NEW p \in fq, DoPostPegOut(p) PROVE PipeInv'
    BY <1>11 DEF DoPostPegOut
<1>12. CASE Crash
    BY <1>12 DEF Crash
<1>13. CASE UNCHANGED vars
    BY <1>13 DEF vars
<1>14. QED
    BY <1>1, <1>2, <1>3, <1>4, <1>5, <1>6, <1>7, <1>8, <1>9, <1>10, <1>11,
       <1>12, <1>13
    DEF Next, Environment, ConsumerStep, FinalizerPost

\* RInv holds in every reachable state.
LEMMA RInvInvariant == Spec => []RInv
<1>1. Init => RInv
    BY ConstantsAssumption
    DEF Init, RInv, Inv, TypeInv, TypeOK, CurDefined, OkPaid, RetiredOnlyIfPaid,
        PaidOut, PipeInv, TempState, LockState, PegOutState
<1>2. RInv /\ [Next]_vars => RInv'
    BY TypeInvInductive, OkPaidInductive, PipeInvInductive DEF RInv, Inv
<1>3. QED
    BY <1>1, <1>2, PTL DEF Spec

-----------------------------------------------------------------------------
(***************************************************************************)
(* Refinement.  Every step of the pipeline is a step of the abstract life  *)
(* cycle of one export, or leaves the temp accounts, the locked values and *)
(* pegged_out unchanged.  The ledger step of a submission is Submit when   *)
(* it merges or spends the temp account; the UPDATE is Mark of the row in  *)
(* hand, which PipeInv says is still not-yet or retry and OkPaid says is   *)
(* paid when marked ok; doPostPegOut is Settle of a row PipeInv says is    *)
(* terminal, retiring only what OkPaid says is paid.                       *)
(***************************************************************************)
AbstractVars == <<temp, locked, pegged>>

LEMMA RefinementStep == RInv /\ [Next]_vars => [Abstract!Next]_AbstractVars
<1> SUFFICES ASSUME TypeOK, CurDefined, OkPaid, PipeInv, [Next]_vars
             PROVE  [Abstract!Next]_AbstractVars
    BY DEF RInv, Inv, TypeInv
<1> USE DEF AbstractVars
<1>1. ASSUME NEW e \in Export, SubmitPreExportTx(e)
      PROVE  [Abstract!Next]_AbstractVars
    <2>1. Abstract!OpenTemp(e)
        BY <1>1 DEF SubmitPreExportTx, Abstract!OpenTemp
    <2>2. QED
        BY <2>1 DEF Abstract!Next
<1>2. ASSUME NEW e \in Export, BuildExportTx(e)
      PROVE  [Abstract!Next]_AbstractVars
    <2>1. Abstract!Lock(e)
        BY <1>2 DEF BuildExportTx, Abstract!Lock
    <2>2. QED
        BY <2>1 DEF Abstract!Next
<1>3. ASSUME NEW e \in Export, RecordExport(e)
      PROVE  [Abstract!Next]_AbstractVars
    <2>1. Abstract!Record(e)
        BY <1>3 DEF RecordExport, Abstract!Record
    <2>2. QED
        BY <2>1 DEF Abstract!Next
<1>4. ASSUME NEW e \in Export, SubmitPegOut(e)
      PROVE  [Abstract!Next]_AbstractVars
    <2>1. PICK o \in Outcome, r \in Reply : LedgerStep(e, o, r)
        BY <1>4 DEF SubmitPegOut
    <2>2. UNCHANGED <<locked, pegged>>
        BY <1>4 DEF SubmitPegOut
    <2>3. CASE temp' = temp
        BY <2>2, <2>3
    <2>4. CASE temp' # temp
        <3>1. temp[e] = "open"
              /\ \E s \in {"merged", "spent"} : temp' = [temp EXCEPT ![e] = s]
            BY <2>1, <2>4 DEF LedgerStep
        <3>2. pegged[e] \in {"notyet", "retry"}
            BY <1>4 DEF SubmitPegOut, PipeInv
        <3>3. Abstract!Submit(e)
            BY <2>2, <3>1, <3>2 DEF Abstract!Submit
        <3>4. QED
            BY <3>3 DEF Abstract!Next
    <2>5. QED
        BY <2>3, <2>4
<1>5. CASE UpdatePeggedOut
    <2>1. cur \in Export /\ pegged[cur] \in {"notyet", "retry"}
        BY <1>5 DEF UpdatePeggedOut, CurDefined, PipeInv
    <2>2. res \in {"retry", "fail"} \cup
                  (IF temp[cur] = "merged" THEN {"ok"} ELSE {})
        BY <1>5 DEF UpdatePeggedOut, PipeInv, OkPaid, PaidOut
    <2>3. Abstract!Mark(cur)
        BY <1>5, <2>1, <2>2 DEF UpdatePeggedOut, Abstract!Mark
    <2>4. QED
        BY <2>1, <2>3 DEF Abstract!Next
<1>6. ASSUME NEW p \in fq, DoPostPegOut(p)
      PROVE  [Abstract!Next]_AbstractVars
    <2>1. p[1] \in Export /\ p[2] \in PegOutState
        BY DEF TypeOK
    <2>2. CASE locked[p[1]] = "locked"
        <3>1. pegged[p[1]] \in {"ok", "fail"}
            BY DEF PipeInv
        <3>2. p[2] = "ok" => temp[p[1]] = "merged"
            BY DEF OkPaid, PaidOut
        <3>3. Abstract!Settle(p[1])
            BY <1>6, <2>1, <2>2, <3>1, <3>2 DEF DoPostPegOut, Abstract!Settle
        <3>4. QED
            BY <2>1, <3>3 DEF Abstract!Next
    <2>3. CASE locked[p[1]] # "locked"
        BY <1>6, <2>3 DEF DoPostPegOut
    <2>4. QED
        BY <2>2, <2>3
<1>7. CASE WaiterWait \/ ConsumerWake \/ ConsumerLoopDone \/ ReceivePegOut
           \/ Sweep \/ Crash \/ UNCHANGED vars
    BY <1>7 DEF WaiterWait, ConsumerWake, ConsumerLoopDone, ReceivePegOut,
                Sweep, Crash, vars
<1>8. QED
    BY <1>1, <1>2, <1>3, <1>4, <1>5, <1>6, <1>7
    DEF Next, Environment, ConsumerStep, FinalizerPost

\* The pipeline implements its abstract specification: whatever the
\* goroutines do, in any interleaving and across crashes, the durable
\* state of every export follows the abstract life cycle.
THEOREM Refinement == Spec => ImplementsAbstract
<1>1. Init => Abstract!Init
    BY DEF Init, Abstract!Init
<1>2. QED
    BY <1>1, RInvInvariant, RefinementStep, PTL
    DEF Spec, ImplementsAbstract, Abstract!Spec, AbstractVars, Abstract!avars

\* An abstract step only moves pegged_out forward.
LEMMA AbstractStepAllowed ==
    ASSUME pegged \in [Export -> PegOutState \cup {"absent"}],
           [Abstract!Next]_AbstractVars
    PROVE  [\A e \in Export : Allowed(pegged[e], pegged'[e])]_pegged
<1>1. CASE UNCHANGED AbstractVars
    BY <1>1 DEF AbstractVars
<1>2. ASSUME NEW e \in Export,
             Abstract!OpenTemp(e) \/ Abstract!Lock(e) \/ Abstract!Submit(e)
             \/ Abstract!Settle(e)
      PROVE  [\A x \in Export : Allowed(pegged[x], pegged'[x])]_pegged
    BY <1>2 DEF Abstract!OpenTemp, Abstract!Lock, Abstract!Submit,
                Abstract!Settle
<1>3. ASSUME NEW e \in Export, Abstract!Record(e)
      PROVE  [\A x \in Export : Allowed(pegged[x], pegged'[x])]_pegged
    BY <1>3 DEF Abstract!Record, Allowed
<1>4. ASSUME NEW e \in Export, Abstract!Mark(e)
      PROVE  [\A x \in Export : Allowed(pegged[x], pegged'[x])]_pegged
    BY <1>4 DEF Abstract!Mark, Allowed
<1>5. QED
    BY <1>1, <1>2, <1>3, <1>4 DEF Abstract!Next

\* The consumer never rewrites an ok or fail row and never moves a row
\* back to not-yet, although it writes from a snapshot taken before its
\* submissions.
THEOREM PeggedOutMonotone == Spec => MonotonePeggedOut
<1>1. RInv /\ [Next]_vars
        => [\A e \in Export : Allowed(pegged[e], pegged'[e])]_pegged
    BY RefinementStep, AbstractStepAllowed DEF RInv, Inv, TypeInv, TypeOK
<1>2. QED
    BY <1>1, RInvInvariant, PTL DEF Spec, MonotonePeggedOut

=============================================================================
