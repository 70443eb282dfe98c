------------------------- MODULE ExportWatcherProofs -------------------------
(***************************************************************************)
(* Proofs about the export watcher under the pin (module ExportWatcher),   *)
(* for every chain, every set of logs and amounts and every crash bound.   *)
(***************************************************************************)
EXTENDS ExportWatcher, SequenceTheorems, TLAPS

\* Transaction t, if it is an exporter's transaction, has its exports row.
Recorded(t) == IsExportTx(t) => exports[t] # NoRow

(***************************************************************************)
(* NoneSkipped is not inductive: PinPersist adds a whole block to the      *)
(* persisted prefix.  The strengthening says that the handler has recorded *)
(* every export before its index in the block being handled, and all of   *)
(* the block once it returned, and that a block is in hand only below the  *)
(* chain's end.                                                            *)
(***************************************************************************)
InBlock ==
    /\ pc \in {"handle", "persist"} => height < Len(Chain) /\ i >= 1
    /\ pc = "handle" => /\ i <= Len(Block) + 1
                        /\ \A k \in 1..i - 1 : Recorded(Block[k])
    /\ pc = "persist" => \A k \in 1..Len(Block) : Recorded(Block[k])

WatcherInv == ExportWatcherTypeOK /\ InBlock /\ NoneSkipped

\* The log BuildExportTx writes passes every check of watchExports and
\* holds the pegOut JSON at entry 1.
LEMMA ExportTxShape ==
    ASSUME NEW t \in TxId, IsExportTx(t)
    PROVE  IsExportShape(Log[t]) /\ Log[t][2].item = "json"
<1>1. PICK change \in BOOLEAN : Log[t] = ExportTxLog(change)
    BY DEF IsExportTx
<1>2. CASE change
    BY <1>1, <1>2 DEF ExportTxLog, E, IsExportShape
<1>3. CASE ~change
    BY <1>1, <1>3 DEF ExportTxLog, E, IsExportShape
<1>4. QED
    BY <1>2, <1>3

\* Below the chain's end, the block after the persisted height is a
\* sequence of transaction ids.
LEMMA BlockTx ==
    ASSUME NEW h \in 0..Len(Chain) - 1
    PROVE  Chain[h + 1] \in Seq(TxId)
<1>1. h + 1 \in 1..Len(Chain)
    BY ExportWatcherAssumption, LenProperties
<1>2. QED
    BY <1>1, ExportWatcherAssumption, ElementOfSeq

\* Persisting one more block adds exactly that block's transactions.
LEMMA TxsUpToNext ==
    ASSUME NEW h \in Nat, NEW t \in TxsUpTo(h + 1)
    PROVE  \/ t \in TxsUpTo(h)
           \/ \E k \in 1..Len(Chain[h + 1]) : t = Chain[h + 1][k]
BY DEF TxsUpTo

LEMMA WatcherInvInductive == WatcherInv /\ [Next]_vars => WatcherInv'
<1> SUFFICES ASSUME WatcherInv, [Next]_vars PROVE WatcherInv'
    OBVIOUS
<1>0. /\ ExportWatcherTypeOK /\ InBlock /\ NoneSkipped
      /\ Len(Chain) \in Nat
    BY ExportWatcherAssumption, LenProperties DEF WatcherInv
<1> USE ExportWatcherAssumption
<1>1. CASE Deliver
    BY <1>0, <1>1 DEF Deliver, WatcherInv, ExportWatcherTypeOK, InBlock,
                      NoneSkipped, Recorded
<1>2. CASE HandleTx
    <2>1. /\ pc = "handle" /\ height \in 0..Len(Chain) - 1
          /\ i \in 1..Len(Block)
        BY <1>0, <1>2 DEF HandleTx, InBlock, ExportWatcherTypeOK
    <2>2. Block \in Seq(TxId)
        BY <2>1, BlockTx DEF Block
    <2> DEFINE t == Block[i]
    <2>3. t \in TxId
        BY <2>1, <2>2, ElementOfSeq
    <2>4. UNCHANGED <<height, crashes>> /\ Block' = Block
        BY <1>2 DEF HandleTx, Block
    \* Rows are only ever added.
    <2>5. \A u \in TxId : exports[u] # NoRow => exports'[u] # NoRow
        BY <1>0, <1>2, <2>3 DEF HandleTx, InsertExport, ExportWatcherTypeOK
    <2>6. exports' \in [TxId -> Amount \cup {NoRow}]
        BY <1>0, <1>2, <2>3 DEF HandleTx, InsertExport, ExportWatcherTypeOK
    <2>7. \/ pc' \in {"panic", "error"} /\ i' = i
          \/ pc' = "handle" /\ i' = i + 1 /\ (IsExportTx(t) => exports'[t] # NoRow)
        <3>1. CASE IsExportTx(t)
            <4>1. IsExportShape(Log[t]) /\ Log[t][2].item = "json"
                BY <2>3, <3>1, ExportTxShape
            <4>2. CASE exports[t] # NoRow
                BY <1>2, <4>1, <4>2 DEF HandleTx
            <4>3. CASE exports[t] = NoRow
                <5>1. pc' = "handle" /\ i' = i + 1 /\ exports'[t] = RefAmt[t]
                    BY <1>0, <1>2, <2>3, <4>1, <4>3 DEF HandleTx, InsertExport,
                                                        ExportWatcherTypeOK
                <5>2. RefAmt[t] \in Amount
                    BY <2>3
                <5>3. QED
                    BY <5>1, <5>2
            <4>4. QED
                BY <4>2, <4>3
        <3>2. CASE ~IsExportTx(t)
            BY <1>2, <3>2 DEF HandleTx
        <3>3. QED
            BY <3>1, <3>2
    <2>8. ExportWatcherTypeOK'
        BY <1>0, <2>1, <2>4, <2>6, <2>7 DEF ExportWatcherTypeOK
    <2>9. InBlock'
        <3>1. \A k \in 1..Len(Block) : Block[k] \in TxId
            BY <2>2, ElementOfSeq
        <3>2. ASSUME NEW k \in 1..i - 1, IsExportTx(Block[k])
              PROVE  exports'[Block[k]] # NoRow
            <4>1. k \in 1..Len(Block) /\ Block[k] \in TxId
                BY <2>1, <2>2, ElementOfSeq
            <4>2. exports[Block[k]] # NoRow
                BY <1>0, <2>1, <3>2 DEF InBlock, Recorded
            <4>3. QED
                BY <2>5, <4>1, <4>2
        <3>3. CASE pc' \in {"panic", "error"}
            BY <3>3 DEF InBlock
        <3>4. CASE pc' = "handle" /\ i' = i + 1
              /\ (IsExportTx(t) => exports'[t] # NoRow)
            <4>1. \A k \in 1..i' - 1 : Recorded(Block[k])'
                BY <2>1, <2>4, <3>2, <3>4 DEF Recorded, Block
            <4>2. QED
                BY <2>1, <2>4, <3>4, <4>1 DEF InBlock
        <3>5. QED
            BY <2>7, <3>3, <3>4
    <2>10. NoneSkipped'
        <3>1. TxsUpTo(height) \subseteq TxId
            BY <1>0 DEF TxsUpTo, ExportWatcherTypeOK
        <3>2. QED
            BY <1>0, <2>4, <2>5, <3>1 DEF NoneSkipped
    <2>11. QED
        BY <2>8, <2>9, <2>10 DEF WatcherInv
<1>3. CASE HandlerReturn
    BY <1>0, <1>3 DEF HandlerReturn, WatcherInv, ExportWatcherTypeOK, InBlock,
                      NoneSkipped, Recorded, Block
<1>4. CASE PinPersist
    <2>1. height \in 0..Len(Chain) - 1 /\ \A k \in 1..Len(Block) : Recorded(Block[k])
        BY <1>0, <1>4 DEF PinPersist, InBlock, ExportWatcherTypeOK
    <2>2. NoneSkipped'
        <3> SUFFICES ASSUME NEW t \in TxsUpTo(height + 1), IsExportTx(t)
                     PROVE  exports[t] # NoRow
            BY <1>4 DEF PinPersist, NoneSkipped
        <3>1. CASE t \in TxsUpTo(height)
            BY <1>0, <3>1 DEF NoneSkipped
        <3>2. CASE \E k \in 1..Len(Chain[height + 1]) : t = Chain[height + 1][k]
            BY <2>1, <3>2 DEF Block, Recorded
        <3>3. QED
            BY <2>1, <3>1, <3>2, TxsUpToNext
    <2>3. QED
        BY <1>0, <1>4, <2>1, <2>2 DEF PinPersist, WatcherInv, ExportWatcherTypeOK, InBlock
<1>5. CASE PinRetry
    BY <1>0, <1>5 DEF PinRetry, WatcherInv, ExportWatcherTypeOK, InBlock, NoneSkipped
<1>6. CASE Crash
    BY <1>0, <1>6 DEF Crash, WatcherInv, ExportWatcherTypeOK, InBlock, NoneSkipped
<1>7. CASE Restart
    BY <1>0, <1>7 DEF Restart, WatcherInv, ExportWatcherTypeOK, InBlock, NoneSkipped
<1>8. CASE UNCHANGED vars
    BY <1>0, <1>8 DEF vars, WatcherInv, ExportWatcherTypeOK, InBlock, NoneSkipped,
                      Recorded, Block
<1>9. QED
    BY <1>1, <1>2, <1>3, <1>4, <1>5, <1>6, <1>7, <1>8 DEF Next, PinStep

\* No export is skipped: for every chain and every crash bound, every
\* exporter's transaction at or below the pin's persisted height has its
\* exports row; the pin persists a block only after the handler returned.
THEOREM NoExportSkipped == Spec => []NoneSkipped
<1>1. Init => WatcherInv
    BY ExportWatcherAssumption
    DEF Init, WatcherInv, ExportWatcherTypeOK, InBlock, NoneSkipped, TxsUpTo
<1>2. QED
    BY <1>1, WatcherInvInductive, PTL DEF Spec, WatcherInv

\* Every reachable state of the export watcher is well typed.
THEOREM ExportWatcherTypeCorrect == Spec => []ExportWatcherTypeOK
<1>1. Init => WatcherInv
    BY ExportWatcherAssumption
    DEF Init, WatcherInv, ExportWatcherTypeOK, InBlock, NoneSkipped, TxsUpTo
<1>2. QED
    BY <1>1, WatcherInvInductive, PTL DEF Spec, WatcherInv

=============================================================================
