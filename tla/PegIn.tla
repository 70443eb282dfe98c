------------------------------- MODULE PegIn --------------------------------
(***************************************************************************)
(* The peg-in watcher of the slidechain custodian (watchPegIns, part_001). *)
(* It streams the custodian account's main-ledger history from a cursor;   *)
(* for every transaction whose memo is a hash and every payment operation  *)
(* to the custodian in it, it                                              *)
(*   1. UPDATE pegs SET amount, asset_xdr, zioncoin_tx=1                   *)
(*      WHERE nonce_hash=memo AND zioncoin_tx=0,                           *)
(*   2. exits the process (log.Fatal) unless exactly one row was affected, *)
(*   3. UPDATE custodian SET cursor = the transaction's paging token,      *)
(*   4. broadcasts c.imports.                                              *)
(* On start it reads the persisted cursor.  The stream client advances its *)
(* in-memory cursor past each handled transaction; a stream error resumes  *)
(* from that cursor, so only a process restart re-delivers transactions.   *)
(***************************************************************************)
EXTENDS Naturals, Sequences

CONSTANTS
    Nonce,      \* nonce hashes of uniqueness tokens (model values)
    NoMemo,     \* a memo that is not a hash (text, id, none)
    Amount,     \* payment amounts
    MaxTx,      \* bound on the length of the custodian account's history
    MaxOps,     \* bound on payment operations to the custodian in one tx
    MaxCrash,   \* bound on crashes of the process that are not log.Fatal
    Honest      \* TRUE: every peg user follows the peg command's protocol

ASSUME PegInAssumption ==
    /\ NoMemo \notin Nonce
    /\ MaxTx \in Nat
    /\ MaxOps \in Nat
    /\ MaxCrash \in Nat
    /\ Honest \in BOOLEAN

VARIABLES
    ledger,     \* the custodian account's transaction history, in order
    pegs,       \* the pegs table: nonce_hash -> row
    dbCursor,   \* custodian.cursor: paging token (index) persisted last
    cur,        \* the stream's in-memory cursor: last handled tx index
    pc,         \* where the watcher is
    tx,         \* index of the tx being handled
    op,         \* index of its payment operation being handled
    crashes

vars == <<ledger, pegs, dbCursor, cur, pc, tx, op, crashes>>

\* A transaction as the watcher sees it: its memo and the amounts of its
\* payment operations to the custodian account (other operations are
\* skipped by the loop and left out).
Tx == [memo : Nonce \cup {NoMemo}, pays : UNION {[1..k -> Amount] : k \in 0..MaxOps}]

\* A pegs row: absent until the peg command records the uniqueness token;
\* zioncoin_tx is the observed flag; amt is the amount column.
NoAmount == 0
Row == [st : {"absent", "unobserved", "observed"}, amt : Amount \cup {NoAmount}]

PegInTypeOK ==
    /\ ledger \in Seq(Tx) /\ Len(ledger) <= MaxTx
    /\ pegs \in [Nonce -> Row]
    /\ dbCursor \in 0..MaxTx
    /\ cur \in 0..MaxTx
    /\ pc \in {"start", "stream", "op", "cursor", "fatal", "crashed"}
    /\ tx \in 0..MaxTx
    /\ op \in 0..MaxOps + 1
    /\ crashes \in 0..MaxCrash

Init ==
    /\ ledger = <<>>
    /\ pegs = [n \in Nonce |-> [st |-> "absent", amt |-> NoAmount]]
    /\ dbCursor = 0
    /\ cur = 0
    /\ pc = "start"
    /\ tx = 0
    /\ op = 0
    /\ crashes = 0

(***************************************************************************)
(* Environment: the peg command records a uniqueness token (spec 3), and   *)
(* anybody may pay the custodian with any memo.                            *)
(***************************************************************************)
RecordPeg(n) ==
    /\ pegs[n].st = "absent"
    /\ pegs' = [pegs EXCEPT ![n].st = "unobserved"]
    /\ UNCHANGED <<ledger, dbCursor, cur, pc, tx, op, crashes>>

\* The peg command pays once, with one payment operation, after recording
\* its uniqueness token; anybody else may pay with any memo.
HonestTx(t) ==
    t.memo \in Nonce =>
        /\ pegs[t.memo].st # "absent"
        /\ Len(t.pays) = 1
        /\ \A i \in 1..Len(ledger) : ledger[i].memo # t.memo

PayCustodian(t) ==
    /\ Len(ledger) < MaxTx
    /\ Honest => HonestTx(t)
    /\ ledger' = Append(ledger, t)
    /\ UNCHANGED <<pegs, dbCursor, cur, pc, tx, op, crashes>>

(***************************************************************************)
(* watchPegIns.                                                            *)
(***************************************************************************)

\* SELECT cursor FROM custodian, then StreamTransactions from it.
Start ==
    /\ pc = "start"
    /\ cur' = dbCursor
    /\ pc' = "stream"
    /\ UNCHANGED <<ledger, pegs, dbCursor, tx, op, crashes>>

\* Mutant: the cursor of a hash-memo transaction is persisted when it is
\* delivered, before its payments are handled.
DeliverPersistFirst ==
    /\ pc = "stream"
    /\ cur < Len(ledger)
    /\ IF ledger[cur + 1].memo = NoMemo
       THEN /\ cur' = cur + 1
            /\ UNCHANGED <<pc, tx, op, dbCursor>>
       ELSE /\ tx' = cur + 1
            /\ op' = 1
            /\ pc' = "op"
            /\ dbCursor' = cur + 1
            /\ UNCHANGED cur
    /\ UNCHANGED <<ledger, pegs, crashes>>

\* The stream delivers the next transaction to the handler.  A memo that
\* is not a hash returns at once; the stream moves its cursor past it.
Deliver ==
    /\ pc = "stream"
    /\ cur < Len(ledger)
    /\ IF ledger[cur + 1].memo = NoMemo
       THEN /\ cur' = cur + 1
            /\ UNCHANGED <<pc, tx, op>>
       ELSE /\ tx' = cur + 1
            /\ op' = 1
            /\ pc' = "op"
            /\ UNCHANGED cur
    /\ UNCHANGED <<ledger, pegs, dbCursor, crashes>>

\* Mutant: the stream cursor moves one transaction too far.
HandlerDoneOffByOne ==
    /\ pc = "op"
    /\ op > Len(ledger[tx].pays)
    /\ cur' = tx + 1
    /\ pc' = "stream"
    /\ UNCHANGED <<ledger, pegs, dbCursor, tx, op, crashes>>

\* The loop over the operations has passed the last one.
HandlerDone ==
    /\ pc = "op"
    /\ op > Len(ledger[tx].pays)
    /\ cur' = tx
    /\ pc' = "stream"
    /\ UNCHANGED <<ledger, pegs, dbCursor, tx, op, crashes>>

\* Mutant: the UPDATE without "AND zioncoin_tx=0".
UpdatePegUnguarded ==
    LET n == ledger[tx].memo IN
    /\ pc = "op"
    /\ op <= Len(ledger[tx].pays)
    /\ IF pegs[n].st # "absent"
       THEN /\ pegs' = [pegs EXCEPT ![n] = [st |-> "observed",
                                           amt |-> ledger[tx].pays[op]]]
            /\ pc' = "cursor"
       ELSE /\ pc' = "fatal"
            /\ UNCHANGED pegs
    /\ UNCHANGED <<ledger, dbCursor, cur, tx, op, crashes>>

\* UPDATE pegs ... WHERE nonce_hash=$3 AND zioncoin_tx=0, then log.Fatal
\* unless RowsAffected is 1.
UpdatePeg ==
    LET n == ledger[tx].memo IN
    /\ pc = "op"
    /\ op <= Len(ledger[tx].pays)
    /\ IF pegs[n].st = "unobserved"
       THEN /\ pegs' = [pegs EXCEPT ![n] = [st |-> "observed",
                                           amt |-> ledger[tx].pays[op]]]
            /\ pc' = "cursor"
       ELSE /\ pc' = "fatal"
            /\ UNCHANGED pegs
    /\ UNCHANGED <<ledger, dbCursor, cur, tx, op, crashes>>

\* UPDATE custodian SET cursor=tx.PT, then c.imports.Broadcast() (the
\* import pipeline is not modelled), then the next operation.
UpdateCursor ==
    /\ pc = "cursor"
    /\ dbCursor' = tx
    /\ op' = op + 1
    /\ pc' = "op"
    /\ UNCHANGED <<ledger, pegs, cur, tx, crashes>>

\* The process dies between any two steps (kill, power loss).
Crash ==
    /\ pc \notin {"fatal", "crashed"}
    /\ crashes < MaxCrash
    /\ crashes' = crashes + 1
    /\ pc' = "crashed"
    /\ UNCHANGED <<ledger, pegs, dbCursor, cur, tx, op>>

\* The process is started again, after a log.Fatal or a crash.
Restart ==
    /\ pc \in {"fatal", "crashed"}
    /\ pc' = "start"
    /\ UNCHANGED <<ledger, pegs, dbCursor, cur, tx, op, crashes>>

Next ==
    \/ \E n \in Nonce : RecordPeg(n)
    \/ \E t \in Tx : PayCustodian(t)
    \/ Start
    \/ Deliver
    \/ HandlerDone
    \/ UpdatePeg
    \/ UpdateCursor
    \/ Crash
    \/ Restart

Spec == Init /\ [][Next]_vars

-----------------------------------------------------------------------------
\* Transaction i carries a payment to the custodian for nonce n.
PaysFor(i, n) == ledger[i].memo = n /\ Len(ledger[i].pays) > 0

(***************************************************************************)
(* Resume misses nothing (spec 8, idempotent resume): every peg payment at *)
(* or before the persisted cursor has been observed, so a restart that     *)
(* resumes after the cursor cannot skip one.  The cursor is written after  *)
(* the conditional update, and a crash may fall between the two.          *)
(***************************************************************************)
CursorSound ==
    \A i \in 1..dbCursor, n \in Nonce :
        PaysFor(i, n) => pegs[n].st = "observed"

(***************************************************************************)
(* Exactly-once peg-in (spec 3, 8): an observed peg holds the amount of    *)
(* the first payment for its nonce in ledger order; a later payment, a     *)
(* second payment operation, or a re-delivery after a restart never        *)
(* overwrites it.                                                          *)
(***************************************************************************)
FirstPayment(n) ==
    LET i == CHOOSE i \in 1..Len(ledger) :
                 PaysFor(i, n) /\ \A j \in 1..i - 1 : ~PaysFor(j, n)
    IN ledger[i].pays[1]

ObservedAmountIsFirst ==
    \A n \in Nonce :
        pegs[n].st = "observed" => pegs[n].amt = FirstPayment(n)

(***************************************************************************)
(* With honest peg users the watcher never exits on log.Fatal (spec 4.2,   *)
(* 7(d): fatal only on corrupt data): "never re-delivering an already-     *)
(* observed peg because the conditional update is idempotent against       *)
(* re-delivery".  A restart re-delivers the transactions after the         *)
(* persisted cursor, and the cursor is written after the update.           *)
(***************************************************************************)
NoFatalExit == pc # "fatal"


(***************************************************************************)
(* The watcher implements its abstract specification (PegInAbstract):      *)
(* seen through the history, the pegs table and the persisted cursor       *)
(* alone, every step is a payment, the recording of a peg, the first and   *)
(* only observation of a peg with its first payment's amount, or a move of *)
(* the cursor forward over observed payments, or it changes none of them.  *)
(* It fails when the cursor is written before the payment is observed or   *)
(* moves backwards on a re-delivery, or an observed peg is rewritten.      *)
(***************************************************************************)
Abstract == INSTANCE PegInAbstract
            WITH ledger <- ledger, pegs <- pegs, dbCursor <- dbCursor,
                 Nonce <- Nonce, TxSet <- Tx

PegInImplementsAbstract == Abstract!Spec

=============================================================================
