----------------------------- MODULE PegInProofs -----------------------------
(***************************************************************************)
(* Proofs about the peg-in watcher (module PegIn), for every set of nonces *)
(* and amounts and every bound on the history, the payment operations and *)
(* the crashes, with or without honest payers.                             *)
(***************************************************************************)
EXTENDS PegIn, SequenceTheorems, TLAPS

(***************************************************************************)
(* CursorSound is not inductive: the cursor write stores the index of the  *)
(* transaction in hand, which is sound only because every transaction      *)
(* before it is handled and the one in hand has been observed.  The        *)
(* strengthening says so for the stream's in-memory cursor (Handled), for  *)
(* the transaction in hand (InHand), and bounds the cursors by the ledger. *)
(***************************************************************************)
Handled ==
    \A i \in 1..cur, n \in Nonce : PaysFor(i, n) => pegs[n].st = "observed"

InHand ==
    /\ pc \in {"op", "cursor"} =>
          /\ tx = cur + 1
          /\ tx <= Len(ledger)
          /\ ledger[tx].memo \in Nonce
          /\ op >= 1
    /\ pc = "cursor" =>
          /\ op <= Len(ledger[tx].pays)
          /\ pegs[ledger[tx].memo].st = "observed"
    /\ pc = "op" /\ op > 1 => pegs[ledger[tx].memo].st = "observed"

PegInInv ==
    /\ PegInTypeOK
    /\ dbCursor <= Len(ledger)
    /\ cur <= Len(ledger)
    /\ CursorSound
    /\ Handled
    /\ InHand

(***************************************************************************)
(* ObservedAmountIsFirst names the first payment through CHOOSE, which     *)
(* TLAPS cannot follow across a step.  ObservedFirst says the same with a  *)
(* witness: an observed peg holds the first amount of a transaction that  *)
(* pays for its nonce, and no earlier transaction does.                    *)
(***************************************************************************)
FirstAt(n, k) ==
    /\ k \in 1..Len(ledger)
    /\ PaysFor(k, n)
    /\ \A j \in 1..k - 1 : ~PaysFor(j, n)

ObservedFirst ==
    \A n \in Nonce :
        pegs[n].st = "observed" =>
            \E k \in 1..Len(ledger) : FirstAt(n, k) /\ pegs[n].amt = ledger[k].pays[1]

AmountInv == PegInInv /\ ObservedFirst

(***************************************************************************)
(* The refinement needs one more fact: the persisted cursor is never more  *)
(* than one transaction ahead of the stream's cursor, so the cursor write  *)
(* of the transaction in hand never moves it backwards.                    *)
(***************************************************************************)
RefInv == AmountInv /\ dbCursor <= cur + 1

\* The payments of a transaction form a sequence of at most MaxOps amounts.
LEMMA PaysSeq ==
    ASSUME NEW t \in Tx
    PROVE  /\ t.pays \in Seq(Amount)
           /\ Len(t.pays) \in 0..MaxOps
           /\ t.memo \in Nonce \cup {NoMemo}
<1>1. PICK k \in 0..MaxOps : t.pays \in [1..k -> Amount]
    BY DEF Tx
<1>2. t.pays \in Seq(Amount) /\ Len(t.pays) = k
    BY <1>1, PegInAssumption
<1>3. QED
    BY <1>1, <1>2 DEF Tx

\* The transactions of the history are transactions.
LEMMA LedgerTx ==
    ASSUME PegInTypeOK, NEW k \in 1..Len(ledger)
    PROVE  ledger[k] \in Tx
BY ElementOfSeq DEF PegInTypeOK

\* Appending a transaction keeps the earlier ones.
LEMMA AppendTx ==
    ASSUME PegInTypeOK, NEW t \in Tx
    PROVE  /\ Append(ledger, t) \in Seq(Tx)
           /\ Len(Append(ledger, t)) = Len(ledger) + 1
           /\ \A k \in 1..Len(ledger) : Append(ledger, t)[k] = ledger[k]
BY AppendProperties DEF PegInTypeOK

LEMMA PegInInvInductive == PegInInv /\ [Next]_vars => PegInInv'
<1> SUFFICES ASSUME PegInInv, [Next]_vars PROVE PegInInv'
    OBVIOUS
<1>0. /\ PegInTypeOK
      /\ dbCursor <= Len(ledger) /\ cur <= Len(ledger)
      /\ CursorSound /\ Handled /\ InHand
      /\ Len(ledger) \in Nat
    BY LenProperties DEF PegInInv, PegInTypeOK
<1> USE PegInAssumption DEF PegInInv
<1>1. ASSUME NEW n \in Nonce, RecordPeg(n) PROVE PegInInv'
    <2>1. \A m \in Nonce : pegs[m].st = "observed" => pegs'[m].st = "observed"
        BY <1>0, <1>1 DEF RecordPeg, PegInTypeOK
    <2>2. PegInTypeOK'
        BY <1>0, <1>1 DEF RecordPeg, PegInTypeOK, Row
    <2>3. QED
        BY <1>0, <1>1, <2>1, <2>2 DEF RecordPeg, CursorSound, Handled, InHand, PaysFor
<1>2. ASSUME NEW t \in Tx, PayCustodian(t) PROVE PegInInv'
    <2>1. /\ ledger' \in Seq(Tx)
          /\ Len(ledger') = Len(ledger) + 1
          /\ \A k \in 1..Len(ledger) : ledger'[k] = ledger[k]
        BY <1>0, <1>2, AppendTx DEF PayCustodian
    <2>2. \A k \in 1..Len(ledger), n \in Nonce : PaysFor(k, n)' <=> PaysFor(k, n)
        BY <2>1 DEF PaysFor
    <2>3. PegInTypeOK'
        BY <1>0, <1>2, <2>1 DEF PayCustodian, PegInTypeOK
    <2>4. CursorSound' /\ Handled'
        <3>1. 1..dbCursor \subseteq 1..Len(ledger) /\ 1..cur \subseteq 1..Len(ledger)
            BY <1>0 DEF PegInTypeOK
        <3>2. QED
            BY <1>0, <1>2, <2>2, <3>1 DEF PayCustodian, CursorSound, Handled
    <2>5. InHand'
        BY <1>0, <1>2, <2>1 DEF PayCustodian, InHand, PegInTypeOK
    <2>6. dbCursor' <= Len(ledger') /\ cur' <= Len(ledger')
        BY <1>0, <1>2, <2>1 DEF PayCustodian, PegInTypeOK
    <2>7. QED
        BY <2>3, <2>4, <2>5, <2>6
<1>3. CASE Start
    BY <1>0, <1>3 DEF Start, PegInTypeOK, CursorSound, Handled, InHand, PaysFor
<1>4. CASE Deliver
    <2>0. cur + 1 \in 1..Len(ledger)
        BY <1>0, <1>4 DEF Deliver, PegInTypeOK
    <2>1. ledger[cur + 1] \in Tx
        BY <1>0, <2>0, LedgerTx
    <2>2. ledger[cur + 1].memo \in Nonce \cup {NoMemo}
        BY <2>1, PaysSeq
    <2>3. CASE ledger[cur + 1].memo = NoMemo
        <3>1. \A n \in Nonce : ~PaysFor(cur + 1, n)
            BY <2>3 DEF PaysFor
        <3>2. QED
            BY <1>0, <1>4, <2>3, <3>1 DEF Deliver, PegInTypeOK, CursorSound, Handled, InHand, PaysFor
    <2>4. CASE ledger[cur + 1].memo # NoMemo
        BY <1>0, <1>4, <2>2, <2>4 DEF Deliver, PegInTypeOK, CursorSound, Handled, InHand, PaysFor
    <2>5. QED
        BY <2>3, <2>4
<1>5. CASE HandlerDone
    <2>1. /\ tx = cur + 1 /\ tx <= Len(ledger) /\ ledger[tx].memo \in Nonce
          /\ op > Len(ledger[tx].pays)
        BY <1>0, <1>5 DEF HandlerDone, InHand
    <2>5. tx \in 1..Len(ledger) /\ op \in Nat
        BY <1>0, <2>1 DEF PegInTypeOK
    <2>6. Len(ledger[tx].pays) \in Nat
        BY <1>0, <2>5, LedgerTx, PaysSeq
    <2>2. \A n \in Nonce : PaysFor(tx, n) => pegs[n].st = "observed"
        BY <1>0, <1>5, <2>1, <2>5, <2>6 DEF HandlerDone, InHand, PaysFor
    <2>3. ASSUME NEW k \in 1..cur', NEW n \in Nonce, PaysFor(k, n)'
          PROVE  pegs'[n].st = "observed"
        <3>1. k \in 1..cur \/ k = tx
            BY <1>0, <1>5, <2>1 DEF HandlerDone, PegInTypeOK
        <3>2. PaysFor(k, n)
            BY <1>5, <2>3 DEF HandlerDone, PaysFor
        <3>3. QED
            BY <1>0, <1>5, <2>2, <3>1, <3>2 DEF HandlerDone, Handled
    <2>7. Handled'
        BY <2>3 DEF Handled
    <2>4. QED
        BY <1>0, <1>5, <2>1, <2>7 DEF HandlerDone, PegInTypeOK, CursorSound, InHand, PaysFor
<1>6. CASE UpdatePeg
    <2> DEFINE n == ledger[tx].memo
    <2>1. /\ tx = cur + 1 /\ tx \in 1..Len(ledger) /\ n \in Nonce
          /\ op \in 1..Len(ledger[tx].pays)
        BY <1>0, <1>6 DEF UpdatePeg, InHand, PegInTypeOK
    <2>2. ledger[tx].pays \in Seq(Amount) /\ Len(ledger[tx].pays) <= MaxOps
        BY <1>0, <2>1, LedgerTx, PaysSeq
    <2>3. ledger[tx].pays[op] \in Amount
        BY <2>1, <2>2, ElementOfSeq
    <2>4. CASE pegs[n].st = "unobserved"
        <3>1. pegs' = [pegs EXCEPT ![n] = [st |-> "observed",
                                          amt |-> ledger[tx].pays[op]]]
              /\ pc' = "cursor"
            BY <1>6, <2>4 DEF UpdatePeg
        <3>2. \A m \in Nonce : pegs[m].st = "observed" => pegs'[m].st = "observed"
            BY <1>0, <3>1 DEF PegInTypeOK
        <3>3. PegInTypeOK'
            BY <1>0, <1>6, <2>3, <3>1 DEF UpdatePeg, PegInTypeOK, Row
        <3>4. CursorSound' /\ Handled'
            BY <1>0, <1>6, <3>2 DEF UpdatePeg, CursorSound, Handled, PaysFor
        <3>5. InHand'
            BY <1>0, <1>6, <2>1, <3>1 DEF UpdatePeg, InHand, PegInTypeOK
        <3>6. QED
            BY <1>0, <1>6, <3>3, <3>4, <3>5 DEF UpdatePeg
    <2>5. CASE pegs[n].st # "unobserved"
        BY <1>0, <1>6, <2>5 DEF UpdatePeg, PegInTypeOK, CursorSound, Handled, InHand, PaysFor
    <2>6. QED
        BY <2>4, <2>5
<1>7. CASE UpdateCursor
    <2>1. /\ tx = cur + 1 /\ tx \in 1..Len(ledger) /\ ledger[tx].memo \in Nonce
          /\ op \in 1..Len(ledger[tx].pays)
          /\ pegs[ledger[tx].memo].st = "observed"
        BY <1>0, <1>7 DEF UpdateCursor, InHand, PegInTypeOK
    <2>2. Len(ledger[tx].pays) <= MaxOps
        BY <1>0, <2>1, LedgerTx, PaysSeq
    <2>3. \A n \in Nonce : PaysFor(tx, n) => pegs[n].st = "observed"
        BY <2>1 DEF PaysFor
    <2>6. ASSUME NEW k \in 1..dbCursor', NEW n \in Nonce, PaysFor(k, n)'
          PROVE  pegs'[n].st = "observed"
        <3>1. k \in 1..cur \/ k = tx
            BY <1>0, <1>7, <2>1 DEF UpdateCursor, PegInTypeOK
        <3>2. PaysFor(k, n)
            BY <1>7, <2>6 DEF UpdateCursor, PaysFor
        <3>3. QED
            BY <1>0, <1>7, <2>3, <3>1, <3>2 DEF UpdateCursor, Handled
    <2>4. CursorSound'
        BY <2>6 DEF CursorSound
    <2>5. QED
        BY <1>0, <1>7, <2>1, <2>2, <2>4 DEF UpdateCursor, PegInTypeOK, Handled, InHand, PaysFor
<1>8. CASE Crash
    BY <1>0, <1>8 DEF Crash, PegInTypeOK, CursorSound, Handled, InHand, PaysFor
<1>9. CASE Restart
    BY <1>0, <1>9 DEF Restart, PegInTypeOK, CursorSound, Handled, InHand, PaysFor
<1>10. CASE UNCHANGED vars
    BY <1>0, <1>10 DEF vars, PegInTypeOK, CursorSound, Handled, InHand, PaysFor
<1>11. QED
    BY <1>1, <1>2, <1>3, <1>4, <1>5, <1>6, <1>7, <1>8, <1>9, <1>10 DEF Next

\* The witness of ObservedFirst is the index FirstPayment chooses: the
\* first transaction paying for a nonce is unique.
LEMMA FirstPaymentIs ==
    ASSUME PegInTypeOK, NEW n \in Nonce, NEW k, FirstAt(n, k)
    PROVE  FirstPayment(n) = ledger[k].pays[1]
<1> DEFINE P(x) == PaysFor(x, n) /\ \A j \in 1..x - 1 : ~PaysFor(j, n)
<1>1. Len(ledger) \in Nat
    BY LenProperties DEF PegInTypeOK
<1>2. k \in 1..Len(ledger) /\ P(k)
    BY DEF FirstAt
<1>3. \A x \in 1..Len(ledger) : P(x) => x = k
    BY <1>1, <1>2
<1>4. (CHOOSE x \in 1..Len(ledger) : P(x)) = k
    BY <1>2, <1>3
<1>5. QED
    BY <1>4 DEF FirstPayment

\* The conditional UPDATE that succeeds observes its nonce's first payment:
\* every earlier transaction is handled, and a later operation of the same
\* transaction finds its nonce already observed.
LEMMA FirstObservation ==
    ASSUME PegInInv, UpdatePeg, pegs[ledger[tx].memo].st = "unobserved"
    PROVE  LET n0 == ledger[tx].memo IN
           /\ n0 \in Nonce /\ tx = cur + 1 /\ FirstAt(n0, tx)
           /\ pegs' = [pegs EXCEPT ![n0] = [st |-> "observed",
                                            amt |-> ledger[tx].pays[1]]]
           /\ UNCHANGED <<ledger, dbCursor, cur, tx>>
<1> DEFINE n0 == ledger[tx].memo
<1>0. PegInTypeOK /\ Handled /\ InHand
    BY DEF PegInInv
<1>1. /\ tx = cur + 1 /\ tx \in 1..Len(ledger) /\ n0 \in Nonce
      /\ op \in 1..Len(ledger[tx].pays)
    BY <1>0 DEF UpdatePeg, InHand, PegInTypeOK
<1>2. /\ pegs' = [pegs EXCEPT ![n0] = [st |-> "observed",
                                      amt |-> ledger[tx].pays[op]]]
      /\ UNCHANGED <<ledger, dbCursor, cur, tx>>
    BY DEF UpdatePeg
<1>3. op = 1
    BY <1>0, <1>1 DEF UpdatePeg, InHand
<1>4. \A j \in 1..tx - 1 : ~PaysFor(j, n0)
    <2> SUFFICES ASSUME NEW j \in 1..tx - 1, PaysFor(j, n0) PROVE FALSE
        OBVIOUS
    <2>1. j \in 1..cur
        BY <1>0, <1>1 DEF PegInTypeOK
    <2>2. pegs[n0].st = "observed"
        BY <1>0, <1>1, <2>1 DEF Handled
    <2>3. QED
        BY <2>2
<1>5. FirstAt(n0, tx)
    BY <1>1, <1>4 DEF FirstAt, PaysFor
<1>6. QED
    BY <1>1, <1>2, <1>3, <1>5

\* Every step keeps an observed peg's amount the first payment's.
LEMMA ObservedFirstStep == AmountInv /\ [Next]_vars => ObservedFirst'
<1> SUFFICES ASSUME AmountInv, [Next]_vars PROVE ObservedFirst'
    OBVIOUS
<1>0. /\ PegInTypeOK /\ Handled /\ InHand /\ ObservedFirst
      /\ Len(ledger) \in Nat
    BY LenProperties DEF AmountInv, PegInInv, PegInTypeOK
<1> USE PegInAssumption
\* Steps that change neither the ledger nor the pegs.
<1>1. CASE UNCHANGED <<ledger, pegs>>
    BY <1>0, <1>1 DEF ObservedFirst, FirstAt, PaysFor
<1>2. ASSUME NEW m \in Nonce, RecordPeg(m) PROVE ObservedFirst'
    BY <1>0, <1>2 DEF RecordPeg, ObservedFirst, FirstAt, PaysFor, PegInTypeOK
<1>3. ASSUME NEW t \in Tx, PayCustodian(t) PROVE ObservedFirst'
    <2>1. /\ Len(ledger') = Len(ledger) + 1
          /\ \A j \in 1..Len(ledger) : ledger'[j] = ledger[j]
        BY <1>0, <1>3, AppendTx DEF PayCustodian
    <2>2. ASSUME NEW n \in Nonce, NEW k \in 1..Len(ledger), FirstAt(n, k)
          PROVE  FirstAt(n, k)' /\ ledger'[k] = ledger[k]
        BY <1>0, <2>1, <2>2 DEF FirstAt, PaysFor
    <2>3. QED
        BY <1>0, <1>3, <2>1, <2>2 DEF PayCustodian, ObservedFirst
<1>4. CASE UpdatePeg
    <2> DEFINE n0 == ledger[tx].memo
    <2>2. CASE pegs[n0].st = "unobserved"
        <3>1. /\ n0 \in Nonce /\ FirstAt(n0, tx)
              /\ pegs' = [pegs EXCEPT ![n0] = [st |-> "observed",
                                               amt |-> ledger[tx].pays[1]]]
              /\ ledger' = ledger /\ tx' = tx
            BY <1>4, <2>2, FirstObservation DEF AmountInv
        <3>2. tx \in 1..Len(ledger)
            BY <3>1 DEF FirstAt
        <3>5. FirstAt(n0, tx)'
            BY <3>1 DEF FirstAt, PaysFor
        <3>6. pegs'[n0] = [st |-> "observed", amt |-> ledger[tx].pays[1]]
            BY <1>0, <3>1 DEF PegInTypeOK
        <3>7. \A m \in Nonce \ {n0} : pegs'[m] = pegs[m]
            BY <1>0, <3>1 DEF PegInTypeOK
        <3>8. ASSUME NEW m \in Nonce, pegs'[m].st = "observed"
              PROVE  \E k \in 1..Len(ledger') :
                        FirstAt(m, k)' /\ pegs'[m].amt = ledger'[k].pays[1]
            <4>1. CASE m = n0
                BY <3>1, <3>2, <3>5, <3>6, <4>1
            <4>2. CASE m # n0
                <5>1. pegs[m].st = "observed"
                    BY <3>7, <3>8, <4>2
                <5>2. PICK k \in 1..Len(ledger) :
                          FirstAt(m, k) /\ pegs[m].amt = ledger[k].pays[1]
                    BY <1>0, <5>1 DEF ObservedFirst
                <5>3. FirstAt(m, k)'
                    BY <3>1, <5>2 DEF FirstAt, PaysFor
                <5>4. QED
                    BY <3>1, <3>7, <4>2, <5>2, <5>3
            <4>3. QED
                BY <4>1, <4>2
        <3>9. QED
            BY <3>8 DEF ObservedFirst
    <2>3. CASE pegs[n0].st # "unobserved"
        BY <1>0, <1>4, <2>3 DEF UpdatePeg, ObservedFirst, FirstAt, PaysFor
    <2>4. QED
        BY <2>2, <2>3
<1>5. QED
    <2>1. Start \/ Deliver \/ HandlerDone \/ UpdateCursor \/ Crash \/ Restart
          => UNCHANGED <<ledger, pegs>>
        BY DEF Start, Deliver, HandlerDone, UpdateCursor, Crash, Restart
    <2>2. QED
        BY <1>1, <1>2, <1>3, <1>4, <2>1 DEF Next, vars

\* Exactly-once peg-in: for any payers, crashes and log.Fatal restarts, an
\* observed peg holds the amount of the first payment for its nonce in
\* ledger order; a re-delivered or later payment never overwrites it.
THEOREM ObservedAmountKept == Spec => []ObservedAmountIsFirst
<1>1. Init => AmountInv
    BY PegInAssumption
    DEF Init, AmountInv, PegInInv, PegInTypeOK, Row, NoAmount, CursorSound,
        Handled, InHand, ObservedFirst
<1>2. AmountInv /\ [Next]_vars => AmountInv'
    BY PegInInvInductive, ObservedFirstStep DEF AmountInv
<1>3. AmountInv => ObservedAmountIsFirst
    BY FirstPaymentIs DEF AmountInv, PegInInv, ObservedFirst, ObservedAmountIsFirst
<1>4. QED
    BY <1>1, <1>2, <1>3, PTL DEF Spec

\* Resume misses nothing: in every reachable state, every peg payment at or
\* before the persisted cursor has been observed, so the watcher restarted
\* after any crash resumes past observed payments only.
THEOREM CursorNeverPassesUnobserved == Spec => []CursorSound
<1>1. Init => PegInInv
    BY PegInAssumption
    DEF Init, PegInInv, PegInTypeOK, Row, NoAmount, CursorSound, Handled, InHand
<1>2. PegInInv => CursorSound
    BY DEF PegInInv
<1>3. QED
    BY <1>1, <1>2, PegInInvInductive, PTL DEF Spec

\* Every reachable state of the watcher is well typed.
THEOREM PegInTypeCorrect == Spec => []PegInTypeOK
<1>1. Init => PegInInv
    BY PegInAssumption
    DEF Init, PegInInv, PegInTypeOK, Row, NoAmount, CursorSound, Handled, InHand
<1>2. QED
    BY <1>1, PegInInvInductive, PTL DEF Spec, PegInInv

\* The persisted cursor stays at most one transaction ahead of the stream.
LEMMA CursorBehindStream ==
    RefInv /\ [Next]_vars => dbCursor' <= cur' + 1
<1> SUFFICES ASSUME RefInv, [Next]_vars PROVE dbCursor' <= cur' + 1
    OBVIOUS
<1>0. PegInTypeOK /\ InHand /\ dbCursor <= cur + 1
    BY DEF RefInv, AmountInv, PegInInv
<1> USE PegInAssumption
<1>1. CASE Start
    BY <1>0, <1>1 DEF Start, PegInTypeOK
<1>2. CASE Deliver
    BY <1>0, <1>2 DEF Deliver, PegInTypeOK
<1>3. CASE HandlerDone
    BY <1>0, <1>3 DEF HandlerDone, InHand, PegInTypeOK
<1>4. CASE UpdateCursor
    BY <1>0, <1>4 DEF UpdateCursor, InHand, PegInTypeOK
<1>5. CASE UNCHANGED <<dbCursor, cur>>
    BY <1>0, <1>5
<1>6. QED
    <2>1. (\E n \in Nonce : RecordPeg(n)) \/ (\E t \in Tx : PayCustodian(t))
          \/ UpdatePeg \/ Crash \/ Restart \/ UNCHANGED vars
          => UNCHANGED <<dbCursor, cur>>
        BY DEF RecordPeg, PayCustodian, UpdatePeg, Crash, Restart, vars
    <2>2. QED
        BY <1>1, <1>2, <1>3, <1>4, <1>5, <2>1 DEF Next

LEMMA RefInvInductive == RefInv /\ [Next]_vars => RefInv'
BY PegInInvInductive, ObservedFirstStep, CursorBehindStream DEF RefInv, AmountInv

\* Seen through the history, the pegs and the persisted cursor, every step
\* of the watcher is a step of PegInAbstract or changes none of the three.
LEMMA PegInRefinementStep ==
    RefInv /\ [Next]_vars => [Abstract!Next]_Abstract!avars
<1> SUFFICES ASSUME RefInv, [Next]_vars PROVE [Abstract!Next]_Abstract!avars
    OBVIOUS
<1>0. PegInInv /\ dbCursor <= cur + 1 /\ PegInTypeOK /\ InHand
    BY DEF RefInv, AmountInv, PegInInv
<1> USE PegInAssumption
<1>1. ASSUME NEW n \in Nonce, RecordPeg(n) PROVE Abstract!Next
    BY <1>1 DEF RecordPeg, Abstract!Next, Abstract!Record
<1>2. ASSUME NEW t \in Tx, PayCustodian(t) PROVE Abstract!Next
    BY <1>2 DEF PayCustodian, Abstract!Next, Abstract!Pay
<1>3. CASE UpdatePeg /\ pegs[ledger[tx].memo].st = "unobserved"
    <2> DEFINE n0 == ledger[tx].memo
    <2>1. /\ n0 \in Nonce /\ FirstAt(n0, tx)
          /\ pegs' = [pegs EXCEPT ![n0] = [st |-> "observed",
                                           amt |-> ledger[tx].pays[1]]]
          /\ UNCHANGED <<ledger, dbCursor>>
        BY <1>0, <1>3, FirstObservation
    <2>2. tx \in 1..Len(ledger) /\ Abstract!FirstAt(n0, tx)
        BY <2>1 DEF Abstract!FirstAt, Abstract!PaysFor, FirstAt, PaysFor
    <2>3. Abstract!Observe(n0)
        BY <1>3, <2>1, <2>2 DEF Abstract!Observe
    <2>4. QED
        BY <2>1, <2>3 DEF Abstract!Next
<1>4. CASE UpdateCursor
    <2>1. /\ tx = cur + 1 /\ tx \in 1..Len(ledger)
          /\ dbCursor' = tx /\ UNCHANGED <<ledger, pegs>>
        BY <1>0, <1>4 DEF UpdateCursor, InHand, PegInTypeOK
    <2>2. CursorSound'
        BY <1>4, PegInInvInductive DEF RefInv, AmountInv, PegInInv
    <2>3. \A i \in 1..tx, n \in Nonce : PaysFor(i, n) => pegs[n].st = "observed"
        BY <2>1, <2>2 DEF CursorSound, PaysFor
    <2>4. tx \in dbCursor..Len(ledger)
        BY <1>0, <2>1 DEF PegInTypeOK
    <2>5. Abstract!Persist(tx)
        BY <2>1, <2>3, <2>4 DEF Abstract!Persist, Abstract!PaysFor, PaysFor
    <2>6. QED
        BY <2>1, <2>5 DEF Abstract!Next
<1>5. CASE UNCHANGED <<ledger, pegs, dbCursor>>
    BY <1>5 DEF Abstract!avars
<1>6. QED
    <2>1. \/ Start \/ Deliver \/ HandlerDone \/ Crash \/ Restart \/ UNCHANGED vars
          \/ UpdatePeg /\ pegs[ledger[tx].memo].st # "unobserved"
          => UNCHANGED <<ledger, pegs, dbCursor>>
        BY DEF Start, Deliver, HandlerDone, Crash, Restart, vars, UpdatePeg
    <2>2. QED
        BY <1>1, <1>2, <1>3, <1>4, <1>5, <2>1 DEF Next

\* The watcher implements PegInAbstract for every set of nonces, amounts,
\* bounds and payers: it appends to the history, records pegs, observes
\* each peg once with its first payment's amount, and moves the persisted
\* cursor forward over observed payments only.
THEOREM PegInRefinement == Spec => PegInImplementsAbstract
<1>1. Init => RefInv
    BY PegInAssumption
    DEF Init, RefInv, AmountInv, PegInInv, PegInTypeOK, Row, NoAmount,
        CursorSound, Handled, InHand, ObservedFirst
<1>2. Init => Abstract!Init
    BY DEF Init, Abstract!Init, NoAmount
<1>3. QED
    BY <1>1, <1>2, RefInvInductive, PegInRefinementStep, PTL
    DEF Spec, PegInImplementsAbstract, Abstract!Spec

=============================================================================
