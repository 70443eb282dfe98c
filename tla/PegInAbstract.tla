---------------------------- MODULE PegInAbstract ----------------------------
(***************************************************************************)
(* What the peg-in watcher promises, in terms of the state that outlives   *)
(* the process: the custodian account's history, the pegs table and the    *)
(* persisted cursor.  The stream, the handler and its position are hidden. *)
(*                                                                         *)
(*   a payment is appended to the history;                                 *)
(*   a peg is recorded (absent -> unobserved) by the peg command;          *)
(*   an unobserved peg becomes observed, once, with the amount of the      *)
(*   first payment for its nonce in the history;                           *)
(*   the cursor moves forward, and only over payments already observed.    *)
(***************************************************************************)
EXTENDS Naturals, Sequences

CONSTANTS Nonce, TxSet

VARIABLES ledger, pegs, dbCursor

avars == <<ledger, pegs, dbCursor>>

PaysFor(i, n) == ledger[i].memo = n /\ Len(ledger[i].pays) > 0

\* Transaction k is the first in the history that pays for nonce n.
FirstAt(n, k) ==
    /\ k \in 1..Len(ledger)
    /\ PaysFor(k, n)
    /\ \A j \in 1..k - 1 : ~PaysFor(j, n)

Init ==
    /\ ledger = <<>>
    /\ pegs = [n \in Nonce |-> [st |-> "absent", amt |-> 0]]
    /\ dbCursor = 0

Pay(t) ==
    /\ ledger' = Append(ledger, t)
    /\ UNCHANGED <<pegs, dbCursor>>

Record(n) ==
    /\ pegs[n].st = "absent"
    /\ pegs' = [pegs EXCEPT ![n].st = "unobserved"]
    /\ UNCHANGED <<ledger, dbCursor>>

Observe(n) ==
    /\ pegs[n].st = "unobserved"
    /\ \E k \in 1..Len(ledger) :
          /\ FirstAt(n, k)
          /\ pegs' = [pegs EXCEPT ![n] = [st |-> "observed",
                                         amt |-> ledger[k].pays[1]]]
    /\ UNCHANGED <<ledger, dbCursor>>

Persist(c) ==
    /\ c \in dbCursor..Len(ledger)
    /\ \A i \in 1..c, n \in Nonce : PaysFor(i, n) => pegs[n].st = "observed"
    /\ dbCursor' = c
    /\ UNCHANGED <<ledger, pegs>>

Next ==
    \/ \E t \in TxSet : Pay(t)
    \/ \E n \in Nonce : Record(n) \/ Observe(n)
    \/ \E c \in 0..Len(ledger) : Persist(c)

Spec == Init /\ [][Next]_avars

=============================================================================
