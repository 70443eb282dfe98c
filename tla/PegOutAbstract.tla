--------------------------- MODULE PegOutAbstract ---------------------------
(***************************************************************************)
(* What the export -> peg-out -> settlement pipeline promises, per export, *)
(* in terms of the state that outlives the custodian process: the          *)
(* temporary main-ledger account, the value locked on the side ledger and  *)
(* the pegged_out column of the exports row.  The goroutines, their        *)
(* channel, the query snapshot and the finalizer's batch are hidden.       *)
(*                                                                         *)
(*   open temp account -> lock value -> record row (not-yet)               *)
(*   -> any number of submissions, each may merge or spend the temp        *)
(*      account once, and any number of retry marks                        *)
(*   -> ok (only once the temp account merged) or fail                     *)
(*   -> retire (only once the temp account merged) or repay, once.         *)
(*                                                                         *)
(* It does not promise that a paid-out export is never repaid: the         *)
(* custodian does not keep that promise (run pegout_double_redeem).        *)
(***************************************************************************)
CONSTANT Export

VARIABLES temp, locked, pegged

avars == <<temp, locked, pegged>>

Init ==
    /\ temp = [e \in Export |-> "none"]
    /\ locked = [e \in Export |-> "none"]
    /\ pegged = [e \in Export |-> "absent"]

OpenTemp(e) ==
    /\ temp[e] = "none"
    /\ temp' = [temp EXCEPT ![e] = "open"]
    /\ UNCHANGED <<locked, pegged>>

Lock(e) ==
    /\ temp[e] = "open"
    /\ locked[e] = "none"
    /\ locked' = [locked EXCEPT ![e] = "locked"]
    /\ UNCHANGED <<temp, pegged>>

Record(e) ==
    /\ locked[e] # "none"
    /\ pegged[e] = "absent"
    /\ pegged' = [pegged EXCEPT ![e] = "notyet"]
    /\ UNCHANGED <<temp, locked>>

\* A submission of the row's pre-authorised transaction that the main
\* ledger applies (merged) or fails (spent).
Submit(e) ==
    /\ pegged[e] \in {"notyet", "retry"}
    /\ temp[e] = "open"
    /\ temp' \in {[temp EXCEPT ![e] = s] : s \in {"merged", "spent"}}
    /\ UNCHANGED <<locked, pegged>>

Mark(e) ==
    /\ pegged[e] \in {"notyet", "retry"}
    /\ \E s \in {"retry", "fail"} \cup (IF temp[e] = "merged" THEN {"ok"} ELSE {}) :
          pegged' = [pegged EXCEPT ![e] = s]
    /\ UNCHANGED <<temp, locked>>

Settle(e) ==
    /\ locked[e] = "locked"
    /\ pegged[e] \in {"ok", "fail"}
    /\ \E s \in {"repaid"} \cup (IF temp[e] = "merged" THEN {"retired"} ELSE {}) :
          locked' = [locked EXCEPT ![e] = s]
    /\ UNCHANGED <<temp, pegged>>

Next ==
    \E e \in Export :
        OpenTemp(e) \/ Lock(e) \/ Record(e) \/ Submit(e) \/ Mark(e) \/ Settle(e)

Spec == Init /\ [][Next]_avars

=============================================================================
