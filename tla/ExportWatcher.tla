---------------------------- MODULE ExportWatcher ----------------------------
(***************************************************************************)
(* The export watcher of the slidechain custodian (watchExports, part_001) *)
(* driven by the side ledger's pin.                                        *)
(*                                                                         *)
(* The pin is an external collaborator (spec 4.3, 6): it delivers the      *)
(* committed blocks in order to the handler, persists the height of a      *)
(* block once the handler returns, and on a restart resumes after the last *)
(* persisted height.  The handler walks the block's transactions; for each *)
(* one whose log has the export contract's shape it reads the reference    *)
(* payload from log entry 1, json-decodes it, INSERTs the exports row      *)
(* keyed by the transaction id and broadcasts c.exports (the broadcast and *)
(* what it wakes are modelled in PegOut).  An INSERT error is returned to  *)
(* the pin, which runs the block again.                                    *)
(*                                                                         *)
(* A log entry is abstracted to its code (input, log, output, or any other *)
(* kind), the seed of the contract that wrote it, and for a log entry the  *)
(* kind of item it logged: JSON of a pegOut, other bytes, or an item that  *)
(* is not bytes at all (an integer or a tuple).                            *)
(***************************************************************************)
EXTENDS Naturals, Sequences

CONSTANTS
    TxId,       \* side-ledger transaction ids (model values)
    Chain,      \* the committed blocks: a sequence of sequences of TxId
    Log,        \* Log[t]: the log of transaction t, a sequence of entries
    RefAmt,     \* RefAmt[t]: the amount field of the JSON at Log[t][2]
    Locked,     \* Locked[t]: the value the export contract of t holds
    Amount,     \* amounts
    MaxCrash,   \* bound on crashes of the custodian process
    NoRow       \* "no exports row"

Code == {"I", "L", "O", "F"}        \* F: any other kind (finalize, nonce ...)
Seed == {"export1", "other"}       \* export1: exportContract1Seed
Item == {"json", "bytes", "nonbytes"}
Entry == [code : Code, seed : Seed, item : Item]

ASSUME ExportWatcherAssumption ==
    /\ Chain \in Seq(Seq(TxId))
    /\ Log \in [TxId -> Seq(Entry)]
    /\ RefAmt \in [TxId -> Amount]
    /\ Locked \in [TxId -> Amount]
    /\ NoRow \notin Amount
    /\ MaxCrash \in Nat

VARIABLES
    height,     \* the pin's persisted height: blocks 1..height are done
    pc,         \* where the pin and its handler are
    i,          \* the handler's index into the block's transactions
    exports,    \* exports table: txid -> amount of the recorded pegOut
    crashes

vars == <<height, pc, i, exports, crashes>>

ExportWatcherTypeOK ==
    /\ height \in 0..Len(Chain)
    /\ pc \in {"idle", "handle", "persist", "error", "down", "panic"}
    /\ i \in Nat
    /\ exports \in [TxId -> Amount \cup {NoRow}]
    /\ crashes \in 0..MaxCrash

Init ==
    /\ height = 0
    /\ pc = "idle"
    /\ i = 0
    /\ exports = [t \in TxId |-> NoRow]
    /\ crashes = 0

\* The block the pin is delivering.
Block == Chain[height + 1]

\* Mutant: the output entry looked for one place too late.
IsExportShapeOffByOne(l) ==
    /\ Len(l) \in {5, 7}
    /\ l[1].code = "I"
    /\ l[2].code = "L"
    /\ l[Len(l)].code = "O"
    /\ l[Len(l) - 2].code = "L"
    /\ l[Len(l) - 2].seed = "export1"

\* The checks of watchExports: 5 or 7 entries, an input first, a log
\* second, an output second to last, and before it a log written by the
\* first stage of the export contract.
IsExportShape(l) ==
    /\ Len(l) \in {5, 7}
    /\ l[1].code = "I"
    /\ l[2].code = "L"
    /\ l[Len(l) - 1].code = "O"
    /\ l[Len(l) - 2].code = "L"
    /\ l[Len(l) - 2].seed = "export1"

\* Mutant: the INSERT's parameters swapped, the txid in the pegout_json
\* column.
InsertExportSwapped(t) == exports' = [exports EXCEPT ![t] = t]

\* INSERT INTO exports (txid, pegout_json) VALUES (tx.ID, exportRef).
InsertExport(t) == exports' = [exports EXCEPT ![t] = RefAmt[t]]

(***************************************************************************)
(* The pin.                                                                *)
(***************************************************************************)

\* Deliver the block after the persisted height to the handler.
Deliver ==
    /\ pc = "idle"
    /\ height < Len(Chain)
    /\ pc' = "handle"
    /\ i' = 1
    /\ UNCHANGED <<height, exports, crashes>>

\* One pass of the handler's loop, for the transaction t = Block[i]:
\* skip it unless it has the export shape; tx.Log[1][2].(txvm.Bytes)
\* panics on an item that is not bytes; skip it when json.Unmarshal
\* fails; INSERT the row, or return the INSERT's error (a row with this
\* txid exists) to the pin.
HandleTx ==
    /\ pc = "handle"
    /\ i <= Len(Block)
    /\ LET t == Block[i]
           l == Log[t]
       IN  IF ~IsExportShape(l)
           THEN /\ i' = i + 1
                /\ UNCHANGED <<pc, exports>>
           ELSE CASE l[2].item = "nonbytes" ->
                        /\ pc' = "panic"
                        /\ UNCHANGED <<i, exports>>
                  [] l[2].item = "bytes" ->
                        /\ i' = i + 1
                        /\ UNCHANGED <<pc, exports>>
                  [] exports[t] # NoRow ->
                        /\ pc' = "error"
                        /\ UNCHANGED <<i, exports>>
                  [] OTHER ->
                        /\ InsertExport(t)
                        /\ i' = i + 1
                        /\ UNCHANGED pc
    /\ UNCHANGED <<height, crashes>>

\* The loop is over; the handler returns nil.
HandlerReturn ==
    /\ pc = "handle"
    /\ i > Len(Block)
    /\ pc' = "persist"
    /\ UNCHANGED <<height, i, exports, crashes>>

\* The pin persists the height of the handled block.
PinPersist ==
    /\ pc = "persist"
    /\ height' = height + 1
    /\ pc' = "idle"
    /\ UNCHANGED <<i, exports, crashes>>

\* The handler returned an error: the block is delivered again.  Whether
\* the pin retries in the process or the process exits and is restarted,
\* the handler starts over on the block after the persisted height.
PinRetry ==
    /\ pc = "error"
    /\ pc' = "idle"
    /\ UNCHANGED <<height, i, exports, crashes>>

\* The custodian process dies between two steps.
Crash ==
    /\ pc \notin {"down", "panic"}
    /\ crashes < MaxCrash
    /\ crashes' = crashes + 1
    /\ pc' = "down"
    /\ UNCHANGED <<height, i, exports>>

\* The process is started again after a crash or a panic; the pin resumes
\* after the persisted height.
Restart ==
    /\ pc \in {"down", "panic"}
    /\ pc' = "idle"
    /\ UNCHANGED <<height, i, exports, crashes>>

PinStep == Deliver \/ HandleTx \/ HandlerReturn \/ PinPersist \/ PinRetry

Next == PinStep \/ Crash \/ Restart

(***************************************************************************)
(* The pin delivers every committed block and the handler runs to its end  *)
(* (weak fairness); a dead process is restarted by its supervisor.         *)
(***************************************************************************)
Spec == Init /\ [][Next]_vars /\ WF_vars(PinStep) /\ WF_vars(Restart)

-----------------------------------------------------------------------------
(***************************************************************************)
(* The logs the exporter's transaction has (BuildExportTx, exportContract1 *)
(* and the contracts it calls): the input spent by the exporter, the log   *)
(* of the reference JSON by the spent contract, with change a log and an   *)
(* output of the pay-to-multisig contract, then the log and the output of  *)
(* the export contract, and the finalize entry.                            *)
(***************************************************************************)
E(c, s, x) == [code |-> c, seed |-> s, item |-> x]

ExportTxLog(change) ==
    IF change
    THEN <<E("I", "other", "bytes"), E("L", "other", "json"),
           E("L", "other", "bytes"), E("O", "other", "bytes"),
           E("L", "export1", "bytes"), E("O", "export1", "bytes"),
           E("F", "other", "bytes")>>
    ELSE <<E("I", "other", "bytes"), E("L", "other", "json"),
           E("L", "export1", "bytes"), E("O", "export1", "bytes"),
           E("F", "other", "bytes")>>

IsExportTx(t) == \E change \in BOOLEAN : Log[t] = ExportTxLog(change)

\* The transactions of blocks 1..h.
TxsUpTo(h) == UNION {{Chain[b][k] : k \in 1..Len(Chain[b])} : b \in 1..h}

(***************************************************************************)
(* No export is skipped (spec 4.3): every exporter's transaction in a      *)
(* block at or below the pin's persisted height has its exports row, even  *)
(* when the process crashed while handling its block: the pin persists    *)
(* the height only after the handler returns.                              *)
(***************************************************************************)
NoneSkipped ==
    \A t \in TxsUpTo(height) : IsExportTx(t) => exports[t] # NoRow

(***************************************************************************)
(* Every exporter's transaction on the chain is eventually recorded (spec  *)
(* 4.3: each block is handled exactly once even across restarts).  A crash *)
(* after an INSERT and before the pin persists the block makes the replay  *)
(* of that block hit the INSERT's duplicate key again and again.           *)
(***************************************************************************)
EveryExportRecorded ==
    \A t \in TxsUpTo(Len(Chain)) : IsExportTx(t) => <>(exports[t] # NoRow)

(***************************************************************************)
(* A malformed payload is skipped, never fatal (spec 4.3).  A log entry 1  *)
(* whose item is not bytes panics the type assertion, and the pin replays  *)
(* the block after every restart.                                          *)
(***************************************************************************)
NoPanic == pc # "panic"

(***************************************************************************)
(* The amount recorded for a peg-out is the value locked in the export     *)
(* contract (spec 1: every exported unit is pegged out exactly once).  The *)
(* handler takes the amount from the JSON at log entry 1, which the        *)
(* transaction's author writes, and never compares it with the value the   *)
(* contract holds.                                                         *)
(***************************************************************************)
RecordedAmountLocked ==
    \A t \in TxId : exports[t] # NoRow => exports[t] = Locked[t]

=============================================================================
