# TLA+ verification of the slidechain custodian

This directory holds TLA+ models of the slidechain pegging custodian: the
trusted custodian that moves value between the main ledger and the TxVM side
ledger (`src/slidechain/export.go`, `src/unnamed/part_001`). It also holds the
TLC configurations that check the models and the TLAPS proofs about them.

## 1. Inventory

### Components and their state

| Component | Source | State it keeps | Operations |
|---|---|---|---|
| Peg-In Watcher | `part_001` `watchPegIns` | in-memory stream cursor; reads and writes `custodian.cursor` and `pegs` | read cursor, stream, filter memo, conditional `UPDATE pegs`, check rows affected, write cursor, broadcast `c.imports` |
| Export Watcher | `part_001` `watchExports` | pin height (held by the pin, outside the source); writes `exports` | recognise the export log shape, parse JSON, `INSERT INTO exports`, broadcast `c.exports` |
| Peg-Out Engine | `export.go` `pegOutFromExports`, `pegOut`, `buildPegOutTx` | waiter goroutine on `c.exports` (holds `c.exports.L` except inside `Wait`), unbuffered `ch`, snapshot of pending rows | wake, query not-yet/retry rows, submit pre-authorised tx, classify reply, `UPDATE exports SET pegged_out`, forward ok/fail rows |
| Post-Peg-Out Finalizer | `part_001` `watchPegOuts` (and `doPostPegOut`, not in the source) | none beyond the current batch | receive a forwarded row; every minute sweep the ok/fail rows; `doPostPegOut` retires or repays |
| Exporter client | `export.go` `createTempAccount`, `SubmitPreExportTx`, `BuildExportTx` | none (the ledgers hold it) | open the temp account with the pre-auth signer; lock the value in the export contract |
| Persisted store | SQL tables `pegs`, `custodian`, `exports` | rows | one statement at a time, no transaction spans a suspension point |
| Program Builder | `export.go` contract sources, `part_002` retire contract | none (pure) | assemble bytecode, derive seeds |
| `account` CLI | `part_002` | none | flag parsing, calls to the ledger client |

### How they interact

Data flows one way. Main ledger → Peg-In Watcher → `pegs` → (import pipeline,
not in the source) → side ledger → Export Watcher → `exports` → Peg-Out Engine
→ main ledger → Finalizer → side ledger. Wake-ups use `sync.Cond` broadcasts
that carry no payload (`c.imports`, `c.exports`). Completed peg-outs go to the
finalizer over an unbuffered channel. Everything durable is in the SQL store
and on the two ledgers. A crash loses all goroutine memory.

### What is hard

* **Interleaving of goroutines.** `Broadcast` is called without the
  condition's lock, so a broadcast made while the waiter is not inside `Wait`
  is lost.
* **Crash between two persisted steps.** Examples: pegs UPDATE then cursor
  write; ledger submission then `pegged_out` UPDATE; UPDATE then channel
  forward.
* **Ambiguous replies from the main ledger.** A timeout after the transaction
  was applied is classified `fail`.
* **Data carried through JSON.** `State` is tagged `json:"-"`, so the sweep
  sees every row as NotYet.
* **Re-delivery.** The stream re-delivers from the persisted cursor after a
  restart, and the pin replays a block.

### What makes each component correct

* Peg-in: the persisted cursor never passes an unobserved peg payment. The
  observed amount is the first payment's. Re-delivery does not halt the
  watcher.
* Peg-out: value is retired only if it was paid out. No export is both paid out
  and repaid. `pegged_out` is monotone. Every recorded export is eventually
  pegged out, and every terminal one eventually settled.
* Export watcher: every export-shaped transaction is recorded, once. A replayed block does not wedge the pin.

## 2. Modules and what they model

### `PegOut.tla`: export, peg-out and settlement

| Code | Model |
|---|---|
| temp account on the main ledger (`createTempAccount`, pre-auth signer) | `temp[e]` ∈ none/open/merged/spent |
| value locked in the export contract | `locked[e]` ∈ none/locked/retired/repaid |
| `exports.pegged_out` (no row = `"absent"`) | `pegged[e]` |
| waiter goroutine (`export.go` 104–114) | `waiter` ∈ start/wait/send: `start` = holding the lock outside `Wait`, `send` = blocked on `ch <-` |
| consumer loop (116–190) | `cpc`, `todo` (query snapshot), `cur`, `res` (= `peggedOut`) |
| finalizer batch | `fq`: set of `<<txid, State>>` still to `doPostPegOut` |

The actions follow the code one handler at a time:

* `SubmitPreExportTx` and `BuildExportTx` are the exporter's client.
* `RecordExport` is the INSERT of `watchExports` followed by `Broadcast`.
* `WaiterWait` is the waiter entering `Wait`.
* `ConsumerWake` receives from `ch` and runs the `SELECT`.
* `SubmitPegOut` covers `c.pegOut` and the ledger's answer (`LedgerStep`),
  then the classification `Classify`.
* `UpdatePeggedOut` is the UPDATE with its one-row check.
* `ReceivePegOut` is the rendezvous on the unbuffered `pegouts` channel.
* `Sweep` is the ticker case, which rebuilds each row with State = NotYet.
* `DoPostPegOut` is modelled from spec 4.5: retire if State is OK, else
  repay. The side ledger accepts only the first settlement.
* `Crash` resets every goroutine. It is bounded by `MaxCrash`.

`Outcome` is the set of answers the main ledger may give:

* `applied`: merged and paid, reply success.
* `appliedLost`: merged and paid, but the reply is a transport error.
* `timeout`: not applied, transport error.
* `badSeq`: not applied, tx_bad_seq.
* `failed`: an operation failed; the sequence number is consumed.

### `PegIn.tla`: the peg-in watcher

| Code | Model |
|---|---|
| custodian account history | `ledger` (memo, amounts of payments to the custodian) |
| `pegs` table | `pegs[n]` = [st: absent/unobserved/observed, amt] |
| `custodian.cursor` | `dbCursor` |
| stream client cursor | `cur` |
| handler position | `pc`, `tx`, `op` |

The actions:

* `Start` reads the cursor.
* `Deliver` hands the next transaction to the handler; a memo that is not a
  hash returns at once.
* `UpdatePeg` is the conditional UPDATE plus the `numAffected != 1` fatal.
* `UpdateCursor` is the cursor write plus the broadcast.
* `HandlerDone` moves the stream cursor.
* `Crash` and `Restart`: a `log.Fatal` and a crash both end the process, and
  a restart resumes from `dbCursor`.

A stream error resumes from the in-memory cursor. It changes no modelled state,
so it is a stutter. `Honest` restricts payers to the peg command's protocol:
one payment, after the pegs row exists.

### `ExportWatcher.tla`: the export watcher under the pin

| Code | Model |
|---|---|
| the pin's persisted height (`RunPin`, outside the source) | `height` |
| the pin and handler position | `pc` ∈ idle/handle/persist/error/down/panic |
| loop index over `b.Transactions` | `i` |
| `exports` table (txid → amount of the recorded pegOut JSON) | `exports` |
| a committed block | `Chain[b]`, a sequence of transaction ids |
| `tx.Log` | `Log[t]`: entries abstracted to code (I/L/O/other), the writer's seed (export contract 1 or another), and the kind of logged item (pegOut JSON, other bytes, not bytes) |

The actions:

* `HandleTx` is one pass of the loop. It applies the shape checks of lines
  118–139 (`IsExportShape`). Then the type assertion on `Log[1][2]` panics for
  a non-bytes item. Bytes that are not JSON are skipped. Otherwise the INSERT
  runs, and its duplicate-key error is returned to the pin.
* `HandlerReturn` is the `return nil`.
* `Deliver`, `PinPersist`, `PinRetry` and `Restart` model the pin from spec
  4.3 and 6. The pin delivers the block after the persisted height. It
  persists the height only after the handler returns. After an error, a
  crash or a panic it re-delivers from the persisted height.
* `Crash` kills the process between any two steps, bounded by `MaxCrash`.

`ExportTxLog(change)` is the log that `BuildExportTx` produces, with and
without a change output. `NoneSkipped` compares what the watcher recognises
against it.

### `PegOutAbstract.tla`: what the peg-out pipeline promises

This module describes each export's lifecycle in the state that outlives the
process: `temp`, `locked` and `pegged`. The steps are:

1. Open the temp account, lock the value, and record the row as not-yet.
2. Any number of submissions follow, and each can merge or spend the temp
   account once. Any number of retry marks can also follow.
3. The row becomes `ok` (only after a merge) or `fail`.
4. The export settles once, by retiring (only after a merge) or repaying.

`PegOut` instantiates the module with the identity mapping on those three
variables. The goroutines, the channel, the snapshot and the finalizer's batch
are hidden, so their steps are stutters. The abstract spec deliberately does
not forbid repaying a paid-out export, because the code does repay one (see
`pegout_double_redeem`). What the refinement rules out is everything else: a
regression of `pegged_out`, an `ok` without a merge, a retirement without a
merge, and a second settlement.

### `PegInAbstract.tla`: what the peg-in watcher promises

This module describes the state that outlives the watcher process: the
custodian account's history, the `pegs` table and `custodian.cursor`. It
allows four kinds of step:

* `Pay` appends a payment to the history.
* `Record` moves a peg from absent to unobserved.
* `Observe` moves an unobserved peg to observed, once. It stores the first
  amount of the first transaction in the history that pays for the nonce.
* `Persist` moves the cursor forward, and only over payments whose pegs are
  observed.

`PegIn` instantiates the module with the identity mapping
(`INSTANCE PegInAbstract WITH ledger <- ledger, ...`). The stream, the
handler's position and the process's lifecycle are hidden, so their steps are
stutters.

## 3. Runs

| Run | cfg | Expect | What it shows |
|---|---|---|---|
| `pegout_safety` | `MCPegOut.cfg` | pass (11,610 states) | 2 exports, all five ledger outcomes, 1 crash. `RetiredOnlyIfPaid`, `MonotonePeggedOut`, and `TerminalEventuallySettled` (the sweep catches forwards lost to a crash). |
| `pegout_double_redeem` | `MCPegOutDouble.cfg` | violation | Even with a ledger that always applies and answers, and no crash, the sweep repays a paid-out export (`State` is `json:"-"`). |
| `pegout_lost_wakeup` | `MCPegOutWakeup.cfg` | violation | Exports recorded before the waiter reaches `Wait` are never pegged out. |
| `pegin_safety` | `MCPegIn.cfg` | pass (47,780 states) | Any payer, 2 transactions of up to 2 payment operations, 1 crash, any number of fatal restarts. `CursorSound`, `ObservedAmountIsFirst` and `PegInImplementsAbstract`. |
| `pegin_fatal_on_redelivery` | `MCPegInFatal.cfg` | violation | With honest payers, a crash between the pegs UPDATE and the cursor write makes every later start exit with `log.Fatal`. |
| `exportwatch_safety` | `MCExportWatcher.cfg` | pass (110 states) | Three blocks mix exports with and without change, a transaction too short to be an export, bytes that are not JSON and a non-bytes item, with 2 crashes. Under `NoneSkipped`, every export below the persisted height has its row, so the shape checks accept every log `BuildExportTx` writes. This checks completeness only. The recogniser also accepts hand-built transactions, as `exportwatch_panic` and `exportwatch_unbacked_amount` show. |
| `exportwatch_replay_wedge` | `MCExportWatcherReplay.cfg` | violation | A block holds two exports. A crash after the first INSERT makes every replay fail on the duplicate key, so the second export is never recorded (`EveryExportRecorded`). |
| `exportwatch_panic` | `MCExportWatcherPanic.cfg` | violation | An export-shaped transaction with a non-bytes item at `Log[1][2]` panics the handler (`NoPanic`). |
| `exportwatch_unbacked_amount` | `MCExportWatcherAmount.cfg` | violation | A hand-built export locks 1 unit and claims 2 in its JSON. The claim is recorded (`RecordedAmountLocked`). |

`pegout_safety` also checks `ImplementsAbstract`, which is `PegOutAbstract`'s
specification under the refinement mapping.

**Bounds.** Two exports (or two nonces and two transactions) are enough for
one item to be recorded while the other is being processed, and for a restart
to re-deliver. One crash is enough to land between any two persisted steps.
Every outcome of a submission is enumerated. For the export watcher, the
blocks were chosen so that each branch of the handler runs at least once, and
so that a block has two exports (the replay case needs a second export behind
the first).

**Fairness.** Go runs every runnable goroutine, so the waiter, the consumer,
the finalizer's posting and the export watcher are weakly fair. A `select`
with several ready cases picks one uniformly at random, so the channel and
ticker cases, which are enabled again and again, are strongly fair. Exporters,
payers and crashes get no fairness. The pin and its handler (`PinStep`) are weakly fair. So is the
supervisor's restart of a dead process, since a custodian that stays down
makes no liveness property meaningful. Deadlock checking is off because the
custodian is a server that idles when no work is left.

## 4. Proofs

`PegOutProofs.tla` rests on `ConstantsAssumption`, and its theorems hold for
every set of exports, every set of ledger outcomes and every crash bound.

* `TypeCorrect: Spec => []TypeOK`. `TypeOK` alone is not inductive. The
  forward sends `<<cur, res>>`, which needs `cur` to be an export between the
  submission and the forward. That condition is `CurDefined`, and
  `TypeInv == TypeOK /\ CurDefined` is inductive (`TypeInvInductive`).
* `RetiredImpliesPaid: Spec => []RetiredOnlyIfPaid`. The argument traces a
  retirement back along its path:
  * a retirement comes from an `<<e, "ok">>` in the finalizer queue;
  * that entry comes from `res = "ok"` at the forward;
  * `res = "ok"` comes from a success reply;
  * a success reply happens only when the temp account merges in the same
    step.

  `OkPaid` states, for the table, the consumer and the queue, that "ok" at
  any point of that path implies the temp account merged.
* `Refinement: Spec => ImplementsAbstract` and
  `PeggedOutMonotone: Spec => MonotonePeggedOut`. Both rest on the pipeline
  invariant `PipeInv`, which says:
  * every row of the consumer's snapshot is still not-yet or retry;
  * the row being updated is out of the snapshot, and the class it gets is
    one of retry/ok/fail;
  * at the forward, the table already holds the forwarded class;
  * every queued row is terminal in the table.

  `RInv == Inv /\ PipeInv` is inductive. `RefinementStep` shows that, under
  `RInv`, every step is an abstract step of one export or leaves
  `<<temp, locked, pegged>>` unchanged. The proof has one case per action.
  `UpdatePeggedOut` is `Mark`, because the snapshot row is still not-yet or
  retry. `DoPostPegOut` is `Settle`, because the queued row is terminal.
  `PeggedOutMonotone` follows from the same step lemma.

`PegInProofs.tla` rests on `PegInAssumption`.

* `CursorNeverPassesUnobserved: Spec => []CursorSound` and
  `PegInTypeCorrect: Spec => []PegInTypeOK`. `CursorSound` is not inductive,
  because `UpdateCursor` sets the cursor to the handler's transaction.
  `PegInInv` adds three facts, and each was checked by TLC on both PegIn
  configurations before it was proved:
  * `Handled`: every payment up to the stream's in-memory cursor is observed;
  * `InHand`: the handler's transaction is the one after that cursor, and
    once an operation was handled its nonce is observed;
  * the cursor bounds.

  `UpdateCursor` and `HandlerDone` each advance a cursor by exactly one
  transaction, and that transaction is observed.

* `ObservedAmountKept: Spec => []ObservedAmountIsFirst`.
  `ObservedAmountIsFirst` names the first payment with `CHOOSE`, which the
  provers cannot carry across a step. `ObservedFirst` states the same fact
  with a witness index `k`: `FirstAt(n, k)` holds and the stored amount is
  `ledger[k].pays[1]`. `FirstPaymentIs` shows that the first paying index is
  unique, so `CHOOSE` returns that witness.

  The step that matters is the successful conditional UPDATE
  (`FirstObservation`). Its transaction is `cur + 1`. By `Handled`, every
  earlier transaction that pays for the nonce would already have observed
  it. By `InHand`, a second operation of the same transaction finds the
  nonce observed, so the UPDATE runs with `op = 1`. Together these show the
  update stores the first payment's amount. Appending to the history keeps
  every earlier `FirstAt`.
* `PegInRefinement: Spec => PegInImplementsAbstract`. The invariant is
  `RefInv == PegInInv /\ ObservedFirst /\ dbCursor <= cur + 1`. The last
  conjunct was checked by TLC first. It makes the cursor write `Persist(tx)`
  move the cursor forward. `CursorSound` after the write is the guard of
  `Persist`. A successful UPDATE is `Observe`, by `FirstObservation`.

`ExportWatcherProofs.tla` rests on `ExportWatcherAssumption`, and its
theorems hold for every chain, every set of logs and amounts, and every crash
bound.

* `NoExportSkipped: Spec => []NoneSkipped` and
  `ExportWatcherTypeCorrect: Spec => []ExportWatcherTypeOK`. `NoneSkipped`
  is not inductive, because `PinPersist` adds a whole block to the persisted
  prefix. `InBlock` adds what the proof needs, and TLC checked it on all four
  chains first:
  * while the handler runs, every export before index `i` of the block has
    its row;
  * after `return nil`, every export in the block has its row;
  * a block is in hand only below the chain's end.

  `ExportTxShape` shows that the log `BuildExportTx` writes passes every
  check of `watchExports` and carries JSON, so the handler either inserts
  the row or meets it already present. In the second case it returns an
  error and the pin does not persist. Rows are never removed.
  `TxsUpToNext` splits the persisted prefix into the old prefix and the new
  block.

Only TLC checks the following:

* The liveness properties. TLAPS cannot prove liveness under fairness or
  reason about ENABLED. `EveryExportRecorded` is in any case violated.
* The violated properties (`NoDoubleRedemption`, `NoFatalExit`, `NoPanic`,
  `RecordedAmountLocked`). A violation is shown by a trace, not a proof.

## 5. Not modelled

* The TxVM bytecode (Program Builder) and the `account` CLI. These are data
  construction and I/O.
* The import pipeline. It is not in the source.
* The ledgers' internals. Only the effects the custodian relies on are
  modelled.

Simplifications that no property depends on:

* `Classify` counts an `*equator.Error` without result codes (for example a
  504) as fail. The code exits with `log.Fatalf` (`export.go:163-165`), which
  the model's `Crash` covers.
* When the temp account's sequence number was consumed by a failed
  submission, the model's ledger answers that the transaction failed, which
  the code classifies as fail. The real ledger answers `tx_bad_seq`, which
  the code classifies as retry. This affects only progress after a crash.
* Amounts are abstracted. `buildPegOutTx` converts them inconsistently.
  Native payments convert stroops with `HorizonString` (`export.go:206-210`).
  Credit assets are formatted with `strconv.FormatInt`
  (`export.go:219`, `:229`), which the ledger reads as whole units. If side-chain amounts are in stroops,
  as the native branch assumes, a credit-asset peg-out pays 10^7 times the
  amount. The model does not show this.
* The stream's resumption after an error (`part_001:89-104`) is modelled as
  a pause that leaves the in-memory cursor where it was.

## 6. Plan for the next sittings

1. Compose `ExportWatcher` with `PegOut` through the `exports` table. The
   watcher's INSERT would then drive `RecordExport`, and a run could check
   end to end that a replayed block never triggers a peg-out twice.
2. Add a corrected finalizer and a truthful ledger to a run of
   `ImplementsAbstract` that also forbids double redemption. That run would
   show what a fix of `pegout_double_redeem` must achieve.
3. Prove `PegInAbstract`'s own guarantees from its specification alone. One
   example is that an observed peg never changes. They would then follow for
   the watcher through `PegInRefinement`.
