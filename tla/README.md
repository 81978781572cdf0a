# Verification of poly-starcoin-relayer

The relayer is one Go process between two chains. It carries cross-chain
transactions from Poly to Starcoin (`PolyManager` and its `StarcoinSender`s) and
from Starcoin to Poly (`StarcoinManager`), and keeps what it has to remember in a
database (MySQL, or BoltDB for the second direction alone). This directory holds
TLA+ models of its core, the TLC runs that check them and TLAPS proofs about them.

## Inventory

| Component | State | Operations | Interacts with |
|---|---|---|---|
| **PolyTx relay** (`manager/polymanager.go`, `db/mysqldb.go`, `db/models.go`) | `poly_tx` rows: index, status N/P/F/D/T/UE, Starcoin hash, retry count, updated_at, SMT proof; the senders' channels | save (`PutPolyTx`), send, record hash, confirm, mark failed / timed out / processed, resend, compare SMT roots, mark rows in bulk | Starcoin (contract with the tree of executed transactions), Poly scan (callers of save) |
| **Removal, push-back** (`polymanager.go` 550-586, `mysqldb.go` 515-553, 633-681, 754-814) | `removed_poly_tx`, status TBR/TBP | remove a blocking row and clear later proofs, push it back at the end, recompute a proof | PolyTx relay (same rows), Starcoin's root, an operator writing SQL |
| **Poly scan** (`polymanager.go` 179-233, 740-1065, 1101-1255, 1583-1650) | `currentHeight`, `chain_height`, `poly_tx_retry`, epoch on Starcoin | handle heights, change book keepers, turn events into rows, check fee and token acceptance, re-handle a height | Poly, PolyTx relay |
| **Lock relay** (`manager/starcoinmanager.go`, `starcoin_tx_retry`, `starcoin_tx_check`) | `currentHeight`, `header4sync`, both tables | sync headers, roll back, record lock events, import them with proofs, check the imports | Starcoin (headers, events, reorganisations), Poly (HeaderSync, CrossChainManager) |
| **Gas subsidies** (`polymanager.go` 325-548, 699-738; `mysqldb.go` 857-1025) | `gas_subsidy` rows | create for processed rows, send, settle timeouts | PolyTx relay (reads D rows), Starcoin |
| **Starcoin senders** (`polymanager.go` 1263-1307, 1480-1503, 1652-1727; `tools/seqnummanager.go`) | the map of channels, their jobs, the next number of the account | draw a router, make its channel and worker, queue a job, take a number, submit (returning, decreasing and clearing numbers has no caller) | PolyTx relay and Poly scan (their jobs and the change of book keepers), Starcoin |
| **SMT** (`smt/smt.go`, `mysqldb.go` 735-814, 1042-1152) | tree nodes in `smt_node` | root of a tree with a key added, from a non-membership proof | PolyTx relay |
| **Treasury monitor** (`manager/treasurymanager.go`, `treasury/`) | none that others use | read balances, alert | external chains |
| **Start-up, configuration, log, encodings, generated code** | - | - | - |

Hard behaviours. Three monitors and the workers of every sender write to
`poly_tx` at the same time, under an optimistic lock that covers one call and not
the decision that led to it; two goroutines insert rows by reading the last one;
a bulk update saves whole rows it read earlier. Submissions are made by workers
behind channels chosen at random, so Starcoin sees transactions in any order, and
may see one twice; the channels are made in a map that three monitors use without a
lock, they have a bound, and the number a failed submission has taken is not given
back. The process may die between any two of these steps, with the
channels. In the other direction three goroutines share two tables that are
updated one statement at a time, with the errors ignored; headers, events and
imports concern two chains of which one reorganises.

What makes the parts correct:

* PolyTx relay: each stored proof is against the tree of exactly the rows before
  it; Starcoin executes in that order; a row says D only when it was executed, and
  for good; every row is settled in the end.
* Lock relay: no header reaches Poly before its events are recorded; no handled
  header is forgotten; every event is imported in the end; Poly ends on
  Starcoin's chain; a recorded transfer stays in one of the tables until imported.
* Removal: a transaction is always in one of the two tables; a row that blocks the
  others is moved once the operator asks, and is there again once he asks for that.
* Poly scan: every height is handled in the end; no transfer of a handled height
  is missing from the tables; a transfer put off is saved once its account accepts
  the token; Starcoin gets the book keepers of each epoch.
* Gas subsidies: a transfer the relayer waits for is not paid a second time; a row
  that is done was paid; a receiver gets no more than his share; every row is done or
  out of retries.
* Starcoin senders: no number is given twice, no gap but those of failed
  submissions; a job that is queued is served.
* SMT: the root computed from the proof is the root of the tree with the key.

## Modules

| Module | What it is |
|---|---|
| `PolyTxRelay` | the PolyTx relay: table, monitors, senders, Starcoin's tree |
| `InOrderDelivery` | the abstract promise of that direction: in-order, at most once, recorded truthfully |
| `PolyTxRelayProofs` | the theorems about `PolyTxRelay` |
| `MCPolyTxRelay` | its instances for TLC |
| `LockRelay` | the lock relay: MonitorChain, MonitorDeposit, CheckDeposit, both chains as they see them |
| `LockDelivery` | the abstract promise of the other direction: headers after the events of their blocks, events recorded for good, imported once |
| `LockRelayProofs` | the theorems about `LockRelay` |
| `LockDeliveryProofs` | the proof that `LockRelay` implements `LockDelivery` |
| `MCLockRelay` | its instances for TLC |
| `PolyScan` | the Poly scan: MonitorChain and MonitorDeposit of PolyManager, the tables they fill, the epoch on Starcoin |
| `TransferIntake` | the abstract promise of the scan: a transfer is put off, committed once, or skipped, before its height is done |
| `PolyScanProofs` | the theorems about `PolyScan` |
| `MCPolyScan` | its instance for TLC |
| `PolyTxRemoval` | removal and push-back: both tables, MonitorTimedOutPolyTx, MonitorChain's saves, sends that compute a root |
| `PolyTxRemovalProofs`, `MCPolyTxRemoval` | the theorems about it, its instance for TLC |
| `GasSubsidy` | the gas subsidies: MonitorGasSubsidy, its table, Starcoin's order of an account's transfers |
| `SubsidyOrders` | the abstract promise of the subsidies: one payment order at a time, none once it is over |
| `GasSubsidyProofs`, `MCGasSubsidy` | the theorems about it, its instance for TLC |
| `StarcoinSender` | channels, workers, changeBookKeeper and the sequence numbers of an account |
| `StarcoinSenderProofs`, `MCStarcoinSender` | the theorems about it, its instance for TLC |

`PolyTxRelay`, `PolyTxRemoval` and `StarcoinSender` are three views of the same
goroutines, each with in full what the others abstract: the row's life and
time-outs, the roots that are reset and computed anew, the numbers and channels.
Their common states are too many for TLC.

Operators marked `Mutant:` are plausible bugs. Each is the replacement of one
definition of the model; with it TLC finds the property named for it in
`PROJECT.json` violated.

### PolyTxRelay: how it corresponds to the code

| Model | Code |
|---|---|
| `row[t]` | the row of `poly_tx` of (from_chain_id, tx_hash); `idx` tx_index, `hash` starcoin_tx_hash, `retry` retry_count, `stale` updated_at more than 120 s ago, `base` the tree the stored non-membership proof is against |
| `chain` | keys of the contract's tree: the executed transactions |
| `sent` | Starcoin transactions the relayer has submitted, and their fate |
| `puts` | calls of `putPolyTxThenSend` by MonitorChain and MonitorDeposit in progress: last row read, or row inserted and not sent |
| `failedSnap`, `tickSnaps`, `saves` | rows read by MonitorFailedPolyTx, MonitorTimedOutPolyTx and the bulk update, and not written yet |
| `jobs` | what is in a sender's channel or held by its worker |
| `marks` | goroutines started by `SetPolyTxStatusProcessed` that have not read yet |
| `PutRead`, `PutCreate`/`PutDuplicate`/`PutPanics`, `PutSend` | `PutPolyTx` up to the insert, its three outcomes, `sendPolyTxToStarcoin` |
| `GetFirstFailedPolyTx`, `HandleFailedPolyTx` | MonitorFailedPolyTx, the query and then `handleFailedPolyTx` |
| `GetTimedOutOrFailedPolyTxList`, `CheckOnChainSmtRoot`, `GetFirstTimedOutPolyTx`/`NoTimedOutPolyTx`, `HandleTimedOutPolyTx` | one tick of MonitorTimedOutPolyTx |
| `SubmitTransaction`/`SubmitFails`, `SetProcessingPolyTxStarcoinTxHash`, `WaitTransactionConfirm` | `sendTxToStarcoin` of a worker |
| `MarkRead`, `MarkSave` | `updatePolyTransactionsToProcessedBeforeIndex` |
| `ChainRuns` | Starcoin executes or aborts a submitted transaction |
| `TimePasses`, `Crash` | 120 s without an update; the process dies and starts again |

Abstractions. A root hash is the set of keys of its tree (hashing is taken to be
collision-free). A Starcoin hash is the number of the attempt, which is unique
because each attempt increases retry_count. Channels are chosen at random by the
code, so jobs are a set; their capacity is `StarcoinSender`'s. A Starcoin
transaction that is never executed (lost by the node, a nonce gap) is one that
stays pending. `SetPolyTxStatusProcessing` and the enqueueing are one step, as are
a query of Starcoin and the update it leads to in `handleTimedOutPolyTx`; a
statement that reads a row and updates it under the optimistic lock is one step,
since a concurrent write makes the update affect no row and the call fail, which
is the behaviour of the step taken after the write with the same old status.
Database errors other than duplicate keys and lost locks are not modelled in this
module. Status C is never written by the code; TBR is `PolyTxRemoval`'s.

### LockRelay: how it corresponds to the code

| Model | Code |
|---|---|
| `tip`, `forked` | Starcoin's height and its one possible reorganisation |
| `headers`, `best` | the headers Poly has, and its current one (`findSyncedHeight`) |
| `syncing`, `imports` | transactions Poly has accepted: `SyncBlockHeader`, `ImportOuterTransfer` |
| `retry`, `check` | `starcoin_tx_retry`, `starcoin_tx_check` |
| `height`, `batch`, `pc`, `todo` | `currentHeight`, `header4sync`, where MonitorChain is, events of the block still to be recorded |
| `dep`, `chk` | where MonitorDeposit and CheckDeposit are in their lists |
| `Upsert` | BoltDB's `PutStarcoinTxRetry` replaces a row, MySQL's fails |
| `ReadNodeHeight`, `Reset`, `HandleBlockHeader`, `FetchLockDepositEvents`, `PutStarcoinTxRetry`, `BlockHandled`, `LoopEnds`, `CommitHeader*`, `RollBackToCommAncestor`, `HeaderConfirmed` | MonitorChain and what it calls |
| `GetAllStarcoinTxRetry` ... `DepositsHandled` | MonitorDeposit, `handleLockDepositEvents` |
| `GetAllStarcoinTxCheck` ... `ChecksHandled` | CheckDeposit, `checkLockDepositEvents` |
| `Crash` | the process dies; `init` starts from Poly's height |

Abstractions. A header is a height and a fork; the heavier of two headers is the
higher one, of one height that of the fork Starcoin prefers. One node is asked,
whose height never goes back, and this relayer is the only one that sends headers.
`rollBackToCommAncestor` is one step; a call of Poly that fails counts as a header
Poly does not have, so that the rollback may go below the last common header, at the
cost of one failed call for each common header it misses. `forceHeight`, the filter on
proxy contracts and the DONE_TX test of `fetchLockDepositEvents` (ineffective: its key is never
filled in) are left out. The model starts, and Starcoin reorganises, where
neither `currentHeight - len(header4sync)` nor such a rollback gets below what Poly
has had from the start (`LockConstants`).

### PolyScan: how it corresponds to the code

| Model | Code |
|---|---|
| `tip`, `Block`, `Epochs` | Poly: its height, the transfers (targets of `makeProof`) of its blocks, the headers with new book keepers |
| `epoch`, `changes`, `accepting` | Starcoin: `getCurEpochStartHeight`, the `changeBookKeeper` transactions it has accepted, the accounts that accept their tokens |
| `rows`, `retry`, `saved` | `poly_tx` (a key and the anchor of its proof), `poly_tx_retry`, `chain_height` |
| `missed` | transfers skipped because `GetCrossStatesProof` failed |
| `pc`, `latest`, `height` | where MonitorChain is, `latestheight`, `currentHeight` |
| `lastEpoch`, `isEpoch`, `anchor`, `next`, `found`, `processed` | variables of `handleDepositEvents` (`cnt > 0`, `heightProcessed`) |
| `ReadPolyHeight`, `LoopEnds`, `UpdatePolyHeight` | a tick of MonitorChain around its loop |
| `FindCurEpochStartHeight`, `GetHeader`, `GetHeaderFails`, `GetCrossStatesProofFails`, `PutPolyTxRetry`, `PutPolyTx`, `HeightHandled` | `handleDepositEvents` |
| `ChangeBookKeeper`, `WaitTransactionConfirm` | `changeBookKeeper` |
| `GetAllPolyTxRetry`, `SkipPolyTxRetry`, `PutPolyTxThenSend`, `DeletePolyTxRetry`, `RetriesHandled` | MonitorDeposit, `handlePolyTxRetry` |
| `Crash` | the process dies; `init` |

Abstractions. A proof is its anchor: the rest of it is the same whenever it is
asked for. Each transfer is in a Poly transaction of its own, so the `break` after
one that is not saved does not keep the next from being handled. What becomes of a
row of `poly_tx` is `PolyTxRelay`'s subject: its `PutRead` to `PutSend` are one step
here, with the panic of the loser of a race as a `Crash`, as is the nil dereference
after an error of `GetMerkleProof`. `CheckFee` is a stub in the code that answers
"paid". The contract takes a change of book keepers only from the epoch before its
own. Fee status, counters and messages of `poly_tx_retry` are left out, as are the
start height of the command line and the tool that handles one height again. The
saved height must not wrap at 0: each restart may lower it by one, so the model has
fewer restarts than `Start`.

### PolyTxRemoval: how it corresponds to the code

| Model | Code |
|---|---|
| `row`, `removed` | `poly_tx` and `removed_poly_tx`; `base` is smt_non_membership_root_hash, `NoRoot` the empty string `RemovePolyTx` resets it to, `BadRoot` a root of no tree of saved transactions |
| `seen` | what MonitorChain has saved: it does not come back to it |
| `chain`, `jobs` | the contract's tree; Starcoin transactions from the queue to the settling of the row |
| `put` | the `PutPolyTx` of MonitorChain between its read and its insert |
| `sending` | the calls of `sendPolyTxToStarcoin`: the copy of the row the caller has, and how far it is (`copied`, `taken`, root `read` and computed, `saved`) |
| `marks`, `saves` | the goroutines of `SetPolyTxStatusProcessed` that have not read yet, and the rows others have read and will save |
| `tick`, `held` | where MonitorTimedOutPolyTx is, and the row it read |
| `GetFirstPolyTxToBeRemoved`/`NoPolyTxToBeRemoved`, `RemovePolyTx` | the query and `handlePolyTxToBeRemoved`: compare with the on-chain root, then one database transaction |
| `GetFirstRemovedPolyTxToBePushedBack`/`NothingToBePushedBack`, `PushBackPut`, `PushBackDelete` | `PushBackRemovePolyTx`: read the last row, `PutPolyTx`, then delete, which are not one transaction |
| `GetFirstFailedPolyTx`, `PutCreate` | the callers of `sendPolyTxToStarcoin` get their copy |
| `SetPolyTxStatusProcessing`, `NotTaken`, `RootRead`, `RootSave`, `SendWithRoot`, `SendFails`, `SendPanics` | `sendPolyTxToStarcoin`: take the row, or not; `UpdatePolyTxNonMembershipProofByIndex` (read; save of the whole row); the row read again, the queueing; a failed call; the nil dereference when it is gone by then |
| `JobRuns`, `Settle` | the contract; `SetPolyTxStatusProcessed`, or `SetPolyTxStatus` with F |
| `MarkRead`, `MarkSave` | `updatePolyTransactionsToProcessedBeforeIndex`: the read of a list, then the save of each row as it was read but for its status |
| `RequestRemoval`, `RequestPushBack` | the operator's SQL |

Abstractions. Time is not modelled, with two consequences. `Stale`: a row is not taken
again while one of its sends is between its own statements; these are few and have
no wait between them, where MonitorFailedPolyTx takes a row that nothing has touched
for 120 s. What a send has queued may be in the channel or on Starcoin for as long
as it likes, and the row is taken again meanwhile. `AskedBefore`: a bulk update that
has read a row saves it before the tick in which the operator's request for that row
is handled. Without it `RowsStay` does not hold: an update that stands still between its
read and its save, while its row is removed and pushed back, saves at the old index.
Hashes, time-outs and the panic of two inserts with one
index are `PolyTxRelay`'s (here the second insert fails). The bulk update may read any
part of the rows before its index (window and limit of its query). gorm leaves a
condition on an empty string out of the query, so a tree read from an empty root may
be that of any node (`RootsAfter`). `RequestRemoval` is of a row in status P or F;
`MaxPushes` bounds the requests to push back.

### GasSubsidy: how it corresponds to the code

| Model | Code |
|---|---|
| `due` | rows of `poly_tx` that `GetPolyTxListNotHaveGasSubsidy` can find |
| `row[t]` | the row of `gas_subsidy`; `hash` the number of the attempt whose hash it holds, `retry` retry_count, `pays` subsidy_amount > 0, `stale` updated_at old enough for the queries' callers |
| `next`, `sent` | Starcoin: the sender's next sequence number; the transfers it was given, with their fate |
| `phase`, `flight` | where MonitorGasSubsidy is in its tick; the transfer it is sending |
| `Create`, `EndCreate` | `createGasSubsidies` |
| `HandleNotSentGasSubsidy`, `HandleTimedOutGasSubsidy`, `HandleFailedGasSubsidy`, `No...` | the three queries and their handlers |
| `Send`, `SubmitSignedTransaction`/`SubmitFails`, `WaitTransactionConfirm` | `sendGasSubsidyTxToStarcoin`: sign and write the row, submit, wait |
| `ChainRuns` | Starcoin executes or aborts the pending transfer with the next number |

Abstractions. Amounts are "something or nothing"; the draw of the amount, the
blacklist and the minimal amount are the constant `Subsidised`. A transaction that
`createGasSubsidies` skips at every tick, since its proof cannot be read or its amount
is 2^64 or more (`ParseUint`), is in the constant `Unreadable`: it never gets a row,
and `Settled` is claimed of the others. The first sender's
key is the one the code uses. The limit of days in the query of due rows is left out.

### StarcoinSender: how it corresponds to the code

| Model | Code |
|---|---|
| `onchain`, `pool` | Starcoin: the account's next number, pending numbers |
| `number` | `accountSeqNum[address]` |
| `cmap`, `made`, `length` | the map of channels; the channels that have a worker, in the map or not; the jobs in each |
| `holds` | the number a worker, or the monitor in `changeBookKeeper`, has taken and not yet submitted |
| `monitor` | where a monitor is in `sendPolyTxToStarcoin`: about to make a channel, or to send to one |
| `first`, `done`, `lost` | history variables: the first number since the start, the numbers used, those whose call failed |
| `GetRouter`, `MakeChan`, `SendJob` | `sendPolyTxToStarcoin` from `getRouter` on |
| `SendTxToStarcoin`, `ChangeBookKeeper`, `GetAccountSeqNum` | taking a number, from either caller |
| `SubmitTransaction`, `SubmitFails` | the submission, or one of the calls before it fails |

Abstractions. The wait for the transaction is part of being idle again: it is
limited and changes no number. Starcoin's pool does not drop a transaction. What a
concurrent use of the map may do is to end the process (`Crash`) or to lose one of
two entries (`MakeChan` of both). Jobs are counted, not told apart: what a job is
about is in the other modules.

## Runs

| Run | Question | Instance |
|---|---|---|
| `saving` | do the races of saving break the chain of proofs, and is every step one of `InOrderDelivery`? | 2 transactions, 2 goroutines, 1 attempt, 1 crash |
| `resending` | in order, each attempt submitted once, D true, D final, under resends? | 2 transactions, 2 attempts each (3 retries together), no crash |
| `settling` | is every row settled? | 1 transaction, 2 attempts, 1 crash, fairness |
| `recording` | events before headers, no header forgotten, whatever call fails? | MySQL, 2 events in a block, batches of 2, 1 failed call, 1 failed import, 1 crash |
| `forking` | is an event imported in the end, when Starcoin reorganises, and is every step one of `LockDelivery`? | BoltDB, an event on each fork, 1 failed call, 1 crash, fairness |
| `mysql` | and with MySQL? violated | 2 events, 1 crash, fairness |
| `scanning` | is a transfer missed, does the scan go on, are transfers put off saved, do the epochs follow, is every step one of `TransferIntake`? | 2 transfers in a block, 1 change of book keepers two blocks later, 1 failed call, 1 crash, fairness |
| `stuck` | does MonitorChain always get through? violated | the same |
| `race` | does a transfer stay in the tables? violated | 2 events, 1 failed import |
| `removal` | is a transaction lost between the tables, does a row leave its place unasked, are the operator's requests carried out? | 2 transactions, 2 attempts of one and 1 of the other, 1 request to push back, 1 failed call or crash, fairness |
| `subsidy` | is a subsidy paid twice, or never, or more than Cap times, is every step one of `SubsidyOrders`? | 3 transactions of one receiver and one that cannot be read, a cap of 2, 2 attempts, 1 failed call or crash, fairness |
| `sending` | are numbers unique and complete, is every job served? | 2 monitors (one of them changes book keepers), 2 routers, channels of 1 job, 3 transactions, 2 failed calls or crashes, fairness |

Why the bounds are enough. In `PolyTxRelay` the interesting collisions are between
two attempts of one row (two attempts suffice for an old answer to meet a newer
attempt) and between neighbours in the index order (two rows); window and list
limit are 1, so that both cut something off. `resending` has the constraints
`NoRescan` (a saved transaction is not presented again, which `saving` covers) and
`OneResend` (one of the two rows is sent twice) and `Unsettled` (what is left of
the senders' work when both rows say D is not explored). All safety properties of
`PolyTxRelay` are proved for all values of the constants. In `LockRelay` the heights
are just enough for the event to be confirmed after one wasted commit; the retry
queue's reset happens with `HeadersPerBatch` 1 and 2, and the one failed call may be
that of a rollback or of the test whether Poly has a header.

In `PolyScan` the instance has what the anchor depends on: a block with transfers,
before the header with new keepers, scanned again after a crash with the old or the
new epoch; two transfers so that one may fail with the other saved.

In `LockRelay`, `CommitHeaderFails` happens only below `Top`: the headers that were not
sent wait for a new block, so a chain that ends there would keep them for ever.

In `PolyTxRemoval` two rows are a blocking one and one after it whose root is reset;
pushed back, the first follows the second. Each may be in the hands of two sends, of
a bulk update and of the monitor at once; `OneResent` has one of them sent once only. In
`GasSubsidy` three rows and a cap of
two let one be cut off; `ThirdIsLast` has the third transaction processed when the
first is done, which leaves the order of the first two open; `BigIsFirst` has the one
that cannot be read in the list from the start, so that the others are met after it. In
`StarcoinSender` a channel of one job is full at once, two monitors suffice for a channel to be
replaced, and three transactions for a gap with one before and one after it. The
safety properties of the three are proved for all values.

Fairness. The monitors run on tickers and the workers on channels for as long as
the process lives: weak fairness of each. The queries with LIMIT 1 have no order,
so the row they return is any that qualifies; a row that is handled leaves the
query or uses up one of its retries, so it cannot be passed over for ever: strong
fairness per transaction. Time passes. Nothing is assumed of Starcoin or of
submissions in `PolyTxRelay`: `Settles` includes the rows that end failed.
`LockRelay` assumes that Starcoin makes blocks up to the model's bound and that
Poly executes what it accepted (without which nothing can be imported); errors,
crashes and the reorganisation are not assumed.

`PolyTxRemoval` assumes that MonitorTimedOutPolyTx runs, and that a bulk update that
was begun ends; nothing of the operator, of MonitorChain or of the senders. `GasSubsidy` assumes
that its goroutine runs and that time passes, nothing of Starcoin. `StarcoinSender`
assumes that monitors and workers run and that Starcoin executes what it can; a
monitor at a full channel gets its turn (strong fairness: Go serves the senders that
wait at a channel in order).

`PolyScan` assumes that the two goroutines keep ticking, that Poly makes blocks up
to `Top` and that Starcoin executes the transactions it has accepted; not that an
account ever accepts a token. `EpochsFollow` is claimed of epochs whose block before
is empty: the code sends the header of no other (`cnt == 0`).

`CHECK_DEADLOCK FALSE` is set for `LockRelay` and `PolyScan` since their chains end
at `Top`, and for `StarcoinSender` since its jobs end: there is then nothing left
to do.

## Findings

* `mysql`: after a crash between recording an event and sending its header,
  `PutStarcoinTxRetry` fails on the duplicate key at every tick and the Starcoin to
  Poly direction stands still. BoltDB does not have it.
* `stuck`: the process dies while a `changeBookKeeper` transaction is pending and
  starts again from the saved height before it is executed. The heights before the
  epoch are then handled again with an anchor, the transfers among them are not
  duplicates of what is saved (the whole proofs are compared), and MonitorChain
  tries the first such height at every tick for ever. `HandledOrDiverged` shows
  that this is the only obstacle in the instance.
* `race`: a failed transfer put back by CheckDeposit between MonitorDeposit's two
  statements is deleted.

Behaviours the models have, that nothing in the code prevents, and which no run is
about: a row removed while its Starcoin transaction is pending, and a row inserted with a root
read before a removal reset it (two of the hazards of `PROJECT.json` without a
property); a row sent while the root of the row before it is reset and not computed
yet, so that its own is computed from an empty root; a request of the operator
overwritten by a send that had read the row; a transfer whose row in
`starcoin_tx_check` could not be written, and whose retry row is deleted all the same.
After the first three the proofs of the later rows may be against trees the contract never has, so the operator has to ask for a
removal only while nothing is under way, and to have the rows after it sent in order.
A row removed while its Starcoin transaction is pending, and pushed back, starts a bulk
update at its new index when that transaction is executed and settled: rows before it may
be marked D that were not executed. And the bulk update writes a row's old count of
retries and root back with its status D.

## Proofs

`PolyTxRelayProofs` proves, for any set of transactions, any number of goroutines
and crashes, any retry limit, window and list limit:

* `Invariance`: `Spec => []IndInv`, with `IndInv == TypeOK /\ Structure /\ Execution`.
  `ProcessedSound` is not inductive: a bulk update saves rows as D on the word of a
  later row, so the invariant says that a row is only ever marked on behalf of an
  index whose transaction is executed (`marks`), that the snapshots under way are
  of rows that precede one, and that an attempt's tree is the one of the rows before
  its transaction (`Structure`), from which execution in order follows
  (`Execution`).
* `TypeCorrect`, `ProofChainHolds`, `ExecutedInOrder`, `ProcessedIsExecuted`,
  `ProcessedStays`: the properties of the runs, from the invariant.
* `RelayImplementsDelivery`: every step is a step of `InOrderDelivery` or a stutter.
* `AttemptsAreDistinct` (`AttemptedOnce`): with it a hash in the table stands for one
  Starcoin transaction. Two attempts of a row could get one number if a row lost
  count. The bulk update does save an old count back, but marks the row D, and a row
  marked D is never taken again (`ProcessedIsFinal`). So `AttemptInv` adds to the
  property that the numbers of a row's attempts do not exceed its retries unless it
  is D (`Numbered`); `Counts` is what each step does to the retries of a row.

They rest on `ConstantsAssumption` alone.

`LockRelayProofs` proves, for any set of events, either database, any batch size,
any number of crashes, failed calls and failed imports, and with the
reorganisation:

* `LockInvariance`: `Spec => []IndInv`. `NoHeaderSkipped` and `NoEventSkipped` are
  not inductive. For the first, a header that waits in `header4sync` must still be
  covered when the queue is dropped and `currentHeight` goes back by its length:
  `Waiting` says that it stands so far from the end of the queue as its height is
  below the one being handled, duplicates and failed blocks included, and `Queue`
  that the queue is short enough for that. `Deep` says that it is not longer than the
  chain below it, which is what the unsigned subtraction needs: a rollback that misses
  common headers, and a header that is queued although Poly has it, each have cost a
  failed call, and the model starts `MaxErrors` above the reach of a reset. For the second, a
  header joins the queue before its events are fetched: `Recording` says that the
  events of a header that waits are recorded or its block is the one in hand, and
  `Items` that a row MonitorDeposit deletes has its transaction on Poly. `Chain`
  (Poly's headers hold their ancestors) and `Forks` (nobody has a header of the new
  fork before it exists) are what both say about Poly.
* `LockTypes`, `EventsKept`, `HeadersKept`: the properties of the runs.
* `LockRelayImplementsDelivery`, in `LockDeliveryProofs`: every step is a step of
  `LockDelivery` or a stutter. The mapping: `recorded` are the events in
  `starcoin_tx_retry` or with a transaction on Poly, `submitted` those with one, `imported` those whose
  transaction was executed; `produced` and `main` are Starcoin's blocks. `IndInv` says
  nothing of where headers and rows in the goroutines' hands come from;
  `TracedInvariance` adds that headers in the queue and on their way are of blocks
  produced (`Traced`), that the rows MonitorDeposit goes through are recorded and that
  those CheckDeposit puts back were submitted (`Listed`). The race of the run
  `race` is no step outside `LockDelivery`: an event it drops from both tables has had
  a transaction on Poly, so it is still recorded; that it may never be imported is a
  matter of liveness.

They rest on `LockConstants`: of it the proofs need that the model starts beyond
the reach of a reset and of the failed calls, and that the reorganisation happens
beyond it too.

`PolyScanProofs` proves, for any blocks and epochs, with or without `CheckFee`, and
any number of failed calls:

* `ScanInvariance`: `Spec => []IndInv`. `NothingMissed` is not inductive: a
  `changeBookKeeper` transaction that Starcoin has accepted may move the epoch, and
  with it the height a restart begins at, long after it was sent. `Behind` says of
  the heights below every pending change what `NothingMissed` says of those passed;
  `AtHand` that the transfers of the block at hand are settled so far, and all of
  them when the book keepers are changed; `Moved` that what MonitorDeposit is about
  to delete is in `poly_tx`; `Bounds` that MonitorChain stays below the tip.
* `ScanTypes`, `NoTransferMissed`: the properties of the run.
* `ScanImplementsIntake`: every step is a step of `TransferIntake` or a stutter. A
  transfer in both tables counts as committed, so that a crash between the insert and
  the delete is a stutter; heights that will not be handled again are `done`. `Queued`
  is needed for the delete by key: a transfer has one row in `poly_tx_retry`, and what
  MonitorDeposit has listed is still there.

They rest on `ScanConstants`: in particular that blocks below `Start` have no
transfers for Starcoin and that there are fewer crashes than heights below it.

`PolyTxRemovalProofs` proves, for any transactions and retries, any number of bulk
updates under way, of requests, of failed calls and of crashes:

* `RemovalInvariance`: `Spec => []IndInv`. `NeverLost` is not inductive: a send and a
  bulk update save the whole row they read, by primary key, and would overwrite whatever
  row has that index by then, or make a removed row again. What they are about to save
  stays where it is until they do: `Sends` says that a row whose root is computed has none
  meanwhile, or is processed, and so is not moved, and that the row in the hands of a
  send that has not taken it yet is as it was read or has left the status it is taken in
  for good; `SavesInPlace` says the same of the rows of a bulk update, which are not
  new ones; `Removing` that nobody is about to save the row that is being deleted.
  `Unique` says that no two rows have one index, `Fresh` that MonitorChain inserts no row
  twice, `PuttingBack` that a row is deleted from `removed_poly_tx` only when it is in
  `poly_tx`, `OneHeld` that MonitorTimedOutPolyTx holds one row.
* `RemovalTypes`, `RemovalNeverLost`, `RemovalRowsStay`: the properties of the run. That
  each action keeps `IndInv` and moves no row but by `RemovePolyTx` is proved at once
  (`Kept`), with one lemma (`MovesKeep`) for what all actions that leave the tables'
  indexes alone have in common.

That a transaction keeps its count of retries when it is removed and pushed back is not
claimed: a bulk update saves an old count back.

They rest on `ConstantsAssumption`: the empty and the bad root are not sets of keys.

`GasSubsidyProofs` proves, for any transactions, receivers, cap and retries, and any
number of failed calls and crashes:

* `SubsidyTypes`, `SubsidyOnce`, `SubsidyDone`, `SubsidyCapped`. `PaidOnce` is about
  transfers, and what keeps it is the row: the invariant says that a row names its
  last attempt (`LastHash`), that what is being sent is that attempt and was not
  submitted yet (`InFlight`), that each attempt is submitted once (`Numbered`), that a
  transfer executed in time is the last one and its row waits for it or is done, so
  that no query has it sent again (`OnTime`), and that the attempt a done row names
  was executed (`DoneByHash`).
* `SubsidyImplementsOrders`: every step is a step of `SubsidyOrders` or a stutter. The
  hash of a row is the number of orders issued, P and T are those still waited for. A row
  that waits has sent something (`Waited`). What the abstraction makes plain is the
  limit of the promise: an order that was given up may be paid all the same.

`StarcoinSenderProofs` proves, for any monitors, routers and lengths of channels, and
any number of failed calls and crashes:

* `SenderTypes`, `NumbersUnique`, `NumbersComplete`. The numbers counted since the
  start are exactly those in somebody's hands and those done with (`Accounted`), and
  the latter have reached Starcoin or are lost (`Delivered`); a monitor that sends has
  a channel with a worker, replaced in the map or not (`Routed`).

Every safety property that a passing run checks is a theorem, and so is each of the four
refinements. Model-checked only: liveness (`Settles`, `Relayed`, `PolyFollows`,
`HandledOrDiverged`, `Committed`, `EpochsFollow`, `Unblocked`, `PushedBack`,
`Settled`, `Flows`, `Served`), since the proof
system handles neither fairness nor ENABLED here.

## Plan

What is left, in this order:

1. Poly transactions that Poly drops, and proofs that can never be had, in
   `LockRelay`.
2. `SmtRoot`: `UpdateRootByPath` against a reference tree over bounded depths, by TLC
   only.
3. `PolyScan` composed with `PutRead` ... `PutSend` of `PolyTxRelay`, and the tool
   that handles a height again.
4. The proofs' trees in `PolyTxRemoval` under the conditions above, as an invariant and
   a theorem: it would cover the two hazards of a removal that have no property.
5. Abstract specifications of `PolyTxRemoval` (one place per transaction) and of
   `StarcoinSender` (a dispenser of numbers), with their refinements.

## Not modelled

The treasury monitor, configuration, logging and start-up (I/O without state that
others use); encodings and generated code (payloads are model values); hashing and
signatures; the computation of a root from the bits of a path (a root is the set of
keys of its tree); the contents of proofs; `ReturnSeqNum`, `DecreaseAccountSeqNum` and
`clearSeqNum`, which nothing calls.
