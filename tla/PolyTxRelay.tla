---------------------------- MODULE PolyTxRelay ----------------------------
(***************************************************************************)
(* The Poly -> Starcoin direction of the relayer: the poly_tx table, the   *)
(* goroutines of PolyManager that write to it, the Starcoin senders and    *)
(* the sparse Merkle tree (SMT) of executed transactions on Starcoin.      *)
(*                                                                         *)
(* A poly transaction is saved with a non-membership proof against the     *)
(* tree that holds exactly the transactions saved before it.  The contract *)
(* on Starcoin executes it only when the proof's root is the root of the   *)
(* on-chain tree.  A root is modelled by the set of transactions in the    *)
(* tree: two trees have the same root hash iff they hold the same keys.    *)
(*                                                                         *)
(* Time is modelled by the flag stale of a row: its updated_at is more     *)
(* than PolyTxMaxProcessingSeconds ago.  A Starcoin transaction hash is    *)
(* the number of the attempt that produced it (0 is the empty string).     *)
(* The operator's TBR/TBP requests are outside this module.                *)
(***************************************************************************)
EXTENDS Naturals, FiniteSets

CONSTANTS
  Tx,          \* the poly transactions (from_chain_id, tx_hash)
  Putter,      \* the goroutines that save them: MonitorChain, MonitorDeposit
  MaxRetry,    \* PolyTxMaxRetryCount (10 in the code)
  Window,      \* indexDiffLimit (50 in the code)
  ListLimit,   \* limit of the two list queries (10 in the code)
  MaxCrashes   \* bound of the model: how often the process dies

ASSUME ConstantsAssumption ==
  /\ MaxRetry \in Nat \ {0}
  /\ Window \in Nat \ {0}
  /\ ListLimit \in Nat \ {0}
  /\ MaxCrashes \in Nat

VARIABLES
  \* the database and the chain survive a crash
  row,         \* poly_tx: the row of each transaction
  chain,       \* the keys of the on-chain tree: the executed transactions
  sent,        \* the Starcoin transactions submitted, with their fate
  \* the state of the goroutines does not
  puts,        \* what MonitorChain and MonitorDeposit are in the middle of
  failedSnap,  \* the row MonitorFailedPolyTx has read and not handled yet
  tick,        \* where MonitorTimedOutPolyTx is in its tick
  tickSnaps,   \* the rows it has read and not handled yet
  jobs,        \* what is in the senders' channels or held by a worker
  marks,       \* started updatePolyTransactionsToProcessedBeforeIndex calls
  saves,       \* the stale rows those calls have read and will Save
  crashes

dbVars == <<row, chain, sent>>
goVars == <<puts, failedSnap, tick, tickSnaps, jobs, marks, saves>>
vars   == <<row, chain, sent, puts, failedSnap, tick, tickSnaps, jobs, marks,
            saves, crashes>>

\* New, Processing, Failed, processeD, TimedOut, Unknown Error.  The code
\* never writes C (Confirmed).
Status == {"none", "N", "P", "F", "D", "T", "UE"}

Row == [idx: Nat, status: Status, hash: 0..MaxRetry, retry: 0..MaxRetry,
        stale: BOOLEAN, base: SUBSET Tx]

NoRow == [idx |-> 0, status |-> "none", hash |-> 0, retry |-> 0,
          stale |-> FALSE, base |-> {}]

NewRow(idx, base) == [idx |-> idx, status |-> "N", hash |-> 0, retry |-> 0,
                      stale |-> FALSE, base |-> base]

Snap    == [tx: Tx, row: Row]
Pending == [by: Putter, tx: Tx, idx: Nat, base: SUBSET Tx,
            stage: {"read", "saved"}]
Attempt == [tx: Tx, n: 1..MaxRetry, base: SUBSET Tx,
            fate: {"pending", "executed", "aborted"}]
Job     == [tx: Tx, n: 1..MaxRetry, base: SUBSET Tx,
            stage: {"queued", "submitted", "waiting"}]

TypeOK ==
  /\ row \in [Tx -> Row]
  /\ chain \in SUBSET Tx
  /\ sent \in SUBSET Attempt
  /\ puts \in SUBSET Pending
  /\ failedSnap \in SUBSET Snap
  /\ tick \in {"list", "smt", "timedOut", "resolve"}
  /\ tickSnaps \in SUBSET Snap
  /\ jobs \in SUBSET Job
  /\ marks \in SUBSET Nat
  /\ saves \in SUBSET Snap
  /\ crashes \in 0..MaxCrashes

Init ==
  /\ row = [t \in Tx |-> NoRow]
  /\ chain = {} /\ sent = {}
  /\ puts = {} /\ failedSnap = {} /\ tickSnaps = {}
  /\ tick = "list"
  /\ jobs = {} /\ marks = {} /\ saves = {}
  /\ crashes = 0

Saved(t) == row[t].idx # 0
SnapOf(t) == [tx |-> t, row |-> row[t]]

-----------------------------------------------------------------------------
(***************************************************************************)
(* The statements of db/mysqldb.go.  Each reads the row and updates it     *)
(* under an optimistic lock on (status, hash, updated_at) that is taken    *)
(* and used inside one call: the caller's stale knowledge is only the old  *)
(* status it passes.                                                       *)
(***************************************************************************)
\* Mutant: an update that does not look at the old status.
AnyStatusUpdate(t, oldStatus, status) ==
  row' = [row EXCEPT ![t] = [row[t] EXCEPT !.status = status, !.stale = FALSE]]

SetPolyTxStatus(t, oldStatus, status) ==
  row' = IF row[t].status = oldStatus
         THEN [row EXCEPT ![t] = [row[t] EXCEPT !.status = status, !.stale = FALSE]]
         ELSE row

\* Whatever becomes of the update, the rows before this one are marked too.
SetPolyTxStatusProcessed(t, oldStatus, hash) ==
  /\ row' = IF row[t].status = oldStatus
            THEN [row EXCEPT ![t] = [row[t] EXCEPT !.status = "D", !.hash = hash,
                                              !.stale = FALSE]]
            ELSE row
  /\ marks' = marks \cup {row[t].idx}

\* A row in processing whose attempt has no hash yet is left to its sender
\* until it is stale.
CanSetProcessing(t, oldStatus) ==
  /\ row[t].status = oldStatus
  /\ row[t].status # "D"
  /\ row[t].status = "P" /\ row[t].hash = 0 => row[t].stale

\* Mutant: a row that is taken from a sender is not counted again.
SendCountingResends(t, oldStatus, base) ==
  \/ /\ CanSetProcessing(t, oldStatus)
     /\ row' = [row EXCEPT ![t] = [row[t] EXCEPT !.status = "P", !.hash = 0, !.stale = FALSE,
                  !.retry = row[t].retry + (IF oldStatus = "P" THEN 0 ELSE 1)]]
     /\ jobs' = jobs \cup {[tx |-> t, n |-> row'[t].retry, base |-> base,
                            stage |-> "queued"]}
  \/ /\ ~CanSetProcessing(t, oldStatus)
     /\ UNCHANGED <<row, jobs>>

\* sendPolyTxToStarcoin: take the row, build the call with the proof the
\* caller read, and queue it for a worker.
SendPolyTx(t, oldStatus, base) ==
  \/ /\ CanSetProcessing(t, oldStatus)
     /\ row' = [row EXCEPT ![t] = [row[t] EXCEPT !.status = "P", !.hash = 0,
                                            !.retry = row[t].retry + 1, !.stale = FALSE]]
     /\ jobs' = jobs \cup {[tx |-> t, n |-> row[t].retry + 1, base |-> base,
                            stage |-> "queued"]}
  \/ /\ ~CanSetProcessing(t, oldStatus)
     /\ UNCHANGED <<row, jobs>>

-----------------------------------------------------------------------------
(***************************************************************************)
(* MonitorChain and MonitorDeposit: putPolyTxThenSend.                     *)
(***************************************************************************)

\* Mutant: the proof of the next row is computed before the last one is in.
RootBefore(last) == row[last].base

\* The tree with the last row's own transaction added to it.
RootAfter(last) == row[last].base \cup {last}

\* Mutant: a table without the unique index.
IndexNeverTaken(x) == FALSE

\* The indexes of poly_tx are unique.
IndexTaken(x) == \E u \in Tx : row[u].idx = x.idx

\* PutPolyTx reads the last row and computes the proof from it ...
PutRead(p, t) ==
  /\ \A x \in puts : x.by # p
  /\ \E idx \in {0} \cup {row[u].idx : u \in Tx}, base \in SUBSET Tx :
       /\ \/ /\ idx = 0 /\ base = {}
             /\ \A u \in Tx : ~Saved(u)
          \/ \E last \in Tx :
               /\ Saved(last)
               /\ \A u \in Tx : row[u].idx <= row[last].idx
               /\ idx = row[last].idx
               /\ base = RootAfter(last)
       /\ puts' = puts \cup {[by |-> p, tx |-> t, idx |-> idx + 1,
                              base |-> base, stage |-> "read"]}
  /\ UNCHANGED <<row, chain, sent, failedSnap, tick, tickSnaps, jobs, marks,
                 saves, crashes>>

\* ... and then inserts the new one.
PutCreate(x) ==
  /\ x \in puts /\ x.stage = "read"
  /\ ~Saved(x.tx) /\ ~IndexTaken(x)
  /\ row' = [row EXCEPT ![x.tx] = NewRow(x.idx, x.base)]
  /\ puts' = (puts \ {x}) \cup {[x EXCEPT !.stage = "saved"]}
  /\ UNCHANGED <<chain, sent, failedSnap, tick, tickSnaps, jobs, marks, saves,
                 crashes>>

\* The transaction is there already: it counts as saved and is not sent.
PutDuplicate(x) ==
  /\ x \in puts /\ x.stage = "read"
  /\ Saved(x.tx)
  /\ puts' = puts \ {x}
  /\ UNCHANGED <<row, chain, sent, failedSnap, tick, tickSnaps, jobs, marks,
                 saves, crashes>>

PutSend(x) ==
  /\ x \in puts /\ x.stage = "saved"
  /\ SendPolyTx(x.tx, "N", x.base)
  /\ puts' = puts \ {x}
  /\ UNCHANGED <<chain, sent, failedSnap, tick, tickSnaps, marks, saves,
                 crashes>>

-----------------------------------------------------------------------------
(***************************************************************************)
(* handleTimedOutPolyTx: settle a row by what Starcoin says of its hash.   *)
(* Both callers pass rows older than MAX_TIMEDOUT_TO_FAILED_WAITING, so a  *)
(* transaction Starcoin does not know yet counts as failed.                *)
(***************************************************************************)
Executed(t, n) ==
  \E a \in sent : a.tx = t /\ a.n = n /\ a.fate = "executed"

HandleTimedOut(s) ==
  \/ /\ s.row.hash = 0
     /\ SetPolyTxStatus(s.tx, s.row.status, "UE")
     /\ UNCHANGED marks
  \/ /\ s.row.hash # 0 /\ Executed(s.tx, s.row.hash)
     /\ SetPolyTxStatusProcessed(s.tx, s.row.status, s.row.hash)
  \/ /\ s.row.hash # 0 /\ ~Executed(s.tx, s.row.hash)
     /\ SetPolyTxStatus(s.tx, s.row.status, "F")
     /\ UNCHANGED marks

(***************************************************************************)
(* MonitorFailedPolyTx.  The query has LIMIT 1 and no order: any row that  *)
(* satisfies it may be the one returned.                                   *)
(***************************************************************************)
\* Mutant: one retry too many.
FailedOnceMore(t) ==
  Saved(t) /\ row[t].retry <= MaxRetry /\ row[t].status \notin {"D", "T"} /\ row[t].stale

\* Mutant: rows in processing are left to their senders.
FailedNotProcessing(t) ==
  Saved(t) /\ row[t].retry < MaxRetry /\ row[t].status \notin {"D", "T", "P"} /\ row[t].stale

Failed(t) ==
  Saved(t) /\ row[t].retry < MaxRetry /\ row[t].status \notin {"D", "T"} /\ row[t].stale

GetFirstFailedPolyTx(t) ==
  /\ failedSnap = {}
  /\ Failed(t)
  /\ failedSnap' = {SnapOf(t)}
  /\ UNCHANGED <<row, chain, sent, puts, tick, tickSnaps, jobs, marks, saves,
                 crashes>>

\* A row in processing that has a hash may just have timed out.
HandleFailedPolyTx(s) ==
  /\ s \in failedSnap
  /\ \/ /\ s.row.status = "P" /\ s.row.hash # 0
        /\ HandleTimedOut(s)
        /\ UNCHANGED jobs
     \/ /\ ~(s.row.status = "P" /\ s.row.hash # 0)
        /\ SendPolyTx(s.tx, s.row.status, s.row.base)
        /\ UNCHANGED marks
  /\ failedSnap' = {}
  /\ UNCHANGED <<chain, sent, puts, tick, tickSnaps, saves, crashes>>

-----------------------------------------------------------------------------
(***************************************************************************)
(* MonitorTimedOutPolyTx: one tick is list, smt, timedOut, resolve.        *)
(***************************************************************************)
InWindow(i, last) == i <= last /\ (last > Window => i >= last - Window)

\* A query LIMIT ListLimit returns S, or ListLimit of its members.
Limited(S) ==
  {L \in SUBSET S : \/ Cardinality(S) <= ListLimit /\ L = S
                    \/ Cardinality(L) = ListLimit}

GetTimedOutOrFailedPolyTxList ==
  /\ tick = "list"
  /\ \E L \in Limited({t \in Tx :
                /\ row[t].status \in {"T", "F"}
                /\ \A u \in Tx : (\A v \in Tx : row[v].idx <= row[u].idx)
                                   => InWindow(row[t].idx, row[u].idx)}) :
       tickSnaps' = {SnapOf(t) : t \in L}
  /\ tick' = "smt"
  /\ UNCHANGED <<row, chain, sent, puts, failedSnap, jobs, marks, saves,
                 crashes>>

\* Mutant: compares the root before the row's own transaction.
SmtRootBeforeMatched(s) ==
  /\ s.row.hash # 0
  /\ \E a \in sent : /\ a.tx = s.tx /\ a.n = s.row.hash
                     /\ a.fate \in {"executed", "aborted"}
  /\ s.row.base = chain

\* The root computed with the row's own transaction is the on-chain root,
\* and its last Starcoin transaction, successful or not, is in a block.
OnChainSmtRootMatched(s) ==
  /\ s.row.hash # 0
  /\ \E a \in sent : /\ a.tx = s.tx /\ a.n = s.row.hash
                     /\ a.fate \in {"executed", "aborted"}
  /\ s.row.base \cup {s.tx} = chain

\* checkTimedOutOrFailedPolyTxListByOnChainSmtRoot stops at the first match.
\* Without one, or when a query fails or the block is not confirmed yet, it
\* changes nothing.
CheckOnChainSmtRoot ==
  /\ tick = "smt"
  /\ \/ \E s \in tickSnaps :
          /\ OnChainSmtRootMatched(s)
          /\ SetPolyTxStatusProcessed(s.tx, s.row.status, s.row.hash)
     \/ UNCHANGED <<row, marks>>
  /\ tickSnaps' = {}
  /\ tick' = "timedOut"
  /\ UNCHANGED <<chain, sent, puts, failedSnap, jobs, saves, crashes>>

GetFirstTimedOutPolyTx(t) ==
  /\ tick = "timedOut"
  /\ row[t].status = "T" /\ row[t].stale
  /\ tickSnaps' = {SnapOf(t)}
  /\ tick' = "resolve"
  /\ UNCHANGED <<row, chain, sent, puts, failedSnap, jobs, marks, saves,
                 crashes>>

\* No row has timed out, or the first one has done so only now.
NoTimedOutPolyTx ==
  /\ tick = "timedOut"
  /\ \/ \A t \in Tx : row[t].status # "T"
     \/ \E t \in Tx : row[t].status = "T" /\ ~row[t].stale
  /\ tick' = "list"
  /\ UNCHANGED <<row, chain, sent, puts, failedSnap, tickSnaps, jobs, marks,
                 saves, crashes>>

HandleTimedOutPolyTx(s) ==
  /\ tick = "resolve" /\ s \in tickSnaps
  /\ HandleTimedOut(s)
  /\ tickSnaps' = {}
  /\ tick' = "list"
  /\ UNCHANGED <<chain, sent, puts, failedSnap, jobs, saves, crashes>>

-----------------------------------------------------------------------------
(***************************************************************************)
(* sendTxToStarcoin, run by the worker of the channel that got the job.    *)
(* Channels are chosen at random, so jobs reach workers in any order.      *)
(***************************************************************************)
JobAt(j, stage) == j \in jobs /\ j.stage = stage
MoveJob(j, stage) == jobs' = (jobs \ {j}) \cup {[j EXCEPT !.stage = stage]}
EndJob(j) == jobs' = jobs \ {j}
FateOf(j) == {a.fate : a \in {b \in sent : b.tx = j.tx /\ b.n = j.n}}

SubmitTransaction(j) ==
  /\ JobAt(j, "queued")
  /\ MoveJob(j, "submitted")
  /\ sent' = sent \cup {[tx |-> j.tx, n |-> j.n, base |-> j.base,
                         fate |-> "pending"]}
  /\ UNCHANGED <<row, chain, puts, failedSnap, tick, tickSnaps, marks, saves,
                 crashes>>

\* The gas price, the build or the submission fails: the row is left as is.
SubmitFails(j) ==
  /\ JobAt(j, "queued")
  /\ EndJob(j)
  /\ UNCHANGED <<row, chain, sent, puts, failedSnap, tick, tickSnaps, marks,
                 saves, crashes>>

SetProcessingPolyTxStarcoinTxHash(j) ==
  /\ JobAt(j, "submitted")
  /\ \/ /\ row[j.tx].status = "P"
        /\ row' = [row EXCEPT ![j.tx] = [row[j.tx] EXCEPT !.hash = j.n,
                                                  !.stale = FALSE]]
        /\ MoveJob(j, "waiting")
     \/ /\ row[j.tx].status # "P"
        /\ EndJob(j)
        /\ UNCHANGED row
  /\ UNCHANGED <<chain, sent, puts, failedSnap, tick, tickSnaps, marks, saves,
                 crashes>>

\* WaitTransactionConfirm returns: executed, failed, or timed out.
WaitTransactionConfirm(j) ==
  /\ JobAt(j, "waiting")
  /\ \/ /\ "executed" \in FateOf(j)
        /\ SetPolyTxStatusProcessed(j.tx, "P", j.n)
     \/ /\ "aborted" \in FateOf(j)
        /\ SetPolyTxStatus(j.tx, "P", "F")
        /\ UNCHANGED marks
     \/ /\ SetPolyTxStatus(j.tx, "P", "T")
        /\ UNCHANGED marks
  /\ EndJob(j)
  /\ UNCHANGED <<chain, sent, puts, failedSnap, tick, tickSnaps, saves,
                 crashes>>

-----------------------------------------------------------------------------
(***************************************************************************)
(* updatePolyTransactionsToProcessedBeforeIndex, in its own goroutine: it  *)
(* reads whole rows, then saves them unconditionally.                      *)
(***************************************************************************)
\* Mutant: the rows after the index are marked too.
UnprocessedAround(i) ==
  {t \in Tx : Saved(t) /\ row[t].status \in {"P", "F", "T"}}

UnprocessedBefore(i) ==
  {t \in Tx : /\ Saved(t) /\ row[t].status \in {"P", "F", "T"}
              /\ row[t].idx < i /\ InWindow(row[t].idx, i)}

MarkRead(i) ==
  /\ i \in marks
  /\ \E L \in Limited(UnprocessedBefore(i)) :
       saves' = saves \cup {SnapOf(t) : t \in L}
  /\ marks' = marks \ {i}
  /\ UNCHANGED <<row, chain, sent, puts, failedSnap, tick, tickSnaps, jobs,
                 crashes>>

MarkSave(s) ==
  /\ s \in saves
  /\ row' = [row EXCEPT ![s.tx] = [s.row EXCEPT !.status = "D",
                                                !.stale = FALSE]]
  /\ saves' = saves \ {s}
  /\ UNCHANGED <<chain, sent, puts, failedSnap, tick, tickSnaps, jobs, marks,
                 crashes>>

-----------------------------------------------------------------------------
(***************************************************************************)
(* Starcoin, as the relayer sees it: a submitted transaction is executed   *)
(* when its proof is against the current tree and aborts otherwise.  One   *)
(* that the node forgets is one that stays pending for ever.               *)
(***************************************************************************)
ChainRuns(a) ==
  /\ a \in sent /\ a.fate = "pending"
  /\ \/ /\ a.base = chain /\ a.tx \notin chain
        /\ sent' = (sent \ {a}) \cup {[a EXCEPT !.fate = "executed"]}
        /\ chain' = chain \cup {a.tx}
     \/ /\ ~(a.base = chain /\ a.tx \notin chain)
        /\ sent' = (sent \ {a}) \cup {[a EXCEPT !.fate = "aborted"]}
        /\ UNCHANGED chain
  /\ UNCHANGED <<row, goVars, crashes>>

-----------------------------------------------------------------------------
\* More than PolyTxMaxProcessingSeconds pass without an update of the row.
TimePasses(t) ==
  /\ Saved(t) /\ ~row[t].stale
  /\ row' = [row EXCEPT ![t].stale = TRUE]
  /\ UNCHANGED <<chain, sent, goVars, crashes>>

\* The process dies and starts again: channels, goroutines and what they had
\* read are gone.
Restart ==
  /\ puts' = {} /\ failedSnap' = {} /\ tickSnaps' = {}
  /\ tick' = "list"
  /\ jobs' = {} /\ marks' = {} /\ saves' = {}
  /\ UNCHANGED dbVars

Crash ==
  /\ crashes < MaxCrashes
  /\ crashes' = crashes + 1
  /\ Restart

\* The index is taken by another transaction: IsDuplicatePolyTxError looks
\* this one up, finds nothing and dereferences nil.
PutPanics(x) ==
  /\ x \in puts /\ x.stage = "read"
  /\ ~Saved(x.tx) /\ IndexTaken(x)
  /\ Restart
  /\ UNCHANGED crashes

-----------------------------------------------------------------------------
PutStep(p) ==
  \/ \E t \in Tx : PutRead(p, t)
  \/ \E x \in {y \in puts : y.by = p} :
       PutCreate(x) \/ PutDuplicate(x) \/ PutSend(x) \/ PutPanics(x)

FailedStep ==
  \/ \E t \in Tx : GetFirstFailedPolyTx(t)
  \/ \E s \in failedSnap : HandleFailedPolyTx(s)

TickStep ==
  \/ GetTimedOutOrFailedPolyTxList
  \/ CheckOnChainSmtRoot
  \/ \E t \in Tx : GetFirstTimedOutPolyTx(t)
  \/ NoTimedOutPolyTx
  \/ \E s \in tickSnaps : HandleTimedOutPolyTx(s)

WorkerStep(j) ==
  \/ SubmitTransaction(j)
  \/ SubmitFails(j)
  \/ SetProcessingPolyTxStarcoinTxHash(j)
  \/ WaitTransactionConfirm(j)

MarkStep ==
  \/ \E i \in marks : MarkRead(i)
  \/ \E s \in saves : MarkSave(s)

Next ==
  \/ \E p \in Putter : PutStep(p)
  \/ FailedStep
  \/ TickStep
  \/ \E j \in jobs : WorkerStep(j)
  \/ MarkStep
  \/ \E a \in sent : ChainRuns(a)
  \/ \E t \in Tx : TimePasses(t)
  \/ Crash

Spec == Init /\ [][Next]_vars

(***************************************************************************)
(* The monitors and the workers are goroutines on tickers and channels:    *)
(* each keeps running.  The unordered LIMIT 1 queries cannot return other  *)
(* rows forever: a row that is handled leaves the query or uses up one of  *)
(* its MaxRetry retries.  Nothing is assumed of Starcoin, of the submission *)
(* of a transaction or of the arrival of new ones.                         *)
(***************************************************************************)
Fairness ==
  /\ WF_vars(TickStep)
  /\ \A p \in Putter :
       WF_vars(\E x \in {y \in puts : y.by = p} :
                 PutCreate(x) \/ PutDuplicate(x) \/ PutSend(x) \/ PutPanics(x))
  /\ WF_vars(\E s \in failedSnap : HandleFailedPolyTx(s))
  /\ \A t \in Tx :
       /\ SF_vars(GetFirstFailedPolyTx(t))
       /\ SF_vars(GetFirstTimedOutPolyTx(t))
       /\ WF_vars(TimePasses(t))
       /\ WF_vars(\E j \in {k \in jobs : k.tx = t} : WorkerStep(j))

FairSpec == Spec /\ Fairness

-----------------------------------------------------------------------------
(***************************************************************************)
(* Properties.                                                             *)
(***************************************************************************)

\* The proof stored with a row is against the tree of exactly the rows with a
\* smaller index, and indexes are unique, although two goroutines insert rows
\* by reading the last one first (PutPolyTx).
ProofChain ==
  \A t \in Tx : Saved(t) =>
    /\ row[t].base = {u \in Tx : Saved(u) /\ row[u].idx < row[t].idx}
    /\ \A u \in Tx : row[u].idx = row[t].idx => u = t

\* Whatever is resent, Starcoin executes transactions in the order in which
\* they were saved: no executed transaction has an earlier one missing.
InOrder ==
  \A t \in chain : /\ Saved(t)
                   /\ \A u \in Tx : /\ Saved(u)
                                    /\ row[u].idx < row[t].idx
                                    => u \in chain

\* A row marked processed was executed on Starcoin.  Rows are also marked
\* without asking the chain, by updatePolyTransactionsToProcessedBeforeIndex
\* and by the comparison of roots: no transfer is lost by that.
ProcessedSound == \A t \in Tx : row[t].status = "D" => t \in chain

\* A processed row stays processed, whatever the workers, the monitors and
\* the stale Saves that are still under way write after it.
ProcessedIsFinal ==
  [][\A t \in Tx : row[t].status = "D" => row'[t].status = "D"]_vars

\* Every attempt is one Starcoin transaction, submitted once by one worker,
\* though rows are taken with what was read of them earlier, and whole rows
\* with an old count of retries are saved back: a hash in the table stands
\* for one transaction, and no more than MaxRetry are ever paid for.
AttemptedOnce ==
  /\ \A x, y \in sent : x.tx = y.tx /\ x.n = y.n => x = y
  /\ \A j, k \in jobs : j.tx = k.tx /\ j.n = k.n => j = k
  /\ \A j \in jobs, x \in sent : j.stage = "queued" /\ x.tx = j.tx => x.n # j.n

\* Every saved row is settled for good: processed, or failed with its retries
\* used up.  No crash, lost job, forgotten transaction or lost race leaves it
\* where no goroutine looks for it, with one exception: when the last attempt
\* itself is lost, the row stays in processing.
Settled(t) ==
  \/ row[t].status = "D"
  \/ /\ row[t].retry = MaxRetry
     /\ \/ row[t].status \in {"F", "UE"}
        \/ row[t].status = "P" /\ \A j \in jobs : j.tx # t

Settles == \A t \in Tx : Saved(t) ~> []Settled(t)

\* The relay implements InOrderDelivery: positions are tx_index, deliveries
\* are executions by the contract, and what is recorded is status D.
Delivery == INSTANCE InOrderDelivery WITH
              pos       <- [t \in Tx |-> row[t].idx],
              delivered <- chain,
              processed <- {t \in Tx : row[t].status = "D"}

ImplementsDelivery == Delivery!Spec
=============================================================================
