--------------------------- MODULE PolyTxRemoval ---------------------------
(***************************************************************************)
(* Removal and push-back of poly_tx rows.  A transaction that Starcoin     *)
(* never executes blocks all that were saved after it: their proofs are    *)
(* against trees that hold it.  The operator marks its row TBR.  When its  *)
(* base root is the on-chain root, MonitorTimedOutPolyTx moves it to       *)
(* removed_poly_tx and resets the roots of the rows after it; each is      *)
(* computed anew when it is sent.  A removed row marked TBP is saved again *)
(* as the last one.  MonitorChain saves and senders send all the while.    *)
(*                                                                         *)
(* A root is the set of keys of its tree, as in PolyTxRelay, NoRoot (the   *)
(* empty string) or BadRoot (the root of no tree of saved transactions).   *)
(* What a goroutine has read of poly_tx is a copy, of which it uses or     *)
(* saves back more than it has checked.  PolyTxRelay has the details of    *)
(* sending, hashes and time-outs among them: here a Starcoin transaction   *)
(* is queued, run and settled.                                             *)
(***************************************************************************)
EXTENDS Naturals, FiniteSets

CONSTANTS
  Tx,          \* the poly transactions
  NoRoot, BadRoot,
  MaxRetry,    \* PolyTxMaxRetryCount (10 in the code)
  MaxPushes,   \* bound of the model: requests to push a row back
  MaxFaults    \* bound of the model: failed calls and crashes

ASSUME ConstantsAssumption ==
  /\ NoRoot # BadRoot
  /\ \A K \in SUBSET Tx : K # NoRoot /\ K # BadRoot
  /\ MaxRetry \in Nat \ {0}
  /\ MaxPushes \in Nat
  /\ MaxFaults \in Nat

VARIABLES
  \* the database and the chain survive a crash
  row,         \* poly_tx
  removed,     \* removed_poly_tx
  seen,        \* the transactions MonitorChain has saved: it has moved on
  chain,       \* the keys of the on-chain tree
  jobs,        \* the Starcoin transactions of the rows, until settled
  \* the state of the goroutines does not
  put,         \* the PutPolyTx call of MonitorChain
  sending,     \* the sendPolyTxToStarcoin calls under way
  marks,       \* started updatePolyTransactionsToProcessedBeforeIndex calls
  saves,       \* the copies those calls have read and will Save
  tick, held,  \* MonitorTimedOutPolyTx and the row it handles
  pushes, faults

vars == <<row, removed, seen, chain, jobs, put, sending, marks, saves, tick,
          held, pushes, faults>>

Root == {NoRoot, BadRoot} \cup SUBSET Tx

IsTree(base) == base \notin {NoRoot, BadRoot}

Row == [idx: Nat, status: {"none", "N", "P", "F", "D", "TBR"}, base: Root,
        retry: 0..MaxRetry]

NoRow == [idx |-> 0, status |-> "none", base |-> NoRoot, retry |-> 0]

\* Mutant: a row that is pushed back has one retry more.
NewRowRetried(idx, base, retry) ==
  [idx |-> idx, status |-> "N", base |-> base, retry |-> retry + 1]

NewRow(idx, base, retry) ==
  [idx |-> idx, status |-> "N", base |-> base, retry |-> retry]

Removed == [status: {"none", "TBR", "TBP"}, retry: 0..MaxRetry]

NotRemoved == [status |-> "none", retry |-> 0]

\* A row as it was read, or as it is to be inserted.
Copy == [tx: Tx, row: Row]

CopyOf(t) == [tx |-> t, row |-> row[t]]

\* "copied": the caller has the row; "taken": it is set to processing and its
\* root is to be computed; "read": it was read again with a root computed;
\* "saved": and saved.
Send == [by: {"MonitorChain", "MonitorFailedPolyTx"}, tx: Tx, copy: Copy,
         stage: {"copied", "taken", "read", "saved"}]

\* n is the retry the transaction was queued in.
Job == [tx: Tx, n: 0..MaxRetry, base: Root,
        fate: {"queued", "executed", "failed"}]

TypeOK ==
  /\ row \in [Tx -> Row]
  /\ removed \in [Tx -> Removed]
  /\ seen \in SUBSET Tx /\ chain \in SUBSET Tx
  /\ jobs \in SUBSET Job
  /\ put \in SUBSET Copy
  /\ sending \in SUBSET Send
  /\ marks \in SUBSET Nat
  /\ saves \in SUBSET Copy
  /\ tick \in {"remove", "delete", "push", "put", "drop"}
  /\ held \in SUBSET Copy
  /\ pushes \in 0..MaxPushes
  /\ faults \in 0..MaxFaults

Init ==
  /\ row = [t \in Tx |-> NoRow]
  /\ removed = [t \in Tx |-> NotRemoved]
  /\ seen = {} /\ chain = {} /\ jobs = {}
  /\ put = {} /\ sending = {}
  /\ marks = {} /\ saves = {}
  /\ tick = "remove" /\ held = {}
  /\ pushes = 0 /\ faults = 0

Fault == faults < MaxFaults /\ faults' = faults + 1

Saved(t) == row[t].idx # 0

IsRemoved(t) == removed[t].status # "none"

-----------------------------------------------------------------------------
(***************************************************************************)
(* Roots.                                                                  *)
(***************************************************************************)
\* What setPolyTxNonMembershipProof may find for a row that follows p.  An
\* empty root matches any node of smt_node: gorm leaves a condition on an
\* empty string out.
RootsAfter(p) ==
  IF IsTree(row[p].base) THEN {row[p].base \cup {p}}
  ELSE {BadRoot} \cup {K \cup {p} : K \in SUBSET seen}

\* The last of the rows before an index.
Previous(idx) ==
  {p \in Tx : /\ Saved(p) /\ row[p].idx < idx
              /\ \A u \in Tx : row[u].idx < idx => row[u].idx <= row[p].idx}

\* PutPolyTx reads the last row; if that has no root, it computes none.
NextRow(x) ==
  \/ /\ \A u \in Tx : ~Saved(u)
     /\ x.row.idx = 1 /\ x.row.base = {}
  \/ \E last \in Tx :
       /\ Saved(last) /\ \A u \in Tx : row[u].idx <= row[last].idx
       /\ x.row.idx = row[last].idx + 1
       /\ IF row[last].base = NoRoot THEN x.row.base = NoRoot
                                     ELSE x.row.base \in RootsAfter(last)

NextIndexes == {1} \cup {row[u].idx + 1 : u \in Tx}

\* The rows PutPolyTx may make of t.
NextRows(t, retry) ==
  {x \in [tx: {t}, row: {NewRow(i, b, retry) : i \in NextIndexes, b \in Root}] :
     NextRow(x)}

\* The unique indexes of poly_tx.
CanInsert(x) == ~Saved(x.tx) /\ \A u \in Tx : row[u].idx # x.row.idx

\* Save goes by the primary key: it overwrites whatever row has that index,
\* or makes one.
Save(x) ==
  row' = [t \in Tx |-> IF t = x.tx THEN x.row
                       ELSE IF row[t].idx = x.row.idx THEN NoRow ELSE row[t]]

-----------------------------------------------------------------------------
(***************************************************************************)
(* MonitorChain saves new transactions and sends them.                     *)
(***************************************************************************)
PutRead(t) ==
  /\ put = {} /\ t \notin seen
  /\ \A x \in sending : x.by # "MonitorChain"
  /\ \E x \in NextRows(t, 0) : put' = {x}
  /\ UNCHANGED <<row, removed, seen, chain, jobs, sending, marks, saves, tick,
                 held, pushes, faults>>

PutCreate(x) ==
  /\ x \in put
  /\ \/ /\ CanInsert(x)
        /\ row' = [row EXCEPT ![x.tx] = x.row]
        /\ seen' = seen \cup {x.tx}
        /\ sending' = sending \cup {[by |-> "MonitorChain", tx |-> x.tx,
                                     copy |-> x, stage |-> "copied"]}
     \/ ~CanInsert(x) /\ UNCHANGED <<row, seen, sending>>
  /\ put' = {}
  /\ UNCHANGED <<removed, chain, jobs, marks, saves, tick, held, pushes,
                 faults>>

-----------------------------------------------------------------------------
(***************************************************************************)
(* sendPolyTxToStarcoin.                                                   *)
(***************************************************************************)
\* updated_at is more than PolyTxMaxProcessingSeconds ago.  Time is not
\* modelled, but that no call is in the middle of sending the row: between
\* its read of the row and its last one are statements on the database, and
\* no wait.  What it has queued may be in the channel or on Starcoin for as
\* long as it likes.
Stale(t) == \A x \in sending : x.tx # t

GetFirstFailedPolyTx(t) ==
  /\ \A x \in sending : x.by # "MonitorFailedPolyTx"
  /\ row[t].status \in {"N", "P", "F"} /\ row[t].retry < MaxRetry /\ Stale(t)
  /\ sending' = sending \cup {[by |-> "MonitorFailedPolyTx", tx |-> t,
                               copy |-> CopyOf(t), stage |-> "copied"]}
  /\ UNCHANGED <<row, removed, seen, chain, jobs, put, marks, saves, tick, held,
                 pushes, faults>>

SendAt(x, stage) == x \in sending /\ x.stage = stage

MoveSend(x, y) == sending' = (sending \ {x}) \cup {y}

EndSend(x) == sending' = sending \ {x}

JobOf(t, n, base) == [tx |-> t, n |-> n, base |-> base, fate |-> "queued"]

\* The row is taken if it has the status of the copy, and sent with the root
\* of the copy if that has one.
SetPolyTxStatusProcessing(x) ==
  /\ SendAt(x, "copied")
  /\ row[x.tx].status = x.copy.row.status
  /\ row' = [row EXCEPT ![x.tx] = [row[x.tx] EXCEPT !.status = "P",
                                           !.retry = row[x.tx].retry + 1]]
  /\ \/ /\ x.copy.row.base # NoRoot
        /\ jobs' = jobs \cup {JobOf(x.tx, row[x.tx].retry + 1, x.copy.row.base)}
        /\ EndSend(x)
     \/ /\ x.copy.row.base = NoRoot
        /\ MoveSend(x, [x EXCEPT !.stage = "taken"])
        /\ UNCHANGED jobs
  /\ UNCHANGED <<removed, seen, chain, put, marks, saves, tick, held, pushes,
                 faults>>

\* The row has another status by now.
NotTaken(x) ==
  /\ SendAt(x, "copied")
  /\ row[x.tx].status # x.copy.row.status
  /\ EndSend(x)
  /\ UNCHANGED <<row, removed, seen, chain, jobs, put, marks, saves, tick, held,
                 pushes, faults>>

\* UpdatePolyTxNonMembershipProofByIndex reads what row has the index, and
\* the one before it ...
RootRead(x) ==
  /\ SendAt(x, "taken")
  /\ \E t \in Tx :
       /\ row[t].idx = x.copy.row.idx
       /\ \E base \in IF Previous(row[t].idx) = {} THEN {{}}
                      ELSE UNION {RootsAfter(p) : p \in Previous(row[t].idx)} :
            MoveSend(x, [x EXCEPT !.stage = "read", !.copy.tx = t,
                           !.copy.row = [row[t] EXCEPT !.base = base]])
  /\ UNCHANGED <<row, removed, seen, chain, jobs, put, marks, saves, tick, held,
                 pushes, faults>>

\* ... and saves the whole row as it was then: a request to remove it that
\* came between is lost.
RootSave(x) ==
  /\ SendAt(x, "read")
  /\ Save(x.copy)
  /\ MoveSend(x, [x EXCEPT !.stage = "saved"])
  /\ UNCHANGED <<removed, seen, chain, jobs, put, marks, saves, tick, held,
                 pushes, faults>>

\* The row is read once more, and queued with the root it has by then.
SendWithRoot(x) ==
  /\ SendAt(x, "saved")
  /\ Saved(x.tx)
  /\ jobs' = jobs \cup {JobOf(x.tx, row[x.tx].retry, row[x.tx].base)}
  /\ EndSend(x)
  /\ UNCHANGED <<row, removed, seen, chain, put, marks, saves, tick, held,
                 pushes, faults>>

\* A query fails, or the tree cannot be read from an empty root.
SendFails(x) ==
  /\ x \in sending
  /\ Fault
  /\ EndSend(x)
  /\ UNCHANGED <<row, removed, seen, chain, jobs, put, marks, saves, tick, held,
                 pushes>>

\* The contract executes a transaction whose base is the on-chain root.
JobRuns(j) ==
  /\ j \in jobs /\ j.fate = "queued"
  /\ \/ /\ j.base = chain /\ j.tx \notin chain
        /\ chain' = chain \cup {j.tx}
        /\ jobs' = (jobs \ {j}) \cup {[j EXCEPT !.fate = "executed"]}
     \/ /\ j.base # chain \/ j.tx \in chain
        /\ jobs' = (jobs \ {j}) \cup {[j EXCEPT !.fate = "failed"]}
        /\ UNCHANGED chain
  /\ UNCHANGED <<row, removed, seen, put, sending, marks, saves, tick, held,
                 pushes, faults>>

\* SetPolyTxStatus, SetPolyTxStatusProcessed: the row is settled if it is
\* still in processing.  Whatever becomes of that, the rows before one that
\* was executed are to be marked.
Settle(j) ==
  /\ j \in jobs /\ j.fate # "queued"
  /\ row' = IF row[j.tx].status # "P" THEN row
            ELSE [row EXCEPT ![j.tx].status =
                               IF j.fate = "executed" THEN "D" ELSE "F"]
  /\ marks' = IF j.fate = "executed" /\ Saved(j.tx)
              THEN marks \cup {row[j.tx].idx} ELSE marks
  /\ jobs' = jobs \ {j}
  /\ UNCHANGED <<removed, seen, chain, put, sending, saves, tick, held, pushes,
                 faults>>

UnprocessedBefore(i) ==
  {t \in Tx : Saved(t) /\ row[t].status \in {"P", "F"} /\ row[t].idx < i}

\* updatePolyTransactionsToProcessedBeforeIndex reads whole rows, some of the
\* last ones, and then saves them one by one, marked as processed.  It
\* ignores a Save that fails: one of a row that it has not read.
MarkRead(i) ==
  /\ i \in marks
  /\ \E L \in SUBSET UnprocessedBefore(i) :
       saves' = saves \cup {CopyOf(t) : t \in L}
  /\ marks' = marks \ {i}
  /\ UNCHANGED <<row, removed, seen, chain, jobs, put, sending, tick, held,
                 pushes, faults>>

MarkSave(x) ==
  /\ x \in saves
  /\ Save([x EXCEPT !.row.status = "D"])
  /\ saves' = saves \ {x}
  /\ UNCHANGED <<removed, seen, chain, jobs, put, sending, marks, tick, held,
                 pushes, faults>>

-----------------------------------------------------------------------------
(***************************************************************************)
(* MonitorTimedOutPolyTx: remove, then push back.  Both queries have       *)
(* LIMIT 1 and no order.                                                   *)
(***************************************************************************)
\* Mutant: compares the root after the row, as for a processed one.
MatchesRootAfter(t) == IsTree(row[t].base) /\ row[t].base \cup {t} = chain

OnChainRootMatches(t) == row[t].base = chain

\* The operator has asked for it a while ago: a bulk update that had read the
\* row before has saved it by now.
AskedBefore(t) == row[t].status = "TBR" /\ \A x \in saves : x.tx # t

\* handlePolyTxToBeRemoved, up to the comparison of the roots.
GetFirstPolyTxToBeRemoved(t) ==
  /\ tick = "remove"
  /\ AskedBefore(t)
  /\ \/ /\ OnChainRootMatches(t)
        /\ tick' = "delete"
        /\ held' = {CopyOf(t)}
        /\ UNCHANGED faults
     \/ /\ \/ ~OnChainRootMatches(t) /\ UNCHANGED faults
           \/ Fault
        /\ tick' = "push"
        /\ UNCHANGED held
  /\ UNCHANGED <<row, removed, seen, chain, jobs, put, sending, marks, saves,
                 pushes>>

NoPolyTxToBeRemoved ==
  /\ tick = "remove"
  /\ \A t \in Tx : row[t].status # "TBR"
  /\ tick' = "push"
  /\ UNCHANGED <<row, removed, seen, chain, jobs, put, sending, marks, saves,
                 held, pushes, faults>>

\* Mutant: the rows after the removed one are renumbered.
DeletedAndClosed(x) ==
  [t \in Tx |-> IF row[t].idx = x.row.idx THEN NoRow
                ELSE IF row[t].idx > x.row.idx
                THEN [row[t] EXCEPT !.base = NoRoot, !.idx = row[t].idx - 1]
                ELSE row[t]]

Deleted(x) ==
  [t \in Tx |-> IF row[t].idx = x.row.idx THEN NoRow
                ELSE IF row[t].idx > x.row.idx
                THEN [row[t] EXCEPT !.base = NoRoot] ELSE row[t]]

MovedToRemoved(x) ==
  [removed EXCEPT ![x.tx] = [status |-> "TBR", retry |-> x.row.retry]]

\* Mutant: the error of the insert is ignored.
RemoveAnyway(x) ==
  /\ x \in held /\ tick = "delete"
  /\ \/ removed' = MovedToRemoved(x) /\ UNCHANGED faults
     \/ UNCHANGED removed /\ Fault
  /\ row' = Deleted(x)
  /\ tick' = "push" /\ held' = {}
  /\ UNCHANGED <<seen, chain, jobs, put, sending, marks, saves, pushes>>

\* One transaction: insert into removed_poly_tx, delete by the primary key,
\* reset the later roots.
RemovePolyTx(x) ==
  /\ x \in held /\ tick = "delete"
  /\ \/ /\ ~IsRemoved(x.tx)
        /\ removed' = MovedToRemoved(x) /\ row' = Deleted(x)
        /\ UNCHANGED faults
     \/ /\ \/ IsRemoved(x.tx) /\ UNCHANGED faults
           \/ Fault
        /\ UNCHANGED <<row, removed>>
  /\ tick' = "push" /\ held' = {}
  /\ UNCHANGED <<seen, chain, jobs, put, sending, marks, saves, pushes>>

\* PushBackRemovePolyTx calls PutPolyTx, which is outside its transaction.
GetFirstRemovedPolyTxToBePushedBack(t) ==
  /\ tick = "push"
  /\ removed[t].status = "TBP"
  /\ \E x \in NextRows(t, removed[t].retry) : held' = {x}
  /\ tick' = "put"
  /\ UNCHANGED <<row, removed, seen, chain, jobs, put, sending, marks, saves,
                 pushes, faults>>

NothingToBePushedBack ==
  /\ tick = "push"
  /\ \A t \in Tx : removed[t].status # "TBP"
  /\ tick' = "remove"
  /\ UNCHANGED <<row, removed, seen, chain, jobs, put, sending, marks, saves,
                 held, pushes, faults>>

\* Mutant: the error of PutPolyTx is ignored.
PushBackAnyway(x) ==
  /\ x \in held /\ tick = "put"
  /\ \/ /\ CanInsert(x)
        /\ row' = [row EXCEPT ![x.tx] = x.row]
        /\ UNCHANGED faults
     \/ ~CanInsert(x) /\ UNCHANGED <<row, faults>>
     \/ UNCHANGED row /\ Fault
  /\ tick' = "drop"
  /\ UNCHANGED <<removed, seen, chain, jobs, put, sending, marks, saves, held,
                 pushes>>

\* The row keeps its count of retries.
PushBackPut(x) ==
  /\ x \in held /\ tick = "put"
  /\ \/ /\ CanInsert(x)
        /\ row' = [row EXCEPT ![x.tx] = x.row]
        /\ tick' = "drop" /\ UNCHANGED <<held, faults>>
     \/ /\ \/ ~CanInsert(x) /\ UNCHANGED faults
           \/ Fault
        /\ tick' = "remove" /\ held' = {}
        /\ UNCHANGED row
  /\ UNCHANGED <<removed, seen, chain, jobs, put, sending, marks, saves,
                 pushes>>

PushBackDelete(x) ==
  /\ x \in held /\ tick = "drop"
  /\ \/ removed' = [removed EXCEPT ![x.tx] = NotRemoved] /\ UNCHANGED faults
     \/ UNCHANGED removed /\ Fault
  /\ tick' = "remove" /\ held' = {}
  /\ UNCHANGED <<row, seen, chain, jobs, put, sending, marks, saves, pushes>>

-----------------------------------------------------------------------------
(***************************************************************************)
(* The operator and the operating system.                                  *)
(***************************************************************************)
RequestRemoval(t) ==
  /\ row[t].status \in {"P", "F"}
  /\ row' = [row EXCEPT ![t].status = "TBR"]
  /\ UNCHANGED <<removed, seen, chain, jobs, put, sending, marks, saves, tick,
                 held, pushes, faults>>

RequestPushBack(t) ==
  /\ removed[t].status = "TBR"
  /\ pushes < MaxPushes /\ pushes' = pushes + 1
  /\ removed' = [removed EXCEPT ![t].status = "TBP"]
  /\ UNCHANGED <<row, seen, chain, jobs, put, sending, marks, saves, tick,
                 held, faults>>

\* The process starts again: what is in the channels of the senders is lost.
Restart ==
  /\ put' = {} /\ sending' = {} /\ marks' = {} /\ saves' = {}
  /\ held' = {} /\ tick' = "remove"
  /\ \E lost \in SUBSET {j \in jobs : j.fate = "queued"} : jobs' = jobs \ lost
  /\ UNCHANGED <<row, removed, seen, chain, pushes>>

Crash == Fault /\ Restart

\* The row that was saved with a root has been removed before it is read once
\* more: the error is logged with the index of a nil row.
SendPanics(x) ==
  /\ SendAt(x, "saved")
  /\ ~Saved(x.tx)
  /\ Restart
  /\ UNCHANGED faults

TickStep ==
  \/ \E t \in Tx : \/ GetFirstPolyTxToBeRemoved(t)
                   \/ GetFirstRemovedPolyTxToBePushedBack(t)
  \/ \E x \in held : RemovePolyTx(x) \/ PushBackPut(x) \/ PushBackDelete(x)
  \/ NoPolyTxToBeRemoved
  \/ NothingToBePushedBack

SendStep ==
  \/ \E t \in Tx : GetFirstFailedPolyTx(t)
  \/ \E x \in sending : \/ SetPolyTxStatusProcessing(x) \/ NotTaken(x)
                        \/ RootRead(x) \/ RootSave(x) \/ SendWithRoot(x)
                        \/ SendFails(x) \/ SendPanics(x)
  \/ \E j \in jobs : JobRuns(j) \/ Settle(j)

MarkStep ==
  \/ \E i \in marks : MarkRead(i)
  \/ \E x \in saves : MarkSave(x)

Next ==
  \/ TickStep
  \/ SendStep
  \/ MarkStep
  \/ \E t \in Tx : PutRead(t) \/ RequestRemoval(t) \/ RequestPushBack(t)
  \/ \E x \in put : PutCreate(x)
  \/ Crash

\* MonitorTimedOutPolyTx and the bulk updates run; senders may stop, and the
\* operator need not ask for anything.
Spec == /\ Init /\ [][Next]_vars
        /\ WF_vars(TickStep)
        /\ WF_vars(MarkStep)

-----------------------------------------------------------------------------
(***************************************************************************)
(* Properties.                                                             *)
(***************************************************************************)
(* A transaction that was saved once is in one of the two tables, whatever *)
(* statement fails and wherever the process dies while its row is moved:   *)
(* MonitorChain does not look at its block again.                          *)
NeverLost == \A t \in seen : Saved(t) \/ IsRemoved(t)

(* A row leaves its place in poly_tx only when it is moved to              *)
(* removed_poly_tx, and that only when it was read as one to be removed.   *)
(* The delete and the two Saves go by an index that was read earlier: none *)
(* hits the row of another transaction, though rows are moved, pushed back *)
(* and marked and their roots computed by goroutines that hold no lock.    *)
RowsStay ==
  [][\A t \in Tx : Saved(t) =>
       \/ row'[t].idx = row[t].idx
       \/ /\ ~Saved(t)' /\ IsRemoved(t)'
          /\ \E x \in held : x.tx = t /\ x.row.status = "TBR"]_vars

(* A row marked TBR that blocks the others is moved, unless another marked *)
(* row is in the way of the query, or it is in removed_poly_tx already.    *)
Unblocked ==
  \A t \in Tx :
    row[t].status = "TBR" /\ row[t].base = chain
      ~> \/ ~(row[t].status = "TBR" /\ row[t].base = chain)
         \/ IsRemoved(t)
         \/ \E u \in Tx \ {t} : row[u].status = "TBR"

(* A row marked TBP is in poly_tx again, unless one is in the way of the   *)
(* query that was put there but not deleted here.                          *)
PushedBack ==
  \A t \in Tx :
    removed[t].status = "TBP"
      ~> Saved(t) \/ \E u \in Tx \ {t} : removed[u].status = "TBP" /\ Saved(u)
=============================================================================
